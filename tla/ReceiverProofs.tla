---------------------------- MODULE ReceiverProofs ----------------------------
(***************************************************************************)
(* Theorems about the control of the receiver: which modems there are and  *)
(* which is selected, the locks that are taken for it, which device is in  *)
(* use and what it is set to, and what keeps a radio in step.  These parts *)
(* share no variable: each has an invariant and theorems of its own.       *)
(***************************************************************************)
EXTENDS Tuning, LockOrder, Receiver, DeviceSettings, RigControl, SequenceTheorems,
        FiniteSetTheorems, WellFoundedInduction, TLAPS

-----------------------------------------------------------------------------
(* Tuning: the invariant.                                                  *)

Made == 1 .. modemsMade
Known == Listed \cup ghosts
Calls == {"none", "offset", "select", "delete", "load", "activate"}
ModemSettings == [freq : Int, active : BOOLEAN, follow : BOOLEAN, tracking : BOOLEAN,
                  deltaLock : BOOLEAN, ofs : Int]

\* A selection of what is in E, where nothing is fed but what is in F, and of what is
\* listed only the modem on show.
Selects(s, E, F, inList) ==
    /\ s \in [current : E \cup {None}, context : E \cup {None}, visual : E \cup {None},
              fed : SUBSET F]
    /\ s.fed \cap inList \subseteq {s.visual}

TuningTypes ==
    /\ modem \in [Modems -> ModemSettings]
    /\ center \in Int /\ center >= HalfRate
    /\ post \in [step : {"idle", "lock", "range", "adopt"}, list : Seq(Made), center : Int]
    /\ handler \in [call : Calls, demod : Made \cup {None}]
    /\ modemsMade \in 0 .. MaxModems
    /\ solo \in Modems \cup {None}

\* Modems are listed in the order they were made, and the GUI's handler works on one there was.
ListGrows ==
    /\ demods \in Seq(Made)
    /\ \A i, j \in 1 .. Len(demods) : i < j => demods[i] < demods[j]
ModemsAreKnown ==
    /\ ghosts \subseteq Made
    /\ BeforePost \subseteq Known
    /\ post.step # "idle" => post.list # << >>
    /\ handler.call \in {"offset", "select", "delete", "activate"} => handler.demod \in Known

TuningInv ==
    /\ TuningTypes /\ ListGrows /\ ModemsAreKnown
    /\ Selects(selection, Known, Made, Listed)

-----------------------------------------------------------------------------
(* Tuning: the operators on selections and lists.                          *)

LEMMA UpdateLastStateSelects ==
  ASSUME NEW s, NEW m, NEW E, NEW F, NEW inList, NEW l, Selects(s, E, F, inList)
  PROVE  Selects(UpdateLastState(s, m, l), E, F, inList)
  BY DEF Selects, UpdateLastState, None

LEMMA ShowModemSelects ==
  ASSUME NEW s, NEW E, NEW F, NEW inList, NEW d \in E \cup {None}, E \subseteq F,
         Selects(s, E, F, inList)
  PROVE  Selects(ShowModem(s, d), E, F, inList)
<1> DEFINE shown == IF d = None THEN s.current ELSE d
           t == [s EXCEPT !.fed = (@ \ {s.visual}) \cup ({shown} \ {None}), !.visual = shown,
                          !.context = d]
<1>1. shown \in E \cup {None}
  BY DEF Selects
<1> HIDE DEF shown
<1>2. t \in [current : E \cup {None}, context : E \cup {None}, visual : E \cup {None},
             fed : SUBSET F]
  BY <1>1 DEF Selects, None
<1>3. t.fed \cap inList \subseteq {t.visual}
  BY <1>1 DEF Selects
<1>4. QED  BY <1>2, <1>3 DEF ShowModem, Selects, shown

LEMMA SetActiveModemSelects ==
  ASSUME NEW s, NEW m, NEW E, NEW F, NEW inList, NEW l, NEW d \in E \cup {None}, E \subseteq F,
         Selects(s, E, F, inList)
  PROVE  Selects(SetActiveModem(s, m, l, d), E, F, inList)
<1>1. \A c \in E \cup {None} : Selects([s EXCEPT !.current = c], E, F, inList)
  BY DEF Selects
<1>2. s.context \in E \cup {None}
  BY DEF Selects
<1>3. PICK s1 : /\ Selects(s1, E, F, inList)
                /\ SetActiveModem(s, m, l, d) = ShowModem(UpdateLastState(s1, m, l), d)
  <2>1. CASE s.context # None
    BY <1>1, <1>2, <2>1, UpdateLastStateSelects DEF SetActiveModem
  <2>2. CASE s.context = None
    BY <1>1, <2>2 DEF SetActiveModem
  <2>3. QED  BY <2>1, <2>2
<1>4. QED  BY <1>3, UpdateLastStateSelects, ShowModemSelects

LEMMA ActiveContextSelects ==
  ASSUME NEW s, NEW m, NEW E, NEW F, NEW inList, Selects(s, E, F, inList)
  PROVE  Selects(ActiveContextModem(s, m), E, F, inList)
  BY DEF Selects, ActiveContextModem

\* A modem that was not made yet is fed nothing.
LEMMA MoreSelects ==
  ASSUME NEW s, NEW E, NEW F, NEW inList, Selects(s, E, F, inList),
         NEW E2, NEW F2, NEW inList2, E \subseteq E2, F \subseteq F2, inList2 \cap F \subseteq inList
  PROVE  Selects(s, E2, F2, inList2)
  BY DEF Selects

LEMMA DeselectSelects ==
  ASSUME NEW s, NEW E, NEW F, NEW inList, NEW deleted, Selects(s, E, F, inList)
  PROVE  Selects(Deselect(s, deleted), E \ deleted, F, inList \ deleted)
  BY DEF Selects, Deselect, None

LEMMA HoverSelects ==
  ASSUME NEW d \in Known \cup {None}, Known \subseteq Made, Selects(selection, Known, Made, Listed)
  PROVE  Selects(Hover(d), Known, Made, Listed)
  BY ShowModemSelects DEF Hover, SetActiveTemporarily

\* Appending lists one more, and removing one leaves the others.
LEMMA AppendLists ==
  ASSUME NEW S, NEW s \in Seq(S), NEW d
  PROVE  ToSet(Append(s, d)) = ToSet(s) \cup {d}
<1>1. /\ DOMAIN Append(s, d) = 1 .. Len(s) + 1 /\ DOMAIN s = 1 .. Len(s) /\ Len(s) \in Nat
      /\ \A i \in 1 .. Len(s) : Append(s, d)[i] = s[i]
      /\ Append(s, d)[Len(s) + 1] = d
  OBVIOUS
<1>2. QED  BY <1>1 DEF ToSet

LEMMA TailLists ==
  ASSUME NEW S, NEW s \in Seq(S), s # << >>
  PROVE  /\ Head(s) \in ToSet(s) /\ ToSet(Tail(s)) \subseteq ToSet(s)
         /\ Len(s) # 1 => Tail(s) # << >>
<1>1. /\ DOMAIN s = 1 .. Len(s) /\ Len(s) \in Nat \ {0} /\ Head(s) = s[1]
      /\ Tail(s) \in Seq(S) /\ DOMAIN Tail(s) = 1 .. Len(s) - 1
      /\ \A i \in 1 .. Len(s) - 1 : Tail(s)[i] = s[i + 1]
  BY HeadTailProperties
<1>2. Head(s) \in ToSet(s)
  BY <1>1 DEF ToSet
<1>3. ToSet(Tail(s)) \subseteq ToSet(s)
  BY <1>1 DEF ToSet
<1>4. Len(s) # 1 => Tail(s) # << >>
  BY <1>1
<1>5. QED  BY <1>2, <1>3, <1>4

LEMMA ListedAreMade ==
  ASSUME ListGrows
  PROVE  Listed \subseteq Made
  BY DEF ListGrows, Listed, ToSet

LEMMA CenterIsBounded ==
  ASSUME NEW freq \in Int
  PROVE  AtLeastHalfRate(freq) \in Int /\ AtLeastHalfRate(freq) >= HalfRate
  BY TuningAssumption DEF AtLeastHalfRate

\* What the invariant says of the modems that are selected.
LEMMA SelectedAreKnown ==
  ASSUME TuningInv
  PROVE  /\ Listed \subseteq Known /\ Known \subseteq Made /\ Made \subseteq Modems
         /\ None \notin Modems /\ modemsMade \in Nat
         /\ {selection.current, selection.context, selection.visual} \subseteq Known \cup {None}
         /\ Selects(Now, Known, Made, Listed)
         /\ {Now.current, Now.context} \subseteq Known \cup {None}
         /\ \A isNew \in BOOLEAN : Selects(AfterRelease(isNew), Known, Made, Listed)
         /\ Selects(AfterUpdate, Known, Made, Listed)
<1>1. Listed \subseteq Made
  BY ListedAreMade DEF TuningInv
<1>2. /\ Listed \subseteq Known /\ Known \subseteq Made /\ Made \subseteq Modems
      /\ None \notin Modems /\ modemsMade \in Nat
  BY <1>1, TuningAssumption DEF TuningInv, ModemsAreKnown, TuningTypes, Known, Made, Modems, None
<1>3. Selects(selection, Known, Made, Listed)
  BY DEF TuningInv
<1>4. Selects(Now, Known, Made, Listed)
  BY <1>3, ActiveContextSelects DEF Now
<1>5. /\ {selection.current, selection.context, selection.visual} \subseteq Known \cup {None}
      /\ {Now.current, Now.context} \subseteq Known \cup {None}
  BY <1>3, <1>4 DEF Selects
<1>6. Selects(AfterUpdate, Known, Made, Listed)
  BY <1>3, UpdateLastStateSelects DEF AfterUpdate
<1>7. \A isNew \in BOOLEAN : Selects(AfterRelease(isNew), Known, Made, Listed)
  BY <1>6, ActiveContextSelects DEF AfterRelease
<1>8. QED  BY <1>2, <1>4, <1>5, <1>6, <1>7

\* A step that leaves the list of modems alone keeps the invariant if it selects what is known.
LEMMA SelectingKeeps ==
  ASSUME TuningInv, UNCHANGED <<demods, ghosts, modemsMade>>,
         modem' \in [Modems -> ModemSettings],
         center' \in Int, center' >= HalfRate,
         handler' \in [call : Calls, demod : Made \cup {None}],
         handler'.call \in {"offset", "select", "delete", "activate"} => handler'.demod \in Known,
         solo' \in Modems \cup {None},
         post' \in [step : {"idle", "lock", "range", "adopt"}, list : Seq(Made), center : Int],
         ToSet(post'.list) \subseteq Known,
         post'.step # "idle" => post'.list # << >>,
         Selects(selection', Known, Made, Listed)
  PROVE  TuningInv'
<1>1. Listed' = Listed /\ Known' = Known /\ Made' = Made
  BY DEF Listed, Known, Made
<1>2. TuningTypes'
  BY <1>1 DEF TuningInv, TuningTypes
<1>3. ListGrows'
  BY <1>1 DEF TuningInv, ListGrows
<1>4. ModemsAreKnown'
  BY <1>1 DEF TuningInv, ModemsAreKnown, BeforePost
<1>5. QED  BY <1>1, <1>2, <1>3, <1>4 DEF TuningInv

\* In most steps of the GUI little changes.
LEMMA StaysTyped ==
  ASSUME TuningInv
  PROVE  /\ modem \in [Modems -> ModemSettings]
         /\ center \in Int /\ center >= HalfRate
         /\ handler \in [call : Calls, demod : Made \cup {None}]
         /\ handler.call \in {"offset", "select", "delete", "activate"} => handler.demod \in Known
         /\ solo \in Modems \cup {None}
         /\ post \in [step : {"idle", "lock", "range", "adopt"}, list : Seq(Made), center : Int]
         /\ ToSet(post.list) \subseteq Known
         /\ post.step # "idle" => post.list # << >>
         /\ Selects(selection, Known, Made, Listed)
  BY DEF TuningInv, TuningTypes, ModemsAreKnown, BeforePost

\* Fields of one modem are set.
LEMMA ModemIsSet ==
  ASSUME modem \in [Modems -> ModemSettings], NEW d \in Modems, NEW freq \in Int
  PROVE  /\ [modem EXCEPT ![d].freq = freq] \in [Modems -> ModemSettings]
         /\ [modem EXCEPT ![d].ofs = freq] \in [Modems -> ModemSettings]
  BY DEF ModemSettings

LEMMA ActiveIsSet ==
  ASSUME modem \in [Modems -> ModemSettings], NEW d \in Modems, NEW b, b \in BOOLEAN
  PROVE  [modem EXCEPT ![d].active = b] \in [Modems -> ModemSettings]
  BY DEF ModemSettings

LEMMA LockIsSet ==
  ASSUME modem \in [Modems -> ModemSettings], NEW d \in Modems, NEW b, b \in BOOLEAN, NEW ofs \in Int
  PROVE  [modem EXCEPT ![d].deltaLock = b, ![d].ofs = ofs] \in [Modems -> ModemSettings]
  BY DEF ModemSettings

LEMMA RangeIsLeft ==
  ASSUME modem \in [Modems -> ModemSettings], NEW d \in Modems, NEW b, b \in BOOLEAN, NEW c, c \in BOOLEAN
  PROVE  [modem EXCEPT ![d].active = b, ![d].follow = c] \in [Modems -> ModemSettings]
  BY DEF ModemSettings

LEMMA TrackingIsSet ==
  ASSUME modem \in [Modems -> ModemSettings], NEW d \in Modems
  PROVE  [modem EXCEPT ![d].tracking = TRUE] \in [Modems -> ModemSettings]
  BY DEF ModemSettings

LEMMA ModemIsMoved ==
  ASSUME modem \in [Modems -> ModemSettings], NEW d \in Modems, NEW freq \in Int, NEW b, b \in BOOLEAN
  PROVE  [modem EXCEPT ![d].freq = freq, ![d].follow = b, ![d].tracking = b] \in [Modems -> ModemSettings]
  BY DEF ModemSettings

-----------------------------------------------------------------------------
(* Tuning: the events of the GUI.                                          *)

LEMMA PointerKeeps ==
  ASSUME TuningInv, NEW d \in Modems \cup {None}, NEW b \in BOOLEAN,
         NEW state \in {"none", "range", "frequency", "bandwidth"},
         OnMouseMoved(d) \/ HoverTuner(b) \/ OnMouseDown(d, state) \/ OnDragOther
  PROVE  TuningInv'
<1> USE SelectedAreKnown, StaysTyped
<1>1. UNCHANGED <<center, demods, modem, handler, post, solo, ghosts, modemsMade>>
  BY DEF OnMouseMoved, HoverTuner, OnMouseDown, OnDragOther, outsideGUI
<1>2. Selects(selection', Known, Made, Listed)
  <2>1. CASE OnMouseMoved(d)
    BY <2>1, HoverSelects DEF OnMouseMoved
  <2>2. CASE HoverTuner(b)
    BY <2>2, ShowModemSelects DEF HoverTuner, SetActiveTemporarily
  <2>3. CASE OnMouseDown(d, state)
    <3> DEFINE over == UpdateLastState(Hover(d), modem, Listed)
               updated == ActiveContextModem(over, modem)
    <3>1. Selects(over, Known, Made, Listed)
      BY <2>3, HoverSelects, UpdateLastStateSelects DEF OnMouseDown
    <3>2. Selects(updated, Known, Made, Listed)
      BY <3>1, ActiveContextSelects
    <3>3. updated.context \in Known \cup {None}
      BY <3>2 DEF Selects
    <3>4. selection' = over \/ selection' = SetActiveModem(updated, modem, Listed, updated.context)
      BY <2>3 DEF OnMouseDown
    <3> HIDE DEF over, updated
    <3>5. QED  BY <3>1, <3>2, <3>3, <3>4, SetActiveModemSelects
  <2>4. CASE OnDragOther
    BY <2>4 DEF OnDragOther
  <2>5. QED  BY <2>1, <2>2, <2>3, <2>4
<1>3. QED  BY <1>1, <1>2, SelectingKeeps

LEMMA OnDragKeeps ==
  ASSUME TuningInv, NEW freq \in Int, OnDrag(freq)
  PROVE  TuningInv'
<1> USE SelectedAreKnown, StaysTyped
<1>1. Now.context \in Known /\ Now.context \in Modems
  BY DEF OnDrag
<1>2. modem' \in [Modems -> ModemSettings]
  BY <1>1, ModemIsSet DEF OnDrag, Place
<1>3. /\ handler' = [call |-> "offset", demod |-> Now.context] /\ selection' = Now
      /\ UNCHANGED <<center, demods, post, solo, ghosts, modemsMade>>
  BY DEF OnDrag, Place, outsideGUI
<1>4. handler' \in [call : Calls, demod : Made \cup {None}] /\ handler'.demod \in Known
  BY <1>1, <1>3 DEF Calls
<1>5. QED  BY <1>2, <1>3, <1>4, SelectingKeeps

LEMMA FinishPlaceKeeps ==
  ASSUME TuningInv, FinishPlace
  PROVE  TuningInv'
<1> USE SelectedAreKnown, StaysTyped
<1>1. handler.demod \in Known /\ handler.demod \in Modems
  BY DEF FinishPlace
<1>2. modem' \in [Modems -> ModemSettings]
  <2>1. modem[handler.demod].freq - center \in Int
    BY <1>1 DEF ModemSettings
  <2>2. QED  BY <1>1, <2>1, ModemIsSet DEF FinishPlace, SetOffset
<1>3. Selects(selection', Known, Made, Listed)
  BY <1>1, SetActiveModemSelects DEF FinishPlace
<1>4. /\ handler' = Idle
      /\ UNCHANGED <<center, demods, post, solo, ghosts, modemsMade>>
  BY DEF FinishPlace, outsideGUI
<1>5. handler' \in [call : Calls, demod : Made \cup {None}] /\ handler'.call = "none"
  BY <1>4 DEF Idle, Calls
<1>6. QED  BY <1>2, <1>3, <1>4, <1>5, SelectingKeeps

\* Without shift, and with a current modem, a click moves that one.
LEMMA CurrentIsKnown ==
  ASSUME TuningInv, ~MakesModem(FALSE)
  PROVE  AfterRelease(FALSE).current \in Known \cap Modems
<1>1. AfterRelease(FALSE).current = AfterUpdate.current /\ AfterUpdate.current # None
  <2>1. AfterUpdate \in [current : Known \cup {None}, context : Known \cup {None},
                         visual : Known \cup {None}, fed : SUBSET Made]
    BY SelectedAreKnown DEF Selects
  <2>2. QED  BY <2>1 DEF AfterRelease, ActiveContextModem, MakesModem, IsNew
<1>2. AfterUpdate.current \in Known \cup {None}
  BY SelectedAreKnown DEF Selects
<1>3. QED  BY <1>1, <1>2, SelectedAreKnown

LEMMA ClickMovesKeeps ==
  ASSUME TuningInv, NEW freq \in Int, ClickMoves(freq)
  PROVE  TuningInv'
<1> DEFINE s == AfterRelease(FALSE)
<1> USE SelectedAreKnown, StaysTyped
<1>1. s.current \in Known \cap Modems
  BY CurrentIsKnown DEF ClickMoves
<1>2. /\ modem' = [modem EXCEPT ![s.current].freq = freq]
      /\ handler' = [call |-> "select", demod |-> s.current] /\ selection' = s
      /\ UNCHANGED <<center, demods, post, solo, ghosts, modemsMade>>
  BY DEF ClickMoves, Place, outsideGUI
<1>3. Selects(s, Known, Made, Listed)
  OBVIOUS
<1> HIDE DEF s
<1>4. modem' \in [Modems -> ModemSettings]
  BY <1>1, <1>2, ModemIsSet
<1>5. handler' \in [call : Calls, demod : Made \cup {None}] /\ handler'.demod \in Known
  BY <1>1, <1>2 DEF Calls
<1>6. QED  BY <1>2, <1>3, <1>4, <1>5, SelectingKeeps

LEMMA ReleaseOnModemKeeps ==
  ASSUME TuningInv, NEW clicked \in BOOLEAN, NEW shiftDown \in BOOLEAN,
         ReleaseOnModem(clicked, shiftDown)
  PROVE  TuningInv'
<1> DEFINE s == AfterRelease(IsNew(shiftDown))
           d == IF IsNew(shiftDown) THEN None ELSE s.context
<1> USE SelectedAreKnown, StaysTyped
<1>1. UNCHANGED <<center, demods, handler, post, solo, ghosts, modemsMade>>
  BY DEF ReleaseOnModem, outsideGUI
<1>2. Selects(s, Known, Made, Listed)
  <2>1. IsNew(shiftDown) \in BOOLEAN
    BY DEF IsNew
  <2>2. QED  BY <2>1
<1>3. d \in Known \cup {None}
  BY <1>2 DEF Selects
<1>4. \/ /\ d # None /\ modem' = [modem EXCEPT ![d].tracking = TRUE]
         /\ selection' = UpdateLastState(SetActiveModem(s, modem, Listed, d), modem, Listed)
      \/ UNCHANGED modem /\ selection' = s
  BY DEF ReleaseOnModem
<1> HIDE DEF s, d
<1>5. modem' \in [Modems -> ModemSettings]
  <2>1. CASE UNCHANGED modem
    BY <2>1
  <2>2. CASE d # None /\ modem' = [modem EXCEPT ![d].tracking = TRUE]
    <3>1. d \in Modems
      BY <1>3, <2>2
    <3>2. QED  BY <2>2, <3>1, TrackingIsSet
  <2>3. QED  BY <1>4, <2>1, <2>2
<1>6. Selects(selection', Known, Made, Listed)
  BY <1>2, <1>3, <1>4, SetActiveModemSelects, UpdateLastStateSelects
<1>7. QED  BY <1>1, <1>5, <1>6, SelectingKeeps

LEMMA RangeMovesKeeps ==
  ASSUME TuningInv, NEW freq \in Int, RangeMoves(freq)
  PROVE  TuningInv'
<1> DEFINE s == AfterRelease(FALSE)
<1> USE SelectedAreKnown, StaysTyped
<1>1. s.current \in Known \cap Modems
  BY CurrentIsKnown DEF RangeMoves
<1>2. /\ modem' = [modem EXCEPT ![s.current].freq = freq]
      /\ selection' = UpdateLastState(SetActiveModem(s, modem, Listed, s.current), modem, Listed)
      /\ UNCHANGED <<center, demods, handler, post, solo, ghosts, modemsMade>>
  BY DEF RangeMoves, outsideGUI
<1>3. Selects(s, Known, Made, Listed)
  OBVIOUS
<1> HIDE DEF s
<1>4. modem' \in [Modems -> ModemSettings]
  BY <1>1, <1>2, ModemIsSet
<1>5. Selects(selection', Known, Made, Listed)
  BY <1>1, <1>2, <1>3, SetActiveModemSelects, UpdateLastStateSelects
<1>6. QED  BY <1>2, <1>4, <1>5, SelectingKeeps

LEMMA StepModemKeeps ==
  ASSUME TuningInv, NEW freq \in Int, StepModem(freq)
  PROVE  TuningInv'
<1> USE SelectedAreKnown, StaysTyped
<1>1. selection.current \in Known \cap Modems
  BY DEF StepModem
<1>2. /\ modem' = [modem EXCEPT ![selection.current].freq = freq,
                                ![selection.current].follow = TRUE,
                                ![selection.current].tracking = TRUE]
      /\ handler' = [call |-> "offset", demod |-> selection.current]
      /\ center' = center \/ center' = AtLeastHalfRate(freq)
      /\ UNCHANGED <<demods, selection, post, solo, ghosts, modemsMade>>
  BY DEF StepModem, outsideGUI
<1>3. modem' \in [Modems -> ModemSettings]
  <2>1. PICK b : b = TRUE
    OBVIOUS
  <2>2. modem' = [modem EXCEPT ![selection.current].freq = freq,
                               ![selection.current].follow = b,
                               ![selection.current].tracking = b]
    BY <1>2, <2>1
  <2>3. QED  BY <1>1, <2>1, <2>2, ModemIsMoved
<1>4. handler' \in [call : Calls, demod : Made \cup {None}] /\ handler'.demod \in Known
  BY <1>1, <1>2 DEF Calls
<1>5. center' \in Int /\ center' >= HalfRate
  BY <1>2, CenterIsBounded
<1>6. QED  BY <1>2, <1>3, <1>4, <1>5, SelectingKeeps

LEMMA CenterKeeps ==
  ASSUME TuningInv, NEW freq \in Int, SetCenter(freq) \/ CenterOnModem
  PROVE  TuningInv'
<1> USE SelectedAreKnown, StaysTyped
<1>1. UNCHANGED <<demods, modem, handler, post, solo, ghosts, modemsMade>>
  BY DEF SetCenter, CenterOnModem, outsideGUI
<1>2. center' \in Int /\ center' >= HalfRate
  <2>1. CASE SetCenter(freq)
    BY <2>1, CenterIsBounded DEF SetCenter
  <2>2. CASE CenterOnModem
    <3>1. modem[Now.context].freq \in Int
      BY <2>2 DEF CenterOnModem, ModemSettings
    <3>2. QED  BY <2>2, <3>1, CenterIsBounded DEF CenterOnModem
  <2>3. QED  BY <2>1, <2>2
<1>3. Selects(selection', Known, Made, Listed)
  BY DEF SetCenter, CenterOnModem
<1>4. QED  BY <1>1, <1>2, <1>3, SelectingKeeps

LEMMA NudgeKeeps ==
  ASSUME TuningInv, NEW freq \in Int, Nudge(freq)
  PROVE  TuningInv'
<1> USE SelectedAreKnown, StaysTyped
<1>1. selection.current \in Modems
  BY DEF Nudge
<1>2. modem' \in [Modems -> ModemSettings]
  BY <1>1, ModemIsSet DEF Nudge
<1>3. center' \in Int /\ center' >= HalfRate
  <2>1. center + (2 * (freq - modem[selection.current].freq)) \in Int
    BY <1>1 DEF ModemSettings
  <2>2. \/ center' = center
        \/ center' = AtLeastHalfRate(center + (2 * (freq - modem[selection.current].freq)))
    BY DEF Nudge
  <2>3. QED  BY <2>1, <2>2, CenterIsBounded
<1>4. UNCHANGED <<demods, selection, handler, post, solo, ghosts, modemsMade>>
  BY DEF Nudge, outsideGUI
<1>5. QED  BY <1>2, <1>3, <1>4, SelectingKeeps

LEMMA ToggleDeltaLockKeeps ==
  ASSUME TuningInv, ToggleDeltaLock
  PROVE  TuningInv'
<1> USE SelectedAreKnown, StaysTyped
<1>1. UNCHANGED <<center, demods, handler, post, solo, ghosts, modemsMade>> /\ selection' = Now
  BY DEF ToggleDeltaLock, outsideGUI
<1>2. PICK d \in Modems : modem' = [modem EXCEPT ![d].deltaLock = ~@,
                 ![d].ofs = IF modem[d].deltaLock THEN @ ELSE modem[d].freq - center]
  BY DEF ToggleDeltaLock
<1>3. modem[d].ofs \in Int /\ modem[d].freq - center \in Int
  BY <1>2 DEF ModemSettings
<1>4. PICK ofs \in Int : modem' = [modem EXCEPT ![d].deltaLock = ~@, ![d].ofs = ofs]
  BY <1>2, <1>3
<1>5. PICK b : b \in BOOLEAN /\ modem' = [modem EXCEPT ![d].deltaLock = b, ![d].ofs = ofs]
  BY <1>2, <1>4 DEF ModemSettings
<1>6. modem' \in [Modems -> ModemSettings]
  <2>1. modem \in [Modems -> ModemSettings]
    OBVIOUS
  <2>2. [modem EXCEPT ![d].deltaLock = b, ![d].ofs = ofs] \in [Modems -> ModemSettings]
    BY <1>2, <1>4, <1>5, <2>1, LockIsSet
  <2>3. QED  BY <1>5, <2>2
<1>7. QED  BY <1>1, <1>6, SelectingKeeps

LEMMA SelectNextKeeps ==
  ASSUME TuningInv, NEW backwards \in BOOLEAN, SelectNext(backwards)
  PROVE  TuningInv'
<1> USE SelectedAreKnown, StaysTyped
<1>1. /\ \E d \in Listed : selection' =
             SetActiveModem(SetActiveTemporarily(selection, None), modem, Listed, d)
      /\ UNCHANGED <<center, demods, modem, handler, post, solo, ghosts, modemsMade>>
  BY DEF SelectNext, outsideGUI
<1>2. Selects(selection', Known, Made, Listed)
  BY <1>1, ShowModemSelects, SetActiveModemSelects DEF SetActiveTemporarily
<1>3. QED  BY <1>1, <1>2, SelectingKeeps

LEMMA RemoveDemodulatorKeeps ==
  ASSUME TuningInv, RemoveDemodulator
  PROVE  TuningInv'
<1> USE SelectedAreKnown, StaysTyped
<1>1. Now.context \in Known /\ Now.context \in Modems
  BY DEF RemoveDemodulator
<1>2. PICK b : b = FALSE
  OBVIOUS
<1>3. /\ modem' = [modem EXCEPT ![Now.context].active = b] /\ selection' = Now
      /\ handler' = [call |-> "delete", demod |-> Now.context]
      /\ UNCHANGED <<center, demods, post, solo, ghosts, modemsMade>>
  BY <1>2 DEF RemoveDemodulator, outsideGUI
<1>4. modem' \in [Modems -> ModemSettings]
  BY <1>1, <1>2, <1>3, ActiveIsSet
<1>5. handler' \in [call : Calls, demod : Made \cup {None}] /\ handler'.demod \in Known
  BY <1>1, <1>3 DEF Calls
<1>6. QED  BY <1>3, <1>4, <1>5, SelectingKeeps

LEMMA ActivateLoadedKeeps ==
  ASSUME TuningInv, ActivateLoaded
  PROVE  TuningInv'
<1> USE SelectedAreKnown, StaysTyped
<1>1. handler.demod \in Known /\ handler.demod \in Modems
  BY DEF ActivateLoaded
<1>2. PICK b : b = TRUE
  OBVIOUS
<1>3. /\ modem' = [modem EXCEPT ![handler.demod].active = b]
      /\ handler' = [handler EXCEPT !.call = "load"]
      /\ UNCHANGED <<center, demods, selection, post, solo, ghosts, modemsMade>>
  BY <1>2 DEF ActivateLoaded, outsideGUI
<1>4. modem' \in [Modems -> ModemSettings]
  BY <1>1, <1>2, <1>3, ActiveIsSet
<1>5. handler' \in [call : Calls, demod : Made \cup {None}] /\ handler'.demod \in Known
  BY <1>1, <1>3 DEF Calls
<1>6. QED  BY <1>3, <1>4, <1>5, SelectingKeeps

LEMMA FinishLoadKeeps ==
  ASSUME TuningInv, NEW freq \in Int, NEW d \in Modems \cup {None}, FinishLoad(freq, d)
  PROVE  TuningInv'
<1> USE SelectedAreKnown, StaysTyped
<1>1. UNCHANGED <<demods, modem, post, solo, ghosts, modemsMade>> /\ handler' = Idle
  BY DEF FinishLoad, outsideGUI
<1>2. handler' \in [call : Calls, demod : Made \cup {None}] /\ handler'.call = "none"
  BY <1>1 DEF Idle, Calls
<1>3. center' \in Int /\ center' >= HalfRate
  BY CenterIsBounded DEF FinishLoad
<1>4. Selects(selection', Known, Made, Listed)
  BY SetActiveModemSelects DEF FinishLoad
<1>5. QED  BY <1>1, <1>2, <1>3, <1>4, SelectingKeeps

-----------------------------------------------------------------------------
(* Tuning: the list of modems grows and shrinks.                           *)

\* A new modem has a number that none had.
LEMMA NewThreadLists ==
  ASSUME TuningInv, UNCHANGED <<ghosts, post>>,
         NEW freq \in Int, NEW b \in BOOLEAN, NEW ofs \in Int, NewThread(freq, b, ofs)
  PROVE  /\ modem' \in [Modems -> ModemSettings] /\ modemsMade' \in 0 .. MaxModems
         /\ modemsMade' = modemsMade + 1
         /\ Made' = Made \cup {modemsMade'} /\ modemsMade' \notin Made
         /\ Listed' = Listed \cup {modemsMade'} /\ Known' = Known \cup {modemsMade'}
         /\ ListGrows' /\ ghosts' \subseteq Made' /\ BeforePost' \subseteq Known'
         /\ post' \in [step : {"idle", "lock", "range", "adopt"}, list : Seq(Made'), center : Int]
         /\ post'.step # "idle" => post'.list # << >>
<1>1. modemsMade \in Nat /\ modemsMade' = modemsMade + 1 /\ modemsMade' \in 1 .. MaxModems
  BY TuningAssumption DEF NewThread, TuningInv, TuningTypes
<1>2. Made' = Made \cup {modemsMade'} /\ modemsMade' \notin Made
  BY <1>1 DEF Made
<1>3. demods \in Seq(Made) /\ demods' = Append(demods, modemsMade')
  BY DEF NewThread, TuningInv, ListGrows
<1>4. Listed' = Listed \cup {modemsMade'} /\ Known' = Known \cup {modemsMade'}
  BY <1>3, AppendLists DEF Listed, Known
<1>5. ListGrows'
  <2>1. demods' \in Seq(Made')
    BY <1>2, <1>3
  <2>2. \A i \in 1 .. Len(demods) : demods'[i] = demods[i] /\ demods[i] \in Made
    BY <1>3
  <2>3. Len(demods') = Len(demods) + 1 /\ demods'[Len(demods) + 1] = modemsMade'
    BY <1>3
  <2>4. ASSUME NEW i \in 1 .. Len(demods'), NEW j \in 1 .. Len(demods'), i < j
        PROVE  demods'[i] < demods'[j]
    <3>1. Len(demods) \in Nat
      BY <1>3
    <3>2. CASE j = Len(demods) + 1
      BY <1>1, <2>2, <2>3, <2>4, <3>1, <3>2 DEF Made
    <3>3. CASE j # Len(demods) + 1
      BY <2>2, <2>3, <2>4, <3>1, <3>3 DEF TuningInv, ListGrows
    <3>4. QED  BY <3>2, <3>3
  <2>5. QED  BY <2>1, <2>4 DEF ListGrows
<1>6. ghosts' \subseteq Made' /\ BeforePost' \subseteq Known'
  BY <1>2, <1>4 DEF TuningInv, ModemsAreKnown, BeforePost
<1>7. /\ post' \in [step : {"idle", "lock", "range", "adopt"}, list : Seq(Made'), center : Int]
      /\ post'.step # "idle" => post'.list # << >>
  <2>1. Seq(Made) \subseteq Seq(Made')
    BY <1>2, SeqMonotonic
  <2>2. QED  BY <2>1 DEF TuningInv, TuningTypes, ModemsAreKnown
<1>8. modem' \in [Modems -> ModemSettings]
  <2>1. modemsMade' \in Modems
    BY <1>1 DEF Modems
  <2>2. PICK e \in Int : e = IF b THEN ofs ELSE 0
    OBVIOUS
  <2>3. modem' =
           [modem EXCEPT ![modemsMade'] = [NewModem EXCEPT !.freq = freq, !.deltaLock = b, !.ofs = e]]
    BY <2>2 DEF NewThread
  <2>4. [NewModem EXCEPT !.freq = freq, !.deltaLock = b, !.ofs = e] \in ModemSettings
    BY DEF NewModem, ModemSettings
  <2>5. QED  BY <2>1, <2>3, <2>4 DEF TuningInv, TuningTypes
<1>9. QED  BY <1>1, <1>2, <1>4, <1>5, <1>6, <1>7, <1>8

\* The invariant once a modem was made and something known is selected.
LEMMA MakingKeeps ==
  ASSUME TuningInv, UNCHANGED <<center, ghosts, post, solo>>,
         NEW freq \in Int, NEW b \in BOOLEAN, NEW ofs \in Int, NewThread(freq, b, ofs),
         handler' \in [call : Calls, demod : Made' \cup {None}],
         handler'.call \in {"offset", "select", "delete", "activate"} => handler'.demod \in Known',
         Selects(selection', Known', Made', Listed')
  PROVE  TuningInv'
<1>1. TuningTypes'
  BY NewThreadLists DEF TuningInv, TuningTypes
<1>2. ModemsAreKnown'
  BY NewThreadLists DEF ModemsAreKnown
<1>3. QED  BY <1>1, <1>2, NewThreadLists DEF TuningInv

LEMMA CreatesKeeps ==
  ASSUME TuningInv, NEW freq \in Int, NEW shiftDown \in BOOLEAN, NEW lock \in BOOLEAN,
         ClickCreates(freq, shiftDown, lock) \/ RangeCreates(freq, shiftDown, lock)
  PROVE  TuningInv'
<1> DEFINE s == AfterRelease(IsNew(shiftDown))
<1>1. /\ UNCHANGED <<center, ghosts, post, solo>>
      /\ center - freq \in Int /\ NewThread(freq, lock, center - freq)
  BY StaysTyped DEF ClickCreates, RangeCreates, outsideGUI
<1>2. /\ Made' = Made \cup {modemsMade'} /\ Listed' = Listed \cup {modemsMade'}
      /\ Known' = Known \cup {modemsMade'} /\ modemsMade' \notin Made
  BY <1>1, NewThreadLists
<1>3. Selects(s, Known', Made', Listed')
  <2>1. Selects(s, Known, Made, Listed)
    BY SelectedAreKnown DEF IsNew
  <2>2. Listed' \cap Made \subseteq Listed
    BY <1>2
  <2> HIDE DEF s
  <2>3. QED  BY <1>2, <2>1, <2>2, MoreSelects
<1>4. /\ handler' \in [call : Calls, demod : Made' \cup {None}]
      /\ handler'.call \in {"offset", "select", "delete", "activate"} => handler'.demod \in Known'
  <2>1. CASE ClickCreates(freq, shiftDown, lock)
    BY <1>2, <2>1 DEF ClickCreates, Calls
  <2>2. CASE RangeCreates(freq, shiftDown, lock)
    BY <1>2, <2>2, StaysTyped DEF RangeCreates, Calls
  <2>3. QED  BY <2>1, <2>2
<1>5. Selects(selection', Known', Made', Listed')
  <2>1. CASE ClickCreates(freq, shiftDown, lock)
    BY <1>3, <2>1 DEF ClickCreates
  <2>2. CASE RangeCreates(freq, shiftDown, lock)
    <3>1. selection' = UpdateLastState(SetActiveModem(s, modem', ToSet(demods'), modemsMade'),
                                       modem', ToSet(demods'))
      BY <2>2 DEF RangeCreates
    <3>2. Known' \subseteq Made' /\ modemsMade' \in Known'
      BY <1>2, SelectedAreKnown
    <3> HIDE DEF s
    <3>3. Selects(SetActiveModem(s, modem', ToSet(demods'), modemsMade'), Known', Made', Listed')
      BY <1>3, <3>2, SetActiveModemSelects
    <3>4. QED  BY <3>1, <3>3, UpdateLastStateSelects
  <2>3. QED  BY <2>1, <2>2
<1>6. QED  BY <1>1, <1>4, <1>5, MakingKeeps

LEMMA LoadInstanceKeeps ==
  ASSUME TuningInv, NEW freq \in Int, NEW lock \in BOOLEAN, LoadInstance(freq, lock, 0)
  PROVE  TuningInv'
<1>1. UNCHANGED <<center, selection, ghosts, post, solo>> /\ NewThread(freq, lock, 0)
  BY DEF LoadInstance, outsideGUI
<1>2. /\ Made' = Made \cup {modemsMade'} /\ Listed' = Listed \cup {modemsMade'}
      /\ Known' = Known \cup {modemsMade'} /\ modemsMade' \notin Made
  BY <1>1, NewThreadLists
<1>3. Selects(selection', Known', Made', Listed')
  <2>1. Listed' \cap Made \subseteq Listed
    BY <1>2
  <2>2. QED  BY <1>1, <1>2, <2>1, StaysTyped, MoreSelects
<1>4. handler' \in [call : Calls, demod : Made' \cup {None}] /\ handler'.demod \in Known'
  BY <1>2 DEF LoadInstance, Calls
<1>5. QED  BY <1>1, <1>3, <1>4, MakingKeeps

\* What is erased from the list is listed no more, as no modem is listed twice.
LEMMA EraseLists ==
  ASSUME TuningInv, NEW d \in Listed
  PROVE  LET rest == RemoveAt(demods, PlaceOf(d))
         IN /\ ToSet(rest) = Listed \ {d} /\ rest \in Seq(Made)
            /\ \A i, j \in 1 .. Len(rest) : i < j => rest[i] < rest[j]
<1> DEFINE p == PlaceOf(d)
           n == Len(demods)
           rest == RemoveAt(demods, p)
<1>1. /\ demods \in Seq(Made) /\ DOMAIN demods = 1 .. n /\ n \in Nat
      /\ \A i \in 1 .. n : demods[i] \in Nat /\ demods[i] \in Made
      /\ \A i, j \in 1 .. n : i < j => demods[i] < demods[j]
  <2>1. demods \in Seq(Made) /\ \A i, j \in 1 .. n : i < j => demods[i] < demods[j]
    BY DEF TuningInv, ListGrows
  <2>2. DOMAIN demods = 1 .. n /\ n \in Nat /\ \A i \in 1 .. n : demods[i] \in Made
    BY <2>1
  <2>3. Made \subseteq Nat
    BY SelectedAreKnown DEF Made
  <2>4. QED  BY <2>1, <2>2, <2>3
<1>2. p \in 1 .. n /\ demods[p] = d
  BY <1>1 DEF PlaceOf, Listed, ToSet
<1> HIDE DEF p, n
<1>3. /\ rest \in Seq(Made) /\ Len(rest) = n - 1
      /\ \A i \in 1 .. n - 1 : rest[i] = IF i < p THEN demods[i] ELSE demods[i + 1]
  <2>1. /\ SubSeq(demods, 1, p - 1) \in Seq(Made) /\ Len(SubSeq(demods, 1, p - 1)) = p - 1
        /\ \A i \in 1 .. p - 1 : SubSeq(demods, 1, p - 1)[i] = demods[i]
    BY <1>1, <1>2
  <2>2. /\ SubSeq(demods, p + 1, n) \in Seq(Made) /\ Len(SubSeq(demods, p + 1, n)) = n - p
        /\ \A i \in 1 .. n - p : SubSeq(demods, p + 1, n)[i] = demods[p + i]
    BY <1>1, <1>2
  <2>3. rest = SubSeq(demods, 1, p - 1) \o SubSeq(demods, p + 1, n)
    BY DEF RemoveAt, n
  <2> HIDE DEF rest
  <2>4. /\ rest \in Seq(Made) /\ Len(rest) = (p - 1) + (n - p)
        /\ \A i \in 1 .. (p - 1) + (n - p) :
              rest[i] = IF i =< p - 1 THEN SubSeq(demods, 1, p - 1)[i]
                        ELSE SubSeq(demods, p + 1, n)[i - (p - 1)]
    BY <2>1, <2>2, <2>3, ConcatProperties
  <2>5. ASSUME NEW i \in 1 .. n - 1
        PROVE  rest[i] = IF i < p THEN demods[i] ELSE demods[i + 1]
    <3>1. CASE i < p
      BY <1>1, <1>2, <2>1, <2>4, <3>1
    <3>2. CASE ~(i < p)
      <4>1. rest[i] = SubSeq(demods, p + 1, n)[i - (p - 1)] /\ i - (p - 1) \in 1 .. n - p
        <5>1. i \in 1 .. (p - 1) + (n - p) /\ ~(i =< p - 1) /\ i - (p - 1) \in 1 .. n - p
          BY <1>1, <1>2, <3>2
        <5>2. QED  BY <2>4, <5>1
      <4>2. SubSeq(demods, p + 1, n)[i - (p - 1)] = demods[p + (i - (p - 1))]
        BY <2>2, <4>1
      <4>3. p + (i - (p - 1)) = i + 1
        BY <1>2
      <4>4. QED  BY <3>2, <4>1, <4>2, <4>3
    <3>3. QED  BY <3>1, <3>2
  <2>6. Len(rest) = n - 1
    BY <1>1, <1>2, <2>4
  <2>7. QED  BY <2>4, <2>5, <2>6
<1> HIDE DEF rest
<1>4. \A i, j \in 1 .. Len(rest) : i < j => rest[i] < rest[j]
  <2>1. SUFFICES ASSUME NEW i \in 1 .. n - 1, NEW j \in 1 .. n - 1, i < j
                 PROVE  rest[i] < rest[j]
    BY <1>3
  <2>2. PICK k \in 1 .. n : k = IF i < p THEN i ELSE i + 1
    BY <1>1
  <2>3. PICK l \in 1 .. n : l = IF j < p THEN j ELSE j + 1
    BY <1>1
  <2>4. rest[i] = demods[k] /\ rest[j] = demods[l]
    BY <1>3, <2>2, <2>3
  <2>5. k < l
    BY <1>2, <2>1, <2>2, <2>3
  <2>6. QED  BY <1>1, <2>4, <2>5
<1>5. ToSet(rest) = Listed \ {d}
  <2>1. DOMAIN rest = 1 .. n - 1
    BY <1>3
  <2>2. ASSUME NEW i \in 1 .. n - 1
        PROVE  rest[i] \in Listed \ {d}
    <3>1. PICK k \in 1 .. n : k = IF i < p THEN i ELSE i + 1
      BY <1>1
    <3>2. rest[i] = demods[k] /\ (k < p \/ p < k)
      BY <1>2, <1>3, <3>1
    <3>3. demods[k] # d
      BY <1>1, <1>2, <3>2
    <3>4. QED  BY <1>1, <3>2, <3>3 DEF Listed, ToSet
  <2>3. ASSUME NEW x \in Listed \ {d}
        PROVE  \E i \in 1 .. n - 1 : rest[i] = x
    <3>1. PICK k \in 1 .. n : demods[k] = x
      BY <1>1 DEF Listed, ToSet
    <3>2. CASE k < p
      BY <1>1, <1>2, <1>3, <3>1, <3>2
    <3>3. CASE k > p
      <4>1. k - 1 \in 1 .. n - 1 /\ ~(k - 1 < p) /\ (k - 1) + 1 = k
        BY <1>1, <1>2, <3>1, <3>3
      <4>2. rest[k - 1] = demods[k]
        BY <1>3, <4>1
      <4>3. QED  BY <3>1, <4>1, <4>2
    <3>4. k # p
      BY <1>2, <3>1
    <3>5. QED  BY <1>2, <3>1, <3>2, <3>3, <3>4
  <2>4. QED  BY <2>1, <2>2, <2>3 DEF ToSet
<1>6. QED  BY <1>3, <1>4, <1>5 DEF rest, p

LEMMA FinishDeleteKeeps ==
  ASSUME TuningInv, FinishDelete
  PROVE  TuningInv'
<1> DEFINE d == handler.demod
<1>1. /\ selection' = Deselect(selection, {d}) /\ ghosts' = ghosts \cup ({d} \cap BeforePost)
      /\ handler' = Idle /\ UNCHANGED <<center, post, solo, modemsMade>>
      /\ modem' = [modem EXCEPT ![d].active = FALSE] /\ d \in Known
      /\ demods' = IF d \in Listed THEN RemoveAt(demods, PlaceOf(d)) ELSE demods
  BY StaysTyped DEF FinishDelete, outsideGUI
<1> HIDE DEF d
<1>2. Listed' = Listed \ {d} /\ ListGrows'
  <2>1. Made' = Made
    BY <1>1 DEF Made
  <2>2. CASE d \in Listed
    BY <1>1, <2>1, <2>2, EraseLists DEF Listed, ListGrows
  <2>3. CASE d \notin Listed
    BY <1>1, <2>1, <2>3 DEF Listed, ListGrows, TuningInv
  <2>4. QED  BY <2>2, <2>3
<1>3. Known' = Listed' \cup ghosts' /\ Known \ {d} \subseteq Known' /\ BeforePost' = BeforePost
      /\ BeforePost \subseteq Known' /\ ghosts' \subseteq Made' /\ Made' = Made
  <2>1. BeforePost \subseteq Known /\ ghosts \subseteq Made /\ d \in Made
    BY <1>1, SelectedAreKnown DEF TuningInv, ModemsAreKnown
  <2>2. QED  BY <1>1, <1>2, <2>1 DEF Known, BeforePost, Made
<1>4. Selects(selection', Known', Made', Listed')
  <2>1. Selects(selection', Known \ {d}, Made, Listed \ {d})
    BY <1>1, StaysTyped, DeselectSelects
  <2>2. QED  BY <1>2, <1>3, <2>1, MoreSelects
<1>5. modem' \in [Modems -> ModemSettings]
  <2>1. PICK b : b = FALSE
    OBVIOUS
  <2>2. QED  BY <1>1, <2>1, SelectedAreKnown, StaysTyped, ActiveIsSet
<1>6. handler' \in [call : Calls, demod : Made' \cup {None}] /\ handler'.call = "none"
  BY <1>1 DEF Idle, Calls
<1>7. TuningTypes'
  BY <1>1, <1>3, <1>5, <1>6 DEF TuningInv, TuningTypes
<1>8. ModemsAreKnown'
  BY <1>1, <1>3, <1>6 DEF TuningInv, ModemsAreKnown
<1>9. QED  BY <1>2, <1>4, <1>7, <1>8 DEF TuningInv

LEMMA TerminateAllKeeps ==
  ASSUME TuningInv, NEW loads \in BOOLEAN, TerminateAll(loads)
  PROVE  TuningInv'
<1>1. /\ selection' = Deselect(SetActiveModem(selection, modem, Listed, None), Listed)
      /\ ghosts' = ghosts \cup (Listed \cap BeforePost) /\ demods' = << >>
      /\ handler' = [Idle EXCEPT !.call = "load"] \/ handler' = Idle
      /\ modem' = [d \in Modems |->
                      IF d \in Listed THEN [modem[d] EXCEPT !.active = FALSE] ELSE modem[d]]
      /\ UNCHANGED <<center, post, solo, modemsMade>>
  BY DEF TerminateAll, outsideGUI
<1>2. Listed' = {} /\ ListGrows' /\ Made' = Made
  BY <1>1 DEF Listed, ToSet, ListGrows, Made
<1>3. /\ Known \ Listed \subseteq Known' /\ BeforePost' \subseteq Known' /\ ghosts' \subseteq Made'
      /\ BeforePost' = BeforePost
  <2>1. BeforePost \subseteq Known /\ ghosts \subseteq Made /\ Listed \subseteq Made
    BY SelectedAreKnown DEF TuningInv, ModemsAreKnown
  <2>2. QED  BY <1>1, <1>2, <2>1 DEF Known, BeforePost
<1>4. Selects(selection', Known', Made', Listed')
  <2> DEFINE s == SetActiveModem(selection, modem, Listed, None)
  <2>1. Selects(s, Known, Made, Listed)
    BY SelectedAreKnown, StaysTyped, SetActiveModemSelects
  <2> HIDE DEF s
  <2>2. Selects(Deselect(s, Listed), Known \ Listed, Made, Listed \ Listed)
    BY <2>1, DeselectSelects
  <2>3. QED  BY <1>1, <1>2, <1>3, <2>2, MoreSelects DEF s
<1>5. modem' \in [Modems -> ModemSettings]
  BY <1>1, StaysTyped DEF ModemSettings
<1>6. handler' \in [call : Calls, demod : Made' \cup {None}] /\ handler'.call \in {"none", "load"}
  BY <1>1 DEF Idle, Calls
<1>7. TuningTypes'
  BY <1>1, <1>2, <1>5, <1>6 DEF TuningInv, TuningTypes
<1>8. ModemsAreKnown'
  BY <1>1, <1>3, <1>6 DEF TuningInv, ModemsAreKnown
<1>9. QED  BY <1>2, <1>4, <1>7, <1>8 DEF TuningInv

-----------------------------------------------------------------------------
(* Tuning: SDRPostThread and solo mode.                                    *)

\* The rest of SDRPostThread's copy.
LEMMA NextModemIsKnown ==
  ASSUME TuningInv, post.step # "idle", NEW p, p = NextModem(post)
  PROVE  /\ p \in [step : {"idle", "lock", "range", "adopt"}, list : Seq(Made), center : Int]
         /\ ToSet(p.list) \subseteq Known
         /\ p.step # "idle" => p.list # << >>
         /\ Head(post.list) \in Known /\ Head(post.list) \in Modems
<1>1. post.list \in Seq(Made) /\ post.list # << >> /\ ToSet(post.list) \subseteq Known
  BY StaysTyped
<1>2. /\ Head(post.list) \in ToSet(post.list) /\ ToSet(Tail(post.list)) \subseteq ToSet(post.list)
      /\ Len(post.list) # 1 => Tail(post.list) # << >>
  BY <1>1, TailLists
<1>3. Tail(post.list) \in Seq(Made)
  BY <1>1
<1>4. CASE Len(post.list) = 1
  <2>1. p = NoUpdate /\ << >> \in Seq(Made) /\ ToSet(<< >>) = {}
    BY <1>4 DEF NextModem, ToSet
  <2>2. QED  BY <1>1, <1>2, <2>1, SelectedAreKnown DEF NoUpdate
<1>5. CASE Len(post.list) # 1
  <2>1. p = [post EXCEPT !.step = "lock", !.list = Tail(@)]
    BY <1>5 DEF NextModem
  <2>2. p.list = Tail(post.list)
    BY <2>1, StaysTyped
  <2>3. p \in [step : {"idle", "lock", "range", "adopt"}, list : Seq(Made), center : Int]
    BY <1>3, <2>1, StaysTyped
  <2>4. QED  BY <1>1, <1>2, <1>5, <2>2, <2>3, SelectedAreKnown
<1>6. QED  BY <1>4, <1>5

LEMMA BeginUpdateKeeps ==
  ASSUME TuningInv, BeginUpdate
  PROVE  TuningInv'
<1>1. /\ post' = [step |-> "lock", list |-> demods, center |-> center] /\ demods # << >>
      /\ UNCHANGED <<center, modem, selection, demods, handler, solo, ghosts, modemsMade>>
  BY DEF BeginUpdate, outsidePost
<1>2. demods \in Seq(Made) /\ ToSet(demods) \subseteq Known
  BY SelectedAreKnown DEF TuningInv, ListGrows, Listed
<1>3. /\ post' \in [step : {"idle", "lock", "range", "adopt"}, list : Seq(Made), center : Int]
      /\ ToSet(post'.list) \subseteq Known /\ post'.list # << >>
  BY <1>1, <1>2, StaysTyped
<1>4. QED  BY <1>1, <1>3, StaysTyped, SelectingKeeps

LEMMA FollowCenterKeeps ==
  ASSUME TuningInv, FollowCenter
  PROVE  TuningInv'
<1> DEFINE d == Head(post.list)
           target == post.center + modem[d].ofs
<1>1. /\ post' = [post EXCEPT !.step = "range"] /\ post.step = "lock"
      /\ UNCHANGED <<center, selection, demods, handler, solo, ghosts, modemsMade>>
  BY DEF FollowCenter, outsidePost
<1>2. PICK b : b = FALSE
  OBVIOUS
<1>3. \/ modem' = [modem EXCEPT ![d].freq = target, ![d].follow = b, ![d].tracking = b]
      \/ modem' = modem
  BY <1>2 DEF FollowCenter
<1>4. d \in Modems
  BY <1>1, NextModemIsKnown
<1>5. target \in Int
  BY <1>4, StaysTyped DEF ModemSettings
<1> HIDE DEF d, target
<1>6. modem' \in [Modems -> ModemSettings]
  <2>1. modem \in [Modems -> ModemSettings]
    BY StaysTyped
  <2>2. [modem EXCEPT ![d].freq = target, ![d].follow = b, ![d].tracking = b]
           \in [Modems -> ModemSettings]
    BY <1>2, <1>4, <1>5, <2>1, ModemIsMoved
  <2>3. QED  BY <1>3, <2>1, <2>2
<1>7. /\ post' \in [step : {"idle", "lock", "range", "adopt"}, list : Seq(Made), center : Int]
      /\ post'.list = post.list
  BY <1>1, StaysTyped
<1>8. QED  BY <1>1, <1>6, <1>7, StaysTyped, SelectingKeeps

LEMMA LeaveRangeKeeps ==
  ASSUME TuningInv, NEW c \in Int, LeaveRange(c)
  PROVE  TuningInv'
<1> DEFINE d == Head(post.list)
<1>1. /\ post' = NextModem(post) /\ post.step # "idle"
      /\ UNCHANGED <<selection, demods, handler, solo, ghosts, modemsMade>>
  BY DEF LeaveRange, outsidePost
<1>2. d \in Modems
  BY <1>1, NextModemIsKnown
<1>3. modem[d] \in ModemSettings
  BY <1>2, StaysTyped
<1>4. center' \in Int /\ center' >= HalfRate
  <2>1. center' = AtLeastHalfRate(modem[d].freq) \/ center' = center
    BY DEF LeaveRange
  <2>2. modem[d].freq \in Int
    BY <1>3 DEF ModemSettings
  <2>3. QED  BY <2>1, <2>2, StaysTyped, CenterIsBounded
<1>5. modem' \in [Modems -> ModemSettings]
  <2>1. \E off, follows \in BOOLEAN :
           modem' = [modem EXCEPT ![d].active = @ /\ ~off, ![d].follow = @ /\ ~follows]
    <3> DEFINE off == d = selection.current
                        \/ (modem[d].active /\ ~modem[d].follow /\ ~modem[d].tracking)
               follows == modem[d].follow /\ post.center # modem[d].freq
    <3>1. modem' = [modem EXCEPT ![d].active = @ /\ ~off, ![d].follow = @ /\ ~follows]
      BY DEF LeaveRange
    <3>2. off \in BOOLEAN /\ follows \in BOOLEAN
      BY <1>3 DEF ModemSettings
    <3> HIDE DEF off, follows
    <3>3. QED  BY <3>1, <3>2
  <2>2. PICK off \in BOOLEAN, follows \in BOOLEAN :
           modem' = [modem EXCEPT ![d].active = @ /\ ~off, ![d].follow = @ /\ ~follows]
    BY <2>1
  <2>3. PICK a \in BOOLEAN : a = (modem[d].active /\ ~off)
    OBVIOUS
  <2>4. PICK b \in BOOLEAN : b = (modem[d].follow /\ ~follows)
    OBVIOUS
  <2>5. modem' = [modem EXCEPT ![d].active = modem[d].active /\ ~off,
                               ![d].follow = modem[d].follow /\ ~follows]
    BY <1>2, <1>3, <2>2, StaysTyped DEF ModemSettings
  <2>6. modem' = [modem EXCEPT ![d].active = a, ![d].follow = b]
    BY <2>3, <2>4, <2>5
  <2>7. QED  BY <1>2, <2>3, <2>4, <2>6, StaysTyped, RangeIsLeft
<1>6. QED  BY <1>1, <1>4, <1>5, StaysTyped, NextModemIsKnown, SelectingKeeps

LEMMA EnterRangeKeeps ==
  ASSUME TuningInv, NEW c \in Int, EnterRange(c)
  PROVE  TuningInv'
<1> DEFINE d == Head(post.list)
<1>1. PICK b : b = TRUE
  OBVIOUS
<1>2. /\ modem' = [modem EXCEPT ![d].active = b] /\ post.step = "range"
      /\ UNCHANGED <<center, selection, demods, handler, solo, ghosts, modemsMade>>
  BY <1>1 DEF EnterRange, outsidePost
<1>3. d \in Modems
  BY <1>2, NextModemIsKnown
<1>4. modem' \in [Modems -> ModemSettings]
  BY <1>1, <1>2, <1>3, StaysTyped, ActiveIsSet
<1>5. CASE post' = NextModem(post)
  BY <1>2, <1>4, <1>5, StaysTyped, NextModemIsKnown, SelectingKeeps
<1>6. CASE post' = [post EXCEPT !.step = "adopt"]
  <2>1. /\ post' \in [step : {"idle", "lock", "range", "adopt"}, list : Seq(Made), center : Int]
        /\ post'.list = post.list
    BY <1>6, StaysTyped
  <2>2. QED  BY <1>2, <1>4, <2>1, StaysTyped, SelectingKeeps
<1>7. QED  BY <1>5, <1>6 DEF EnterRange

LEMMA AdoptKeeps ==
  ASSUME TuningInv, Adopt
  PROVE  TuningInv'
<1>1. /\ post' = NextModem(post) /\ post.step # "idle"
      /\ UNCHANGED <<center, modem, demods, handler, solo, ghosts, modemsMade>>
      /\ \/ selection' = selection
         \/ selection' = SetActiveTemporarily(selection, Head(post.list))
  BY DEF Adopt, outsidePost
<1>2. Selects(selection', Known, Made, Listed)
  BY <1>1, StaysTyped, SelectedAreKnown, NextModemIsKnown, ShowModemSelects
     DEF SetActiveTemporarily
<1>3. QED  BY <1>1, <1>2, StaysTyped, NextModemIsKnown, SelectingKeeps

LEMMA SoloKeeps ==
  ASSUME TuningInv, (\E d \in Modems : OpensSolo(d)) \/ SelectsItself
  PROVE  TuningInv'
<1>1. /\ solo' \in Modems \cup {None}
      /\ UNCHANGED <<center, demods, modem, handler, post, ghosts, modemsMade>>
  BY DEF OpensSolo, SelectsItself
<1>2. \/ selection' = SetActiveTemporarily(selection, None) \/ selection' = selection
      \/ solo \in Listed /\ selection' = SetActiveModem(selection, modem, Listed, solo)
  BY DEF OpensSolo, SelectsItself
<1>3. Selects(selection', Known, Made, Listed)
  BY <1>2, StaysTyped, SelectedAreKnown, ShowModemSelects, SetActiveModemSelects
     DEF SetActiveTemporarily
<1>4. QED  BY <1>1, <1>3, StaysTyped, SelectingKeeps

-----------------------------------------------------------------------------
(* Tuning: the theorems.                                                   *)

LEMMA TuningStarts ==
  ASSUME TuningInit
  PROVE  TuningInv
<1>1. /\ demods = << >> /\ Listed = {} /\ ghosts = {} /\ modemsMade = 0 /\ Made = {}
      /\ BeforePost = {} /\ post = NoUpdate /\ post.list = << >> /\ handler = Idle
  BY DEF TuningInit, Listed, BeforePost, ToSet, Made, NoUpdate
<1>2. TuningTypes
  <2>1. modem \in [Modems -> ModemSettings]
    BY DEF TuningInit, NewModem, ModemSettings
  <2>2. post \in [step : {"idle", "lock", "range", "adopt"}, list : Seq(Made), center : Int]
    BY <1>1 DEF NoUpdate
  <2>3. handler \in [call : Calls, demod : Made \cup {None}]
    BY <1>1 DEF Idle, Calls
  <2>4. QED  BY <1>1, <2>1, <2>2, <2>3, TuningAssumption DEF TuningInit, TuningTypes
<1>3. ListGrows
  BY <1>1 DEF ListGrows
<1>4. ModemsAreKnown
  BY <1>1 DEF ModemsAreKnown, Idle, NoUpdate
<1>5. Selects(selection, Known, Made, Listed)
  BY <1>1 DEF TuningInit, Selects
<1>6. QED  BY <1>2, <1>3, <1>4, <1>5 DEF TuningInv

LEMMA MouseEventsKeep ==
  ASSUME TuningInv, MouseEvents
  PROVE  TuningInv'
<1>1. TunedTo \subseteq Int /\ DeltaLocks \subseteq BOOLEAN
  BY TuningAssumption
<1>2. CASE \E d \in Modems \cup {None} : OnMouseMoved(d)
             \/ \E state \in {"none", "range", "frequency", "bandwidth"} : OnMouseDown(d, state)
  BY <1>2, PointerKeeps
<1>3. CASE (\E b \in BOOLEAN : HoverTuner(b)) \/ OnDragOther
  <2>1. None \in Modems \cup {None} /\ "none" \in {"none", "range", "frequency", "bandwidth"}
        /\ TRUE \in BOOLEAN
    OBVIOUS
  <2>2. QED  BY <1>3, <2>1, PointerKeeps
<1>4. CASE \E freq \in TunedTo : OnDrag(freq) \/ ClickMoves(freq) \/ RangeMoves(freq)
  BY <1>1, <1>4, OnDragKeeps, ClickMovesKeeps, RangeMovesKeeps
<1>5. CASE \E freq \in TunedTo, b \in BOOLEAN, lock \in DeltaLocks :
              ClickCreates(freq, b, lock) \/ RangeCreates(freq, b, lock)
  BY <1>1, <1>5, CreatesKeeps
<1>6. CASE (\E b, c \in BOOLEAN : ReleaseOnModem(b, c)) \/ FinishPlace
  BY <1>6, ReleaseOnModemKeeps, FinishPlaceKeeps
<1>7. QED  BY <1>2, <1>3, <1>4, <1>5, <1>6 DEF MouseEvents

LEMMA KeysAndSessionsKeep ==
  ASSUME TuningInv, KeysAndTuner \/ Sessions
  PROVE  TuningInv'
<1>1. TunedTo \subseteq Int /\ DeltaLocks \subseteq BOOLEAN
  BY TuningAssumption
<1>2. CASE \E freq \in TunedTo : StepModem(freq) \/ SetCenter(freq) \/ Nudge(freq)
  BY <1>1, <1>2, StepModemKeeps, CenterKeeps, NudgeKeeps
<1>3. CASE CenterOnModem
  <2>1. 0 \in Int
    OBVIOUS
  <2>2. QED  BY <1>3, <2>1, CenterKeeps
<1>4. CASE \/ ToggleDeltaLock \/ (\E b \in BOOLEAN : SelectNext(b))
           \/ RemoveDemodulator \/ FinishDelete
  BY <1>4, ToggleDeltaLockKeeps, SelectNextKeeps, RemoveDemodulatorKeeps, FinishDeleteKeeps
<1>5. CASE (\E b \in BOOLEAN : TerminateAll(b)) \/ ActivateLoaded
  BY <1>5, TerminateAllKeeps, ActivateLoadedKeeps
<1>6. CASE \E freq \in TunedTo, lock \in DeltaLocks : LoadInstance(freq, lock, 0)
  BY <1>1, <1>6, LoadInstanceKeeps
<1>7. CASE \E freq \in TunedTo, d \in Modems \cup {None} : FinishLoad(freq, d)
  BY <1>1, <1>7, FinishLoadKeeps
<1>8. QED  BY <1>2, <1>3, <1>4, <1>5, <1>6, <1>7 DEF KeysAndTuner, Sessions

LEMMA PostUpdatesKeep ==
  ASSUME TuningInv, PostUpdates
  PROVE  TuningInv'
<1>1. center \in Int /\ post.center \in Int
  BY StaysTyped
<1>2. CASE BeginUpdate \/ FollowCenter \/ Adopt
  BY <1>2, BeginUpdateKeeps, FollowCenterKeeps, AdoptKeeps
<1>3. CASE \E c \in {center, post.center} : LeaveRange(c) \/ EnterRange(c)
  BY <1>1, <1>3, LeaveRangeKeeps, EnterRangeKeeps
<1>4. QED  BY <1>2, <1>3 DEF PostUpdates

LEMMA NothingTuned ==
  ASSUME TuningInv, UNCHANGED tuningVars
  PROVE  TuningInv'
<1>1. UNCHANGED <<center, demods, modem, selection, handler, post, solo, ghosts, modemsMade>>
  BY DEF tuningVars
<1>2. QED  BY <1>1, StaysTyped, SelectingKeeps

\* Whatever is selected, moved, deleted or loaded, in whatever order and between whichever
\* steps of SDRPostThread's update, the modems stay listed in the order they were made, and
\* the GUI's handler, SDRPostThread and the selection refer to modems that are listed or
\* were deleted while SDRPostThread had them in its copy of the list.
THEOREM TuningInvariant == TuningSpec => []TuningInv
<1>1. TuningInit => TuningInv
  BY TuningStarts
<1>2. TuningInv /\ [TuningNext]_tuningVars => TuningInv'
  <2>1. SUFFICES ASSUME TuningInv, TuningNext \/ UNCHANGED tuningVars
                 PROVE  TuningInv'
    OBVIOUS
  <2>2. CASE MouseEvents \/ KeysAndTuner \/ Sessions \/ PostUpdates
    BY <2>1, <2>2, MouseEventsKeep, KeysAndSessionsKeep, PostUpdatesKeep
  <2>3. CASE (\E d \in Modems : OpensSolo(d)) \/ SelectsItself
    BY <2>1, <2>3, SoloKeeps
  <2>4. CASE UNCHANGED tuningVars
    BY <2>1, <2>4, NothingTuned
  <2>5. QED  BY <2>1, <2>2, <2>3, <2>4 DEF TuningNext
<1>3. QED  BY <1>1, <1>2, PTL DEF TuningSpec

\* What is selected is a modem that was made, and the receiver is never tuned below half
\* the sample rate.
THEOREM TuningTypeCorrect == TuningSpec => []TuningTypeOK
<1>1. TuningInv => TuningTypeOK
  <2>1. SUFFICES ASSUME TuningInv PROVE TuningTypeOK
    OBVIOUS
  <2>2. selection.fed \subseteq Modems
    BY <2>1, SelectedAreKnown, StaysTyped DEF Selects
  <2>3. QED  BY <2>1, <2>2, SelectedAreKnown, StaysTyped DEF TuningTypeOK, Known
<1>2. QED  BY <1>1, TuningInvariant, PTL

\* What is selected exists, however many modems are made and deleted and however often
\* SDRPostThread's update is overtaken by the GUI: it is listed, or SDRPostThread had it in
\* its copy when it was deleted; and of the listed modems only the one on show feeds the
\* visual queue.
THEOREM SelectedExist == TuningSpec => []SelectedModemsExist
<1>1. TuningInv => SelectedModemsExist
  BY SelectedAreKnown, StaysTyped DEF SelectedModemsExist, Selects, Known
<1>2. QED  BY <1>1, TuningInvariant, PTL

-----------------------------------------------------------------------------
(* LockOrder: the invariant.                                               *)

\* How often each lock is held.
LockDepths == [Locks -> Nat]
NothingHeld == [l \in Locks |-> 0]
Also(h, l) == [h EXCEPT ![l] = @ + 1]
Held(t) == [l \in Locks |-> IF owner[l] = t THEN depth[l] ELSE 0]

LockSteps == [do : {"lock", "unlock"}, lock : Locks]

\* The order, but for two operations; only the GUI takes the bookmarks' lock, in any order.
Rank(l) ==
    CASE l.lock = "bookmarks" -> 1 [] l.lock = "demods" -> 2 [] l.lock = "device" -> 3
      [] l.lock = "controller" -> 4 [] l.lock \in {"bound", "squelch"} -> 5
GUI == Thread("GUI", 0)
Before(m, l) == IF m = l THEN l.lock # "squelch" ELSE l.lock = "bookmarks" \/ Rank(m) < Rank(l)

\* A change of the rate asks for what comes before the controller, and opening in solo mode
\* for what comes before squelchLockMutex.
Against(t, m, l) ==
    \/ t.thread = "Controller" /\ m = Lock("controller", 0) /\ l.lock \in {"device", "demods"}
    \/ t.thread = "Demodulator" /\ m = Lock("squelch", 0) /\ l.lock = "demods"

\* A thread that holds h may take the lock.
InOrder(t, h, l) ==
    /\ l \in Locks /\ h[l] =< 2
    /\ l.lock = "bookmarks" => t = GUI
    /\ \A m \in Locks : h[m] > 0 => Before(m, l) \/ Against(t, m, l)

StepLeads(t, step, h, k) ==
    \/ step.do = "lock" /\ InOrder(t, h, step.lock) /\ k = Also(h, step.lock)
    \/ step.do = "unlock" /\ step.lock \in Locks /\ h = Also(k, step.lock)

\* The steps keep to the order and lead from what is held to what is.
Leads(t, steps, h, k) ==
    /\ steps \in Seq(LockSteps)
    /\ \E held \in [1 .. Len(steps) + 1 -> LockDepths] :
          /\ held[1] = h /\ held[Len(steps) + 1] = k
          /\ \A i \in 1 .. Len(steps) : StepLeads(t, steps[i], held[i], held[i + 1])

\* Every thread goes on as its operation does, until it holds nothing.
LockInv ==
    /\ LockOrderTypeOK
    /\ DOMAIN program = Threads /\ depth \in LockDepths
    /\ owner[Lock("bookmarks", 0)] \in {GUI, NoOwner}
    /\ \A t \in Threads : Leads(t, program[t], Held(t), NothingHeld)

-----------------------------------------------------------------------------
(* LockOrder: sequences of steps.                                          *)

LEMMA EmptyLeads ==
  ASSUME NEW t, NEW h \in LockDepths
  PROVE  Leads(t, << >>, h, h)
<1> DEFINE held == [i \in 1 .. 1 |-> h]
<1>1. << >> \in Seq(LockSteps) /\ Len(<< >>) = 0
  OBVIOUS
<1>2. held \in [1 .. Len(<< >>) + 1 -> LockDepths] /\ held[1] = h /\ held[Len(<< >>) + 1] = h
  BY <1>1
<1> HIDE DEF held
<1>3. \A i \in 1 .. Len(<< >>) : StepLeads(t, << >>[i], held[i], held[i + 1])
  BY <1>1
<1>4. QED  BY <1>1, <1>2, <1>3 DEF Leads

LEMMA OneLeads ==
  ASSUME NEW t, NEW step \in LockSteps, NEW h \in LockDepths, NEW k \in LockDepths,
         StepLeads(t, step, h, k)
  PROVE  Leads(t, <<step>>, h, k)
<1> DEFINE held == [i \in 1 .. 2 |-> IF i = 1 THEN h ELSE k]
<1>1. <<step>> \in Seq(LockSteps) /\ Len(<<step>>) = 1 /\ <<step>>[1] = step
  OBVIOUS
<1>2. held \in [1 .. Len(<<step>>) + 1 -> LockDepths] /\ held[1] = h /\ held[2] = k
  BY <1>1
<1> HIDE DEF held
<1>3. \A i \in 1 .. Len(<<step>>) : StepLeads(t, <<step>>[i], held[i], held[i + 1])
  BY <1>1, <1>2
<1>4. QED  BY <1>1, <1>2, <1>3 DEF Leads

LEMMA ConcatLeads ==
  ASSUME NEW t, NEW p, NEW q, NEW h, NEW j, NEW k, Leads(t, p, h, j), Leads(t, q, j, k)
  PROVE  Leads(t, p \o q, h, k)
<1> DEFINE n == Len(p)
           r == p \o q
<1>1. p \in Seq(LockSteps) /\ q \in Seq(LockSteps)
  BY DEF Leads
<1>2. PICK a \in [1 .. n + 1 -> LockDepths] :
         /\ a[1] = h /\ a[n + 1] = j
         /\ \A i \in 1 .. n : StepLeads(t, p[i], a[i], a[i + 1])
  BY DEF Leads
<1>3. PICK b \in [1 .. Len(q) + 1 -> LockDepths] :
         /\ b[1] = j /\ b[Len(q) + 1] = k
         /\ \A i \in 1 .. Len(q) : StepLeads(t, q[i], b[i], b[i + 1])
  BY DEF Leads
<1>4. /\ n \in Nat /\ Len(q) \in Nat /\ r \in Seq(LockSteps) /\ Len(r) = n + Len(q)
      /\ \A i \in 1 .. n : r[i] = p[i]
      /\ \A i \in 1 .. Len(q) : r[n + i] = q[i]
  BY <1>1
<1> DEFINE held == [i \in 1 .. n + Len(q) + 1 |-> IF i =< n THEN a[i] ELSE b[i - n]]
<1> HIDE DEF n, r
<1>5. /\ \A i \in 1 .. n + 1 : held[i] = a[i]
      /\ \A i \in 1 .. Len(q) + 1 : held[n + i] = b[i]
  BY <1>2, <1>3, <1>4
<1>6. held \in [1 .. Len(r) + 1 -> LockDepths]
  BY <1>2, <1>3, <1>4
<1> HIDE DEF held
<1>7. held[1] = h /\ held[Len(r) + 1] = k
  <2>1. held[1] = a[1] /\ held[n + (Len(q) + 1)] = b[Len(q) + 1]
    BY <1>4, <1>5
  <2>2. n + (Len(q) + 1) = Len(r) + 1
    BY <1>4
  <2>3. QED  BY <1>2, <1>3, <2>1, <2>2
<1>8. ASSUME NEW i \in 1 .. Len(r)
      PROVE  StepLeads(t, r[i], held[i], held[i + 1])
  <2>1. CASE i \in 1 .. n
    <3>1. held[i] = a[i] /\ held[i + 1] = a[i + 1]
      BY <1>4, <1>5, <2>1
    <3>2. QED  BY <1>2, <1>4, <2>1, <3>1
  <2>2. CASE i \notin 1 .. n
    <3>1. PICK l \in 1 .. Len(q) : i = n + l
      <4>1. i - n \in 1 .. Len(q) /\ i = n + (i - n)
        BY <1>4, <2>2
      <4>2. QED  BY <4>1
    <3>2. held[i] = b[l] /\ r[i] = q[l]
      BY <1>4, <1>5, <3>1
    <3>3. held[i + 1] = b[l + 1]
      <4>1. l + 1 \in 1 .. Len(q) + 1 /\ i + 1 = n + (l + 1)
        BY <1>4, <3>1
      <4>2. QED  BY <1>5, <4>1
    <3>4. QED  BY <1>3, <3>1, <3>2, <3>3
  <2>3. QED  BY <2>1, <2>2
<1>9. Leads(t, r, h, k)
  BY <1>4, <1>6, <1>7, <1>8 DEF Leads
<1>10. QED  BY <1>9 DEF r

LEMMA TailLeads ==
  ASSUME NEW t, NEW p, NEW h, NEW k, Leads(t, p, h, k), p # << >>
  PROVE  /\ Head(p) \in LockSteps
         /\ \E j \in LockDepths : StepLeads(t, Head(p), h, j) /\ Leads(t, Tail(p), j, k)
<1> DEFINE n == Len(p)
           r == Tail(p)
<1>1. p \in Seq(LockSteps)
  BY DEF Leads
<1>2. PICK a \in [1 .. n + 1 -> LockDepths] :
         /\ a[1] = h /\ a[n + 1] = k
         /\ \A i \in 1 .. n : StepLeads(t, p[i], a[i], a[i + 1])
  BY DEF Leads
<1>3. /\ n \in Nat /\ n > 0 /\ Head(p) = p[1] /\ Head(p) \in LockSteps
      /\ r \in Seq(LockSteps) /\ Len(r) = n - 1 /\ \A i \in 1 .. n - 1 : r[i] = p[i + 1]
  BY <1>1
<1> DEFINE held == [i \in 1 .. n |-> a[i + 1]]
<1> HIDE DEF n, r
<1>4. held \in [1 .. Len(r) + 1 -> LockDepths] /\ \A i \in 1 .. n : held[i] = a[i + 1]
  BY <1>2, <1>3
<1> HIDE DEF held
<1>5. ASSUME NEW i \in 1 .. Len(r)
      PROVE  StepLeads(t, r[i], held[i], held[i + 1])
  <2>1. r[i] = p[i + 1] /\ held[i] = a[i + 1] /\ held[i + 1] = a[(i + 1) + 1] /\ i + 1 \in 1 .. n
    BY <1>3, <1>4
  <2>2. QED  BY <1>2, <2>1
<1>6. held[1] = a[2] /\ held[Len(r) + 1] = k
  BY <1>2, <1>3, <1>4
<1>7. Leads(t, r, a[2], k)
  BY <1>3, <1>4, <1>5, <1>6 DEF Leads
<1>8. StepLeads(t, Head(p), h, a[2]) /\ a[2] \in LockDepths
  <2>1. 1 \in 1 .. n /\ 2 \in 1 .. n + 1
    BY <1>3
  <2>2. StepLeads(t, p[1], a[1], a[1 + 1])
    BY <1>2, <2>1
  <2>3. QED  BY <1>2, <1>3, <2>1, <2>2
<1>9. QED  BY <1>3, <1>7, <1>8 DEF r

LEMMA AlsoIsDepths ==
  ASSUME NEW h \in LockDepths, NEW l \in Locks
  PROVE  /\ Also(h, l) \in LockDepths /\ Also(h, l)[l] = h[l] + 1
         /\ \A m \in Locks \ {l} : Also(h, l)[m] = h[m]
  BY DEF LockDepths, Also

LEMMA HoldingLeads ==
  ASSUME NEW t, NEW h \in LockDepths, NEW l, InOrder(t, h, l), NEW p,
         Leads(t, p, Also(h, l), Also(h, l))
  PROVE  Leads(t, Holding(l, p), h, h)
<1>1. l \in Locks /\ Also(h, l) \in LockDepths
  BY AlsoIsDepths DEF InOrder
<1>2. Leads(t, Take(l), h, Also(h, l))
  <2>1. [do |-> "lock", lock |-> l] \in LockSteps
    BY <1>1 DEF LockSteps
  <2>2. StepLeads(t, [do |-> "lock", lock |-> l], h, Also(h, l))
    BY DEF StepLeads
  <2>3. QED  BY <1>1, <2>1, <2>2, OneLeads DEF Take
<1>3. Leads(t, Drop(l), Also(h, l), h)
  <2>1. [do |-> "unlock", lock |-> l] \in LockSteps
    BY <1>1 DEF LockSteps
  <2>2. StepLeads(t, [do |-> "unlock", lock |-> l], Also(h, l), h)
    BY <1>1 DEF StepLeads
  <2>3. QED  BY <1>1, <2>1, <2>2, OneLeads DEF Drop
<1>4. Leads(t, Take(l) \o p, h, Also(h, l))
  BY <1>2, ConcatLeads
<1>5. QED  BY <1>3, <1>4, ConcatLeads DEF Holding

LEMMA VisitLeads ==
  ASSUME NEW t, NEW h \in LockDepths, NEW l, InOrder(t, h, l)
  PROVE  Leads(t, Visit(l), h, h)
<1>1. Also(h, l) \in LockDepths
  BY AlsoIsDepths DEF InOrder
<1>2. QED  BY <1>1, EmptyLeads, HoldingLeads DEF Visit

\* What may be taken when nothing is held, and when one lock more is.
LEMMA FirstInOrder ==
  ASSUME NEW t, NEW l \in Locks, l.lock = "bookmarks" => t = GUI
  PROVE  InOrder(t, NothingHeld, l) /\ NothingHeld \in LockDepths
  BY DEF InOrder, NothingHeld, LockDepths

LEMMA AlsoInOrder ==
  ASSUME NEW t, NEW h \in LockDepths, NEW l, NEW m \in Locks, InOrder(t, h, l),
         Before(m, l) \/ Against(t, m, l), m = l => h[l] =< 1
  PROVE  InOrder(t, Also(h, m), l)
<1>1. l \in Locks /\ h[l] \in Nat
  BY DEF InOrder, LockDepths
<1>2. Also(h, m)[l] =< 2
  BY <1>1, AlsoIsDepths DEF InOrder
<1>3. \A n \in Locks : Also(h, m)[n] > 0 => Before(n, l) \/ Against(t, n, l)
  BY AlsoIsDepths DEF InOrder
<1>4. QED  BY <1>1, <1>2, <1>3 DEF InOrder

-----------------------------------------------------------------------------
(* LockOrder: the operations keep to the order.                            *)

Device == Lock("device", 0)
Controller == Lock("controller", 0)
DemodsBusy == Lock("demods", 0)
SquelchLock == Lock("squelch", 0)
BookmarksBusy == Lock("bookmarks", 0)

LEMMA LocksThereAre ==
  /\ Device \in Locks /\ Controller \in Locks /\ DemodsBusy \in Locks
  /\ SquelchLock \in Locks /\ BookmarksBusy \in Locks
  /\ \A d \in LockDemods : Lock("bound", d) \in Locks /\ Lock("bound", d).lock = "bound"
  /\ Device.lock = "device" /\ Controller.lock = "controller" /\ DemodsBusy.lock = "demods"
  /\ SquelchLock.lock = "squelch" /\ BookmarksBusy.lock = "bookmarks"
  BY DEF Locks, Lock, Device, Controller, DemodsBusy, SquelchLock, BookmarksBusy

LEMMA RanksThereAre ==
  /\ Rank(BookmarksBusy) = 1 /\ Rank(DemodsBusy) = 2 /\ Rank(Device) = 3 /\ Rank(Controller) = 4
  /\ \A d \in LockDemods : Rank(Lock("bound", d)) = 5
  /\ Rank(SquelchLock) = 5
  BY LocksThereAre DEF Rank

\* Which locks are taken while which others are held.
LEMMA OrderThereIs ==
  /\ Before(DemodsBusy, Device) /\ Before(DemodsBusy, Controller) /\ Before(DemodsBusy, DemodsBusy)
  /\ \A d \in LockDemods : Before(DemodsBusy, Lock("bound", d))
  /\ Before(DemodsBusy, BookmarksBusy) /\ Before(BookmarksBusy, DemodsBusy)
  /\ Before(Device, Controller) /\ Before(Controller, Controller)
  /\ Before(DemodsBusy, SquelchLock)
  /\ \A d \in LockDemods : Before(Controller, Lock("bound", d))
  BY LocksThereAre, RanksThereAre DEF Before

\* AudioThread::setActive, with whatever is held already.
LEMMA SetActiveLeads ==
  ASSUME NEW t, NEW d \in LockDemods, NEW state \in BOOLEAN, NEW h \in LockDepths,
         InOrder(t, h, Device), InOrder(t, h, Controller), InOrder(t, h, Lock("bound", d)),
         InOrder(t, h, SquelchLock)
  PROVE  Leads(t, SetActive(d, state), h, h)
<1>1. /\ Leads(t, Visit(Device), h, h) /\ Leads(t, BindOrRemove, h, h)
      /\ Leads(t, Visit(Lock("bound", d)), h, h) /\ Leads(t, Visit(SquelchLock), h, h)
      /\ Leads(t, << >>, h, h)
  BY VisitLeads, EmptyLeads DEF BindOrRemove, Controller
<1>2. Leads(t, Visit(Device) \o (IF state THEN BindOrRemove ELSE << >>), h, h)
  BY <1>1, ConcatLeads
<1>3. Leads(t, Visit(Device) \o (IF state THEN BindOrRemove ELSE << >>) \o Visit(Lock("bound", d)),
            h, h)
  BY <1>1, <1>2, ConcatLeads
<1>4. Leads(t, IF state THEN << >> ELSE BindOrRemove \o Visit(SquelchLock), h, h)
  BY <1>1, ConcatLeads
<1>5. Leads(t, Visit(Device) \o (IF state THEN BindOrRemove ELSE << >>) \o Visit(Lock("bound", d))
               \o (IF state THEN << >> ELSE BindOrRemove \o Visit(SquelchLock)), h, h)
  BY <1>3, <1>4, ConcatLeads
<1>6. QED  BY <1>5 DEF SetActive, Device, SquelchLock

LEMMA SetActiveDemodulatorLeads ==
  ASSUME NEW t, NEW h \in LockDepths, InOrder(t, h, DemodsBusy), h[DemodsBusy] =< 1
  PROVE  Leads(t, SetActiveDemodulator, h, h)
<1>1. Also(h, DemodsBusy) \in LockDepths /\ InOrder(t, Also(h, DemodsBusy), DemodsBusy)
  BY LocksThereAre, OrderThereIs, AlsoIsDepths, AlsoInOrder
<1>2. Leads(t, Visit(DemodsBusy), Also(h, DemodsBusy), Also(h, DemodsBusy))
  BY <1>1, VisitLeads
<1>3. QED  BY <1>2, HoldingLeads DEF SetActiveDemodulator, DemodsBusy

LEMMA DeleteThreadLeads ==
  ASSUME NEW d \in LockDemods
  PROVE  Leads(GUI, DeleteThread(d), NothingHeld, NothingHeld)
<1> DEFINE h == Also(NothingHeld, DemodsBusy)
           b == Lock("bound", d)
<1> USE LocksThereAre
<1>1. NothingHeld \in LockDepths /\ InOrder(GUI, NothingHeld, DemodsBusy) /\ h \in LockDepths
  BY FirstInOrder, AlsoIsDepths
<1>2. /\ InOrder(GUI, h, BookmarksBusy) /\ InOrder(GUI, h, Device) /\ InOrder(GUI, h, Controller)
      /\ InOrder(GUI, h, b) /\ InOrder(GUI, h, SquelchLock)
  <2>1. \A l \in Locks : InOrder(GUI, NothingHeld, l)
    BY FirstInOrder
  <2>2. \A l \in Locks : l.lock # "demods" => l # DemodsBusy
    OBVIOUS
  <2>3. QED  BY <1>1, <2>1, <2>2, OrderThereIs, AlsoInOrder
<1> HIDE DEF h
<1>3. Leads(GUI, Visit(BookmarksBusy), h, h) /\ Leads(GUI, Visit(b), h, h)
  BY <1>1, <1>2, VisitLeads
<1>4. Leads(GUI, SetActive(d, FALSE), h, h)
  BY <1>1, <1>2, SetActiveLeads
<1>5. Leads(GUI, Visit(BookmarksBusy) \o SetActive(d, FALSE) \o Visit(b), h, h)
  <2>1. Leads(GUI, Visit(BookmarksBusy) \o SetActive(d, FALSE), h, h)
    BY <1>3, <1>4, ConcatLeads
  <2>2. QED  BY <1>3, <2>1, ConcatLeads
<1>6. Leads(GUI, Holding(DemodsBusy, Visit(BookmarksBusy) \o SetActive(d, FALSE) \o Visit(b)),
            NothingHeld, NothingHeld)
  BY <1>1, <1>5, HoldingLeads DEF h
<1>7. QED  BY <1>6 DEF DeleteThread, DemodsBusy, BookmarksBusy

LEMMA SaveBookmarksLeads ==
  Leads(GUI, SaveBookmarks, NothingHeld, NothingHeld)
<1> DEFINE h == Also(NothingHeld, BookmarksBusy)
<1> USE LocksThereAre
<1>1. NothingHeld \in LockDepths /\ InOrder(GUI, NothingHeld, BookmarksBusy) /\ h \in LockDepths
  BY FirstInOrder, AlsoIsDepths
<1>2. InOrder(GUI, h, DemodsBusy)
  BY <1>1, FirstInOrder, OrderThereIs, AlsoInOrder
<1> HIDE DEF h
<1>3. Leads(GUI, Visit(DemodsBusy) \o Visit(DemodsBusy), h, h)
  BY <1>1, <1>2, VisitLeads, ConcatLeads
<1>4. Leads(GUI, Holding(BookmarksBusy, Visit(DemodsBusy) \o Visit(DemodsBusy)),
            NothingHeld, NothingHeld)
  BY <1>1, <1>3, HoldingLeads DEF h
<1>5. QED  BY <1>4 DEF SaveBookmarks, BookmarksBusy, DemodsBusy

LEMMA UpdateLeads ==
  ASSUME NEW t, NEW d \in LockDemods, NEW state \in BOOLEAN
  PROVE  Leads(t, UpdateActiveDemodulators(d, state), NothingHeld, NothingHeld)
<1> USE LocksThereAre
<1>1. /\ NothingHeld \in LockDepths /\ NothingHeld[DemodsBusy] =< 1
      /\ InOrder(t, NothingHeld, DemodsBusy) /\ InOrder(t, NothingHeld, Device)
      /\ InOrder(t, NothingHeld, Controller) /\ InOrder(t, NothingHeld, Lock("bound", d))
      /\ InOrder(t, NothingHeld, SquelchLock)
  BY FirstInOrder DEF NothingHeld
<1>2. /\ Leads(t, Visit(DemodsBusy), NothingHeld, NothingHeld)
      /\ Leads(t, SetActive(d, state), NothingHeld, NothingHeld)
      /\ Leads(t, IF state THEN SetActiveDemodulator ELSE << >>, NothingHeld, NothingHeld)
  BY <1>1, VisitLeads, SetActiveLeads, SetActiveDemodulatorLeads, EmptyLeads
<1>3. Leads(t, Visit(DemodsBusy) \o SetActive(d, state), NothingHeld, NothingHeld)
  BY <1>2, ConcatLeads
<1>4. Leads(t, Visit(DemodsBusy) \o SetActive(d, state)
               \o (IF state THEN SetActiveDemodulator ELSE << >>), NothingHeld, NothingHeld)
  BY <1>2, <1>3, ConcatLeads
<1>5. QED  BY <1>4 DEF UpdateActiveDemodulators, DemodsBusy

\* setupDevice and the end of a demodulator's AudioThread.
LEMMA AudioLeads ==
  ASSUME NEW t, NEW d \in LockDemods
  PROVE  /\ Leads(t, SetupDevice(d), NothingHeld, NothingHeld)
         /\ Leads(t, ExitAudio(d), NothingHeld, NothingHeld)
<1> DEFINE bind == Holding(Controller, BindOrRemove)
           h == Also(NothingHeld, Device)
<1> USE LocksThereAre
<1>1. /\ NothingHeld \in LockDepths /\ h \in LockDepths /\ NothingHeld[Controller] = 0
      /\ InOrder(t, NothingHeld, Device) /\ InOrder(t, NothingHeld, Controller)
  BY FirstInOrder, AlsoIsDepths DEF NothingHeld
<1>2. Device # Controller
  OBVIOUS
<1>3. InOrder(t, h, Controller) /\ h[Controller] = 0
  <2>1. h[Controller] = 0
    <3>1. Controller \in Locks \ {Device}
      BY <1>2
    <3>2. Also(NothingHeld, Device)[Controller] = NothingHeld[Controller]
      BY <1>1, <3>1, AlsoIsDepths
    <3>3. QED  BY <1>1, <3>2
  <2>2. InOrder(t, h, Controller)
    BY <1>1, <1>2, OrderThereIs, AlsoInOrder
  <2>3. QED  BY <2>1, <2>2
<1> HIDE DEF h
<1>4. ASSUME NEW g \in LockDepths, InOrder(t, g, Controller), g[Controller] = 0
      PROVE  Leads(t, bind, g, g)
  <2>1. Also(g, Controller) \in LockDepths /\ InOrder(t, Also(g, Controller), Controller)
    <3>1. g[Controller] =< 1
      BY <1>4
    <3>2. QED  BY <1>4, <3>1, AlsoIsDepths, AlsoInOrder, OrderThereIs
  <2>2. Leads(t, BindOrRemove, Also(g, Controller), Also(g, Controller))
    BY <2>1, VisitLeads DEF BindOrRemove, Controller
  <2>3. QED  BY <1>4, <2>2, HoldingLeads
<1>5. Leads(t, bind, NothingHeld, NothingHeld) /\ Leads(t, bind, h, h)
  BY <1>1, <1>3, <1>4
<1>6. Leads(t, Visit(Device), NothingHeld, NothingHeld)
  BY <1>1, VisitLeads
<1> HIDE DEF bind
<1>7. Leads(t, Holding(Device, bind \o bind), NothingHeld, NothingHeld)
  BY <1>1, <1>5, ConcatLeads, HoldingLeads DEF h
<1>8. Leads(t, Visit(Device) \o bind, NothingHeld, NothingHeld)
  BY <1>5, <1>6, ConcatLeads
<1>9. QED  BY <1>7, <1>8 DEF SetupDevice, ExitAudio, bind, Device, Controller

LEMMA SquelchLeads ==
  ASSUME NEW t
  PROVE  /\ Leads(t, Visit(SquelchLock), NothingHeld, NothingHeld)
         /\ t.thread = "Demodulator" => Leads(t, OpenInSoloMode, NothingHeld, NothingHeld)
<1> DEFINE h == Also(NothingHeld, SquelchLock)
           g == Also(h, DemodsBusy)
<1> USE LocksThereAre
<1>1. /\ NothingHeld \in LockDepths /\ h \in LockDepths /\ g \in LockDepths
      /\ InOrder(t, NothingHeld, SquelchLock) /\ InOrder(t, NothingHeld, DemodsBusy)
  BY FirstInOrder, AlsoIsDepths
<1>2. Leads(t, Visit(SquelchLock), NothingHeld, NothingHeld)
  BY <1>1, VisitLeads
<1>3. ASSUME t.thread = "Demodulator"
      PROVE  Leads(t, OpenInSoloMode, NothingHeld, NothingHeld)
  <2>1. SquelchLock # DemodsBusy /\ NothingHeld[DemodsBusy] = 0
    BY DEF NothingHeld
  <2>2. InOrder(t, h, DemodsBusy) /\ h[DemodsBusy] = 0
    <3>1. h[DemodsBusy] = 0
      <4>1. DemodsBusy \in Locks \ {SquelchLock}
        BY <2>1
      <4>2. Also(NothingHeld, SquelchLock)[DemodsBusy] = NothingHeld[DemodsBusy]
        BY <1>1, <4>1, AlsoIsDepths
      <4>3. QED  BY <2>1, <4>2
    <3>2. InOrder(t, h, DemodsBusy)
      BY <1>1, <1>3, <2>1, AlsoInOrder DEF Against, SquelchLock
    <3>3. QED  BY <3>1, <3>2
  <2> HIDE DEF h
  <2>3. InOrder(t, g, DemodsBusy) /\ g[DemodsBusy] = 1
    <3>1. h[DemodsBusy] =< 1 /\ h[DemodsBusy] + 1 = 1
      BY <2>2
    <3>2. g[DemodsBusy] = 1
      BY <1>1, <3>1, AlsoIsDepths
    <3>3. InOrder(t, g, DemodsBusy)
      BY <1>1, <2>2, <3>1, OrderThereIs, AlsoInOrder
    <3>4. QED  BY <3>2, <3>3
  <2> HIDE DEF g
  <2>4. /\ Leads(t, SetActiveDemodulator, h, h) /\ Leads(t, SetActiveDemodulator, g, g)
    BY <1>1, <2>2, <2>3, SetActiveDemodulatorLeads
  <2>5. Leads(t, Holding(DemodsBusy, SetActiveDemodulator), h, h)
    BY <1>1, <2>2, <2>4, HoldingLeads DEF g
  <2>6. Leads(t, SetActiveDemodulator \o Holding(DemodsBusy, SetActiveDemodulator), h, h)
    BY <2>4, <2>5, ConcatLeads
  <2>7. Leads(t, Holding(SquelchLock,
                         SetActiveDemodulator \o Holding(DemodsBusy, SetActiveDemodulator)),
              NothingHeld, NothingHeld)
    BY <1>1, <2>6, HoldingLeads DEF h
  <2>8. QED  BY <2>7 DEF OpenInSoloMode, SquelchLock, DemodsBusy
<1>4. QED  BY <1>2, <1>3

\* Locks that are taken one after the other.
LEMMA VisitAllLeads ==
  ASSUME NEW t, NEW h \in LockDepths, NEW locks \in Seq(Locks),
         \A i \in 1 .. Len(locks) : InOrder(t, h, locks[i])
  PROVE  Leads(t, VisitAll(locks), h, h)
<1> DEFINE n == Len(locks)
           p == VisitAll(locks)
           lock(i) == locks[(i + 1) \div 2]
           held == [i \in 1 .. 2 * n + 1 |-> IF i % 2 = 1 THEN h ELSE Also(h, locks[i \div 2])]
<1>1. n \in Nat /\ \A i \in 1 .. n : locks[i] \in Locks /\ Also(h, locks[i]) \in LockDepths
  BY AlsoIsDepths
<1>2. /\ \A i \in 1 .. 2 * n : (i + 1) \div 2 \in 1 .. n
      /\ \A i \in Nat : i % 2 # 1 => (i \div 2 = (i + 1) \div 2 /\ (i + 1) % 2 = 1)
      /\ \A i \in Nat : i % 2 = 1 => (i + 1) % 2 # 1
  <2>1. \A i \in 1 .. 2 * n : (i + 1) \div 2 \in 1 .. n
    BY <1>1
  <2>2. \A i \in Nat : i % 2 # 1 => (i \div 2 = (i + 1) \div 2 /\ (i + 1) % 2 = 1)
    OBVIOUS
  <2>3. \A i \in Nat : i % 2 = 1 => (i + 1) % 2 # 1
    OBVIOUS
  <2>4. QED  BY <2>1, <2>2, <2>3
<1>3. /\ p \in Seq(LockSteps) /\ Len(p) = 2 * n
      /\ \A i \in 1 .. 2 * n : /\ p[i].lock = lock(i)
                              /\ p[i].do = IF i % 2 = 1 THEN "lock" ELSE "unlock"
  <2>1. p = [k \in 1 .. 2 * n |-> [do |-> IF k % 2 = 1 THEN "lock" ELSE "unlock", lock |-> lock(k)]]
    BY DEF VisitAll
  <2>2. \A k \in 1 .. 2 * n : lock(k) \in Locks
    BY <1>1, <1>2
  <2>3. 2 * n \in Nat
    BY <1>1
  <2> HIDE DEF p, n, lock
  <2>4. \A k \in 1 .. 2 * n : [do |-> IF k % 2 = 1 THEN "lock" ELSE "unlock", lock |-> lock(k)]
                                   \in LockSteps
    BY <2>2 DEF LockSteps
  <2>5. QED  BY <2>1, <2>3, <2>4
<1>4. \A i \in 1 .. 2 * n + 1 : i % 2 # 1 => i \in 1 .. 2 * n /\ i \div 2 \in 1 .. n
  BY <1>1
<1>5. held \in [1 .. Len(p) + 1 -> LockDepths]
  BY <1>1, <1>3, <1>4
<1>6. held[1] = h /\ held[Len(p) + 1] = h
  BY <1>1, <1>3
<1>7. ASSUME NEW i \in 1 .. Len(p)
      PROVE  StepLeads(t, p[i], held[i], held[i + 1])
  <2>1. lock(i) \in Locks /\ InOrder(t, h, lock(i)) /\ i \in 1 .. 2 * n /\ i + 1 \in 1 .. 2 * n + 1
    BY <1>1, <1>2, <1>3
  <2>2. CASE i % 2 = 1
    <3>1. held[i] = h /\ held[i + 1] = Also(h, lock(i))
      <4>1. i \in Nat /\ i + 1 \in 1 .. 2 * n + 1 /\ i \in 1 .. 2 * n + 1
        BY <1>1, <2>1
      <4>2. (i + 1) % 2 # 1
        BY <1>2, <2>2, <4>1
      <4>3. QED  BY <2>2, <4>1, <4>2
    <3>2. QED  BY <1>3, <2>1, <2>2, <3>1 DEF StepLeads
  <2>3. CASE i % 2 # 1
    <3>1. held[i + 1] = h /\ held[i] = Also(h, lock(i))
      <4>1. i \in Nat /\ i + 1 \in 1 .. 2 * n + 1 /\ i \in 1 .. 2 * n + 1
        BY <1>1, <2>1
      <4>2. (i + 1) % 2 = 1 /\ i \div 2 = (i + 1) \div 2
        BY <1>2, <2>3, <4>1
      <4>3. held[i + 1] = h
        BY <4>1, <4>2
      <4>4. held[i] = Also(h, locks[i \div 2])
        BY <2>3, <4>1
      <4>5. QED  BY <4>2, <4>3, <4>4
    <3>2. QED  BY <1>3, <2>1, <2>3, <3>1 DEF StepLeads
  <2>4. QED  BY <2>2, <2>3
<1> HIDE DEF p, held
<1>8. QED  BY <1>3, <1>5, <1>6, <1>7 DEF Leads, p

LEMMA LoopsAreSequences ==
  ASSUME NEW those \in Loops
  PROVE  Len(those) \in Nat /\ \A k \in 1 .. Len(those) : those[k] \in LockDemods
<1>1. Cardinality(LockDemods) \in Nat
  BY LockOrderAssumption, FS_CardinalityType
<1>2. PICK n \in 0 .. Cardinality(LockDemods) : those \in [1 .. n -> LockDemods]
  BY DEF Loops
<1>3. n \in Nat /\ Len(those) = n
  BY <1>1, <1>2
<1>4. QED  BY <1>2, <1>3

\* A change of the output rate, with what it asks for under the controller's mutex.
LEMMA ControllerLeads ==
  ASSUME NEW t, t.thread = "Controller", NEW bound \in Loops, NEW those \in Loops
  PROVE  Leads(t, SetControllerSampleRate(bound, those), NothingHeld, NothingHeld)
<1> DEFINE h == Also(NothingHeld, Controller)
           rates == [k \in 1 .. 2 * Len(bound) |->
                        IF k % 2 = 1 THEN Device ELSE Lock("bound", bound[k \div 2])]
           others == [k \in 1 .. Len(those) |-> Lock("bound", those[k])]
<1> USE LocksThereAre
<1>1. /\ NothingHeld \in LockDepths /\ h \in LockDepths
      /\ InOrder(t, NothingHeld, Device) /\ InOrder(t, NothingHeld, Controller)
  BY FirstInOrder, AlsoIsDepths
<1>2. InOrder(t, h, Device) /\ InOrder(t, h, DemodsBusy)
  <2>1. InOrder(t, NothingHeld, DemodsBusy) /\ Controller # Device /\ Controller # DemodsBusy
    BY FirstInOrder
  <2>2. Against(t, Controller, Device) /\ Against(t, Controller, DemodsBusy)
    BY DEF Against, Controller
  <2>3. QED  BY <1>1, <2>1, <2>2, AlsoInOrder
<1>3. \A d \in LockDemods : InOrder(t, h, Lock("bound", d))
  <2>1. ASSUME NEW d \in LockDemods PROVE InOrder(t, h, Lock("bound", d))
    <3>1. InOrder(t, NothingHeld, Lock("bound", d)) /\ Controller # Lock("bound", d)
      BY FirstInOrder
    <3>2. Before(Controller, Lock("bound", d))
      BY OrderThereIs
    <3>3. QED  BY <1>1, <3>1, <3>2, AlsoInOrder
  <2>2. QED  BY <2>1
<1> HIDE DEF h
<1>4. Leads(t, VisitAll(rates), h, h)
  <2>1. /\ Len(bound) \in Nat
        /\ \A k \in 1 .. 2 * Len(bound) : k % 2 # 1 => k \div 2 \in 1 .. Len(bound)
    BY LoopsAreSequences
  <2>2. \A k \in 1 .. 2 * Len(bound) : k % 2 # 1 => bound[k \div 2] \in LockDemods
    BY <2>1, LoopsAreSequences
  <2>3. \A k \in 1 .. 2 * Len(bound) : rates[k] \in Locks /\ InOrder(t, h, rates[k])
    BY <1>2, <1>3, <2>2
  <2>4. rates \in Seq(Locks) /\ Len(rates) = 2 * Len(bound)
    BY <2>1, <2>3
  <2> HIDE DEF rates
  <2>5. QED  BY <1>1, <2>3, <2>4, VisitAllLeads
<1>5. Leads(t, VisitAll(others), h, h)
  <2>1. Len(those) \in Nat /\ \A k \in 1 .. Len(those) : those[k] \in LockDemods
    BY LoopsAreSequences
  <2>2. \A k \in 1 .. Len(those) : others[k] \in Locks /\ InOrder(t, h, others[k])
    BY <1>3, <2>1
  <2>3. others \in Seq(Locks) /\ Len(others) = Len(those)
    BY <2>1, <2>2
  <2> HIDE DEF others
  <2>4. QED  BY <1>1, <2>2, <2>3, VisitAllLeads
<1>6. Leads(t, Visit(DemodsBusy), h, h) /\ Leads(t, Visit(Device), NothingHeld, NothingHeld)
  BY <1>1, <1>2, VisitLeads
<1>7. Leads(t, VisitAll(rates) \o Visit(DemodsBusy) \o VisitAll(others), h, h)
  <2>1. Leads(t, VisitAll(rates) \o Visit(DemodsBusy), h, h)
    BY <1>4, <1>6, ConcatLeads
  <2>2. QED  BY <1>5, <2>1, ConcatLeads
<1>8. Leads(t, Holding(Controller, VisitAll(rates) \o Visit(DemodsBusy) \o VisitAll(others)),
            NothingHeld, NothingHeld)
  BY <1>1, <1>7, HoldingLeads DEF h
<1>9. Leads(t, Visit(Device) \o Holding(Controller, VisitAll(rates) \o Visit(DemodsBusy)
                                                       \o VisitAll(others)),
            NothingHeld, NothingHeld)
  BY <1>6, <1>8, ConcatLeads
<1>10. QED  BY <1>9 DEF SetControllerSampleRate, SetBoundSampleRates, Device, Controller, DemodsBusy

LEMMA ProgramsLead ==
  ASSUME NEW t \in Threads, NEW p \in ProgramsOf(t)
  PROVE  Leads(t, p, NothingHeld, NothingHeld)
<1>1. CASE t = GUI
  <2>1. Leads(GUI, SetActiveDemodulator, NothingHeld, NothingHeld)
    BY LocksThereAre, FirstInOrder, SetActiveDemodulatorLeads DEF NothingHeld
  <2>2. \/ "DeleteThread" \in Operations /\ \E d \in LockDemods : p = DeleteThread(d)
        \/ p = SetActiveDemodulator \/ p = SaveBookmarks
    BY <1>1 DEF ProgramsOf, GUI, Thread
  <2>3. QED  BY <1>1, <2>1, <2>2, DeleteThreadLeads, SaveBookmarksLeads
<1>2. CASE t = Thread("SDRPost", 0)
  <2>1. \E d \in LockDemods, state \in BOOLEAN : p = UpdateActiveDemodulators(d, state)
    BY <1>2 DEF ProgramsOf, Thread
  <2>2. QED  BY <2>1, UpdateLeads
<1>3. CASE t = Thread("Controller", 0)
  <2>1. \E bound, those \in Loops : p = SetControllerSampleRate(bound, those)
    BY <1>3 DEF ProgramsOf, Thread
  <2>2. t.thread = "Controller"
    BY <1>3 DEF Thread
  <2>3. QED  BY <2>1, <2>2, ControllerLeads
<1>4. ASSUME NEW d \in LockDemods, t = Thread("Audio", d)
      PROVE  Leads(t, p, NothingHeld, NothingHeld)
  <2>1. p = SetupDevice(d) \/ p = ExitAudio(d)
    BY <1>4 DEF ProgramsOf, Thread
  <2>2. QED  BY <1>4, <2>1, AudioLeads
<1>5. ASSUME NEW d \in LockDemods, t = Thread("Demodulator", d)
      PROVE  Leads(t, p, NothingHeld, NothingHeld)
  <2>1. ("OpenInSoloMode" \in Operations /\ p = OpenInSoloMode) \/ p = Visit(Lock("squelch", 0))
    BY <1>5 DEF ProgramsOf, Thread
  <2>2. t.thread = "Demodulator"
    BY <1>5 DEF Thread
  <2>3. QED  BY <2>1, <2>2, SquelchLeads DEF SquelchLock
<1>6. QED  BY <1>1, <1>2, <1>3, <1>4, <1>5 DEF Threads, GUI

-----------------------------------------------------------------------------
(* LockOrder: the steps.                                                   *)

LEMMA NobodyIsNoOwner ==
  NoOwner \notin Threads /\ GUI \in Threads
<1>1. \A t \in Threads : t.thread # "none"
  BY DEF Threads, Thread
<1>2. NoOwner.thread = "none" /\ GUI \in Threads
  BY DEF NoOwner, Threads, Thread, GUI
<1>3. QED  BY <1>1, <1>2

LEMMA HeldIsDepths ==
  ASSUME depth \in LockDepths, NEW t
  PROVE  /\ Held(t) \in LockDepths
         /\ \A l \in Locks : Held(t)[l] = IF owner[l] = t THEN depth[l] ELSE 0
  BY DEF Held, LockDepths

LEMMA LockStarts ==
  ASSUME LockOrderInit
  PROVE  LockInv
<1>1. DOMAIN program = Threads /\ depth \in LockDepths
  BY DEF LockOrderInit, LockDepths
<1>2. \A t \in Threads : Held(t) = NothingHeld /\ program[t] = << >>
  BY NobodyIsNoOwner DEF LockOrderInit, Held, NothingHeld
<1>3. NothingHeld \in LockDepths
  BY DEF NothingHeld, LockDepths
<1>4. \A t \in Threads : Leads(t, program[t], Held(t), NothingHeld)
  BY <1>2, <1>3, EmptyLeads
<1>5. LockOrderTypeOK
  BY DEF LockOrderInit, LockOrderTypeOK
<1>6. owner[Lock("bookmarks", 0)] \in {GUI, NoOwner}
  BY LocksThereAre DEF LockOrderInit, BookmarksBusy
<1>7. QED  BY <1>1, <1>4, <1>5, <1>6 DEF LockInv

\* A thread that has nothing left to do holds nothing.
LEMMA IdleHoldsNothing ==
  ASSUME LockInv, NEW t \in Threads, program[t] = << >>
  PROVE  Held(t) = NothingHeld
  BY DEF LockInv, Leads

LEMMA BeginKeeps ==
  ASSUME LockInv, NEW t \in Threads, Begin(t)
  PROVE  LockInv'
<1>1. PICK p \in ProgramsOf(t) : program' = [program EXCEPT ![t] = p]
  BY DEF Begin
<1>2. UNCHANGED <<owner, depth>>
  BY DEF Begin
<1>3. Leads(t, p, Held(t), NothingHeld)
  BY <1>1, IdleHoldsNothing, ProgramsLead DEF Begin
<1>4. \A u : Held(u)' = Held(u)
  BY <1>2 DEF Held
<1>5. ASSUME NEW u \in Threads
      PROVE  Leads(u, program'[u], Held(u)', NothingHeld)
  <2>1. program'[u] = IF u = t THEN p ELSE program[u]
    BY <1>1 DEF LockInv
  <2>2. QED  BY <1>3, <1>4, <2>1 DEF LockInv
<1>6. QED  BY <1>1, <1>2, <1>5 DEF LockInv, LockOrderTypeOK, Leads, StepLeads, InOrder

\* A step of t that changes what t holds of the lock l to k[l], and leaves the rest.
Moves(t, l, k) ==
    /\ Leads(t, Tail(program[t]), k, NothingHeld) /\ program' = [program EXCEPT ![t] = Tail(@)]
    /\ \A m \in Locks \ {l} : k[m] = Held(t)[m] /\ owner'[m] = owner[m] /\ depth'[m] = depth[m]
    /\ owner[l] \in {t, NoOwner} /\ k[l] =< 3 /\ depth'[l] = k[l]
    /\ owner'[l] = IF k[l] = 0 THEN NoOwner ELSE t
    /\ l.lock = "bookmarks" => t = GUI
    /\ owner' \in [Locks -> Threads \cup {NoOwner}] /\ depth' \in LockDepths

LEMMA MovesKeep ==
  ASSUME LockInv, NEW t \in Threads, NEW l \in Locks, NEW k \in LockDepths, Moves(t, l, k)
  PROVE  LockInv'
<1> USE DEF Moves
<1>1. depth \in LockDepths /\ LockOrderTypeOK /\ k[l] \in 0 .. 3
  BY DEF LockInv, LockDepths
<1>2. LockOrderTypeOK'
  <2>2. ASSUME NEW m \in Locks
        PROVE  depth'[m] \in 0 .. 3 /\ (depth'[m] = 0) = (owner'[m] = NoOwner)
    <3>1. CASE m = l
      BY <1>1, <3>1, NobodyIsNoOwner
    <3>2. CASE m # l
      BY <1>1, <3>2 DEF LockOrderTypeOK
    <3>3. QED  BY <3>1, <3>2
  <2>3. QED  BY <2>2 DEF LockOrderTypeOK
<1>3. depth' \in LockDepths
  OBVIOUS
<1>4. owner'[Lock("bookmarks", 0)] \in {GUI, NoOwner}
  <2>1. CASE l = BookmarksBusy
    BY <1>1, <2>1, LocksThereAre DEF BookmarksBusy
  <2>2. CASE l # BookmarksBusy
    BY <2>2, LocksThereAre DEF BookmarksBusy, LockInv
  <2>3. QED  BY <2>1, <2>2
<1>5. ASSUME NEW u \in Threads, u # t
      PROVE  Held(u)' = Held(u)
  <2>1. \A m \in Locks : (IF owner'[m] = u THEN depth'[m] ELSE 0) = IF owner[m] = u THEN depth[m] ELSE 0
    BY <1>5, NobodyIsNoOwner
  <2>2. QED  BY <2>1 DEF Held
<1>6. Held(t)' = k
  <2>1. \A m \in Locks : (IF owner'[m] = t THEN depth'[m] ELSE 0) = k[m]
    BY <1>1, NobodyIsNoOwner, HeldIsDepths
  <2>2. k = [m \in Locks |-> k[m]]
    BY DEF LockDepths
  <2>3. QED  BY <2>1, <2>2 DEF Held
<1>7. \A u \in Threads : Leads(u, program'[u], Held(u)', NothingHeld)
  <2>1. DOMAIN program = Threads
    BY DEF LockInv
  <2>2. QED  BY <1>5, <1>6, <2>1 DEF LockInv
<1>8. DOMAIN program' = Threads
  BY DEF LockInv
<1>9. QED  BY <1>2, <1>3, <1>4, <1>7, <1>8 DEF LockInv

LEMMA TakeLockKeeps ==
  ASSUME LockInv, NEW t \in Threads, TakeLock(t)
  PROVE  LockInv'
<1> DEFINE l == NextStep(t).lock
<1>1. program[t] # << >> /\ Head(program[t]).do = "lock" /\ l = Head(program[t]).lock
  BY DEF TakeLock, NextStep
<1>2. PICK k \in LockDepths : /\ StepLeads(t, Head(program[t]), Held(t), k)
                              /\ Leads(t, Tail(program[t]), k, NothingHeld)
  BY <1>1, TailLeads DEF LockInv
<1>3. InOrder(t, Held(t), l) /\ k = Also(Held(t), l)
  BY <1>1, <1>2 DEF StepLeads
<1>4. /\ IsFree(l, t) /\ owner' = [owner EXCEPT ![l] = t] /\ depth' = [depth EXCEPT ![l] = @ + 1]
      /\ program' = [program EXCEPT ![t] = Tail(@)]
  BY DEF TakeLock
<1> HIDE DEF l
<1>5. depth \in LockDepths /\ Held(t) \in LockDepths /\ LockOrderTypeOK /\ l \in Locks
  BY <1>3, HeldIsDepths DEF LockInv, InOrder
<1>6. k[l] = Held(t)[l] + 1 /\ \A m \in Locks \ {l} : k[m] = Held(t)[m]
  BY <1>3, <1>5, AlsoIsDepths
<1>7. Held(t)[l] = depth[l]
  BY <1>4, <1>5, HeldIsDepths, NobodyIsNoOwner DEF IsFree, LockOrderTypeOK
<1>8. Held(t)[l] \in Nat /\ Held(t)[l] =< 2
  BY <1>3, <1>5 DEF InOrder, LockDepths
<1>9. /\ owner[l] \in {t, NoOwner} /\ owner'[l] = t /\ depth'[l] = depth[l] + 1
      /\ \A m \in Locks \ {l} : owner'[m] = owner[m] /\ depth'[m] = depth[m]
      /\ owner' \in [Locks -> Threads \cup {NoOwner}] /\ depth' \in LockDepths
  BY <1>4, <1>5 DEF IsFree, LockOrderTypeOK, LockDepths
<1>10. k[l] =< 3 /\ k[l] # 0 /\ depth'[l] = k[l]
  BY <1>6, <1>7, <1>8, <1>9
<1>11. l.lock = "bookmarks" => t = GUI
  BY <1>3 DEF InOrder
<1>12. \A m \in Locks \ {l} : k[m] = Held(t)[m] /\ owner'[m] = owner[m] /\ depth'[m] = depth[m]
  BY <1>6, <1>9
<1>13. owner'[l] = IF k[l] = 0 THEN NoOwner ELSE t
  BY <1>9, <1>10
<1>14. k \in LockDepths /\ Leads(t, Tail(program[t]), k, NothingHeld)
  BY <1>2
<1>15. Moves(t, l, k)
  BY <1>4, <1>9, <1>10, <1>11, <1>12, <1>13, <1>14 DEF Moves
<1>16. QED  BY <1>5, <1>14, <1>15, MovesKeep

LEMMA DropLockKeeps ==
  ASSUME LockInv, NEW t \in Threads, DropLock(t)
  PROVE  LockInv'
<1> DEFINE l == NextStep(t).lock
<1>1. program[t] # << >> /\ Head(program[t]).do = "unlock" /\ l = Head(program[t]).lock
  BY DEF DropLock, NextStep
<1>2. PICK k \in LockDepths : /\ StepLeads(t, Head(program[t]), Held(t), k)
                              /\ Leads(t, Tail(program[t]), k, NothingHeld)
  BY <1>1, TailLeads DEF LockInv
<1>3. l \in Locks /\ Held(t) = Also(k, l)
  BY <1>1, <1>2 DEF StepLeads
<1>4. /\ owner' = [owner EXCEPT ![l] = IF depth[l] = 1 THEN NoOwner ELSE @]
      /\ depth' = [depth EXCEPT ![l] = @ - 1]
      /\ program' = [program EXCEPT ![t] = Tail(@)]
  BY DEF DropLock
<1> HIDE DEF l
<1>5. depth \in LockDepths /\ Held(t) \in LockDepths /\ LockOrderTypeOK
  BY HeldIsDepths DEF LockInv
<1>6. Held(t)[l] = k[l] + 1 /\ \A m \in Locks \ {l} : k[m] = Held(t)[m]
  BY <1>3, AlsoIsDepths
<1>7. k[l] \in Nat
  BY <1>3 DEF LockDepths
<1>8. owner[l] = t /\ depth[l] = k[l] + 1
  <2>1. Held(t)[l] # 0
    BY <1>6, <1>7
  <2>2. QED  BY <1>3, <1>5, <1>6, <2>1, HeldIsDepths
<1>9. /\ owner'[l] = IF depth[l] = 1 THEN NoOwner ELSE t
      /\ depth'[l] = depth[l] - 1
      /\ \A m \in Locks \ {l} : owner'[m] = owner[m] /\ depth'[m] = depth[m]
      /\ owner' \in [Locks -> Threads \cup {NoOwner}] /\ depth' \in LockDepths
  BY <1>3, <1>4, <1>5, <1>8 DEF LockOrderTypeOK, LockDepths
<1>10. k[l] =< 3 /\ depth'[l] = k[l] /\ owner'[l] = IF k[l] = 0 THEN NoOwner ELSE t
  <2>1. depth[l] \in 0 .. 3
    BY <1>3, <1>5 DEF LockOrderTypeOK
  <2>2. QED  BY <1>7, <1>8, <1>9, <2>1
<1>11. l.lock = "bookmarks" => t = GUI
  <2>1. l.lock = "bookmarks" => l = BookmarksBusy
    BY <1>3 DEF Locks, Lock, BookmarksBusy
  <2>2. QED  BY <1>8, <2>1, NobodyIsNoOwner DEF LockInv, BookmarksBusy
<1>12. \A m \in Locks \ {l} : k[m] = Held(t)[m] /\ owner'[m] = owner[m] /\ depth'[m] = depth[m]
  BY <1>6, <1>9
<1>13. k \in LockDepths /\ Leads(t, Tail(program[t]), k, NothingHeld)
  BY <1>2
<1>14. Moves(t, l, k)
  BY <1>4, <1>8, <1>9, <1>10, <1>11, <1>12, <1>13 DEF Moves
<1>15. QED  BY <1>3, <1>13, <1>14, MovesKeep

\* Whatever locks the operations take, and whichever of them run: every thread takes its locks in
\* one order, but for the two that ask for demods_busy or the device mutex under a later one,
\* and gives them all back.
THEOREM LocksAreOrdered == LockOrderSpec => []LockInv
<1>1. LockOrderInit => LockInv
  BY LockStarts
<1>2. LockInv /\ [LockOrderNext]_lockVars => LockInv'
  <2>1. SUFFICES ASSUME LockInv, LockOrderNext \/ UNCHANGED lockVars
                 PROVE  LockInv'
    OBVIOUS
  <2>2. CASE LockOrderNext
    BY <2>1, <2>2, BeginKeeps, TakeLockKeeps, DropLockKeeps DEF LockOrderNext
  <2>3. CASE UNCHANGED lockVars
    <3>1. UNCHANGED <<program, owner, depth>> /\ \A t : Held(t)' = Held(t)
      BY <2>3 DEF lockVars, Held
    <3>2. \A t \in Threads : Leads(t, program'[t], Held(t)', NothingHeld)
      BY <2>1, <3>1 DEF LockInv
    <3>3. QED  BY <2>1, <3>1, <3>2 DEF LockInv, LockOrderTypeOK
  <2>4. QED  BY <2>1, <2>2, <2>3
<1>3. QED  BY <1>1, <1>2, PTL DEF LockOrderSpec

\* The locks are only ever held by threads, and no lock more often than three times at once.
THEOREM LockTypeCorrect == LockOrderSpec => []LockOrderTypeOK
<1>1. LockInv => LockOrderTypeOK
  BY DEF LockInv
<1>2. QED  BY <1>1, LocksAreOrdered, PTL

\* A thread that waits holds nothing that comes after what it waits for, or waits against the
\* order.
LEMMA WaitersAreOrdered ==
  ASSUME LockInv, NEW t \in Threads, NEW u \in Threads, NEW v \in Threads,
         WaitsFor(t, u), WaitsFor(u, v), ~AgainstTheOrder(u)
  PROVE  Rank(NextStep(t).lock) < Rank(NextStep(u).lock)
<1> DEFINE l == NextStep(t).lock
           m == NextStep(u).lock
<1>1. /\ program[t] # << >> /\ Head(program[t]).do = "lock" /\ ~IsFree(l, t) /\ owner[l] = u
      /\ program[u] # << >> /\ Head(program[u]).do = "lock" /\ ~IsFree(m, u)
  BY DEF WaitsFor, NextStep
<1>2. InOrder(t, Held(t), l) /\ InOrder(u, Held(u), m)
  BY <1>1, TailLeads DEF LockInv, StepLeads, NextStep
<1> HIDE DEF l, m
<1>3. l \in Locks /\ m \in Locks /\ LockOrderTypeOK /\ depth \in LockDepths
  BY <1>2 DEF InOrder, LockInv
<1>4. Held(u)[l] > 0
  BY <1>1, <1>3, HeldIsDepths, NobodyIsNoOwner DEF LockOrderTypeOK
<1>5. Before(l, m)
  <2>1. Before(l, m) \/ Against(u, l, m)
    BY <1>2, <1>3, <1>4 DEF InOrder
  <2>2. ~Against(u, l, m)
    BY <1>1 DEF Against, AgainstTheOrder, m, NextStep
  <2>3. QED  BY <2>1, <2>2
<1>6. l # m
  BY <1>1, <1>5 DEF Before, IsFree
<1>7. m.lock # "bookmarks"
  <2>1. SUFFICES ASSUME m.lock = "bookmarks" PROVE FALSE
    OBVIOUS
  <2>2. u = GUI /\ m = BookmarksBusy
    BY <1>2, <1>3, <2>1 DEF InOrder, Locks, Lock, BookmarksBusy
  <2>3. owner[m] \in {u, NoOwner}
    BY <2>2 DEF LockInv, BookmarksBusy
  <2>4. QED  BY <1>1, <2>1, <2>3 DEF IsFree
<1>8. Rank(l) < Rank(m)
  BY <1>5, <1>6, <1>7 DEF Before
<1>9. QED  BY <1>8 DEF l, m

LEMMA RanksAreBounded ==
  ASSUME NEW l \in Locks
  PROVE  Rank(l) \in 0 .. 5
<1>1. \/ l \in {Device, Controller, DemodsBusy, SquelchLock, BookmarksBusy}
      \/ \E d \in LockDemods : l = Lock("bound", d)
  BY DEF Locks, Device, Controller, DemodsBusy, SquelchLock, BookmarksBusy
<1>2. QED  BY <1>1, RanksThereAre

\* However many demodulators there are, and whatever operations run: threads that wait for each
\* other for good are in one of the two deadlocks known, and no others.
THEOREM DeadlocksAreKnown == LockOrderSpec => []OnlyKnownDeadlocks
<1>1. LockInv => OnlyKnownDeadlocks
  <2>1. SUFFICES ASSUME LockInv, NEW S \in SUBSET Threads, S # {}, Deadlocked(S),
                        \A t \in S : ~AgainstTheOrder(t)
                 PROVE  FALSE
    <3> DEFINE KnownOne(S) == Deadlocked(S) => \E t \in S : AgainstTheOrder(t)
    <3>1. (\A S \in SUBSET Threads : S # {} => KnownOne(S)) => OnlyKnownDeadlocks
      <4> DEFINE waiting == {t \in Threads : \E u \in Threads : WaitsFor(t, u)}
      <4>1. waiting \subseteq Threads
        OBVIOUS
      <4> HIDE DEF waiting
      <4>2. (\A S \in SUBSET Threads : S # {} => KnownOne(S))
              => \A S \in (SUBSET waiting) \ {{}} : KnownOne(S)
        <5>1. \A S \in (SUBSET waiting) \ {{}} : S \in SUBSET Threads /\ S # {}
          BY <4>1
        <5>2. QED  BY <5>1
      <4>3. QED  BY <4>2 DEF OnlyKnownDeadlocks, waiting
    <3>2. QED  BY <3>1
  <2> DEFINE rank(t) == Rank(NextStep(t).lock)
  <2>2. \A t \in S : \E u \in S : WaitsFor(t, u)
    BY <2>1 DEF Deadlocked
  <2>3. ASSUME NEW t \in S
        PROVE  rank(t) \in 0 .. 5
    <3>1. program[t] # << >> /\ Head(program[t]).do = "lock"
      BY <2>2 DEF WaitsFor, NextStep
    <3>2. NextStep(t).lock \in Locks
      BY <2>1, <3>1, TailLeads DEF LockInv, LockSteps, NextStep
    <3>3. QED  BY <3>2, RanksAreBounded
  <2>4. ASSUME NEW t \in S
        PROVE  \E u \in S : rank(t) < rank(u)
    <3>1. PICK u \in S : WaitsFor(t, u)
      BY <2>2
    <3>2. PICK v \in S : WaitsFor(u, v)
      BY <2>2
    <3>3. QED  BY <2>1, <3>1, <3>2, WaitersAreOrdered
  <2> HIDE DEF rank
  <2>5. \A t \in S : rank(t) # 5
    BY <2>3, <2>4
  <2>6. \A t \in S : rank(t) # 4
    BY <2>3, <2>4, <2>5
  <2>7. \A t \in S : rank(t) # 3
    BY <2>3, <2>4, <2>5, <2>6
  <2>8. \A t \in S : rank(t) # 2
    BY <2>3, <2>4, <2>5, <2>6, <2>7
  <2>9. \A t \in S : rank(t) # 1
    BY <2>3, <2>4, <2>5, <2>6, <2>7, <2>8
  <2>10. \A t \in S : rank(t) # 0
    BY <2>3, <2>4, <2>5, <2>6, <2>7, <2>8, <2>9
  <2>11. QED  BY <2>1, <2>3, <2>5, <2>6, <2>7, <2>8, <2>9, <2>10
<1>2. QED  BY <1>1, LocksAreOrdered, PTL

-----------------------------------------------------------------------------
(* Receiver: the invariant.                                                *)

LastScan == scans[Len(scans)]

ReceiverTypes ==
    /\ ReceiverTypeOK
    /\ made \cup listed \subseteq Infos
    /\ scans \in Seq({"created", "scanning", "reporting", "done", "ended"})
    /\ Len(scans) \in 1 .. MaxScans
    /\ dialog \in [open : BOOLEAN, refresh : BOOLEAN, dev : Infos \cup {NoInfo}]
    /\ guiCall \in [call : {"none", "stop", "refresh", "set", "exit", "killed", "deleted"},
                    dev : Infos \cup {NoInfo}, by : {"none", "frame", "dialog"}]

\* There is a device to be received from, and its handle is there while it is.
DeviceIsThere ==
    /\ sdrStep # "none" => deviceInfo # NoInfo
    /\ sdrStep = "init" => activeDev # NoInfo
    /\ sdrStep = "loop" => activeDev \in made
    /\ guiCall.call = "set" => guiCall.dev # NoInfo
    /\ guiCall.call = "none" => guiCall = NoCall
    /\ guiCall.call = "deleted" => sdrStep = "none"

\* What the flags say of the last scan; the ones before it have ended.
ScansAreApart ==
    /\ \A k \in 1 .. Len(scans) - 1 : scans[k] = "ended"
    /\ LastScan \in {"created", "scanning", "reporting"} => ~devicesReady
    /\ LastScan \in {"scanning", "reporting", "done"} => ~enumTerminated
    /\ ButtonsEnabled => LastScan = "ended"
    /\ guiCall.call = "refresh" => LastScan = "ended"

\* A stop that took too long leaves the device set.
TimeoutIsRemembered ==
    /\ stopTimedOut => deviceInfo # NoInfo \/ guiCall.call = "killed"
    /\ guiCall.call = "set" /\ guiCall.by = "frame" => ~stopTimedOut

ReceiverInv == ReceiverTypes /\ DeviceIsThere /\ ScansAreApart /\ TimeoutIsRemembered

-----------------------------------------------------------------------------
(* Receiver: the SDR thread and the scans.                                 *)

ScanSteps == {"created", "scanning", "reporting", "done", "ended"}

LEMMA NoInfoIsNone ==
  NoInfo \notin Infos
  BY DEF NoInfo, Infos

LEMMA SDRKeeps ==
  ASSUME ReceiverInv, NEW b \in BOOLEAN, SDRStarts \/ SDREnds \/ SDRInit(b) \/ SDRLoop(b)
  PROVE  ReceiverInv'
<1> USE NoInfoIsNone DEF ReceiverInv, outsideSDR, enumVars, sdrVars, frameVars
<1>1. /\ UNCHANGED <<deviceInfo, stoppedDev, listed, scans, enumTerminated, devicesReady>>
      /\ UNCHANGED <<dialog, guiCall, stopTimedOut, receiverClicks>>
  BY DEF SDRStarts, SDREnds, SDRInit, SDRLoop
<1>2. /\ sdrStep' \in {"none", "created", "starting", "init", "loop", "done", "ended"}
      /\ {activeDev', frameInfo'} \subseteq Infos \cup {NoInfo}
      /\ made \subseteq made' /\ made' \subseteq Infos
  BY DEF SDRStarts, SDREnds, SDRInit, SDRLoop, NotifyInitialized, GetDevice, ReceiverTypes,
         ReceiverTypeOK, DeviceIsThere
<1>3. ReceiverTypes'
  BY <1>1, <1>2 DEF ReceiverTypes, ReceiverTypeOK
<1>4. DeviceIsThere'
  <2>1. sdrStep # "none" /\ sdrStep' # "none"
    BY DEF SDRStarts, SDREnds, SDRInit, SDRLoop
  <2>2. sdrStep' = "init" => activeDev' # NoInfo
    BY DEF SDRStarts, SDREnds, SDRInit, SDRLoop
  <2>3. sdrStep' = "loop" => activeDev' \in made'
    BY DEF SDRStarts, SDREnds, SDRInit, SDRLoop, DeviceIsThere
  <2>4. QED  BY <1>1, <2>1, <2>2, <2>3 DEF DeviceIsThere
<1>5. ScansAreApart'
  BY <1>1 DEF ScansAreApart, LastScan, ButtonsEnabled
<1>6. TimeoutIsRemembered'
  BY <1>1 DEF TimeoutIsRemembered
<1>7. QED  BY <1>3, <1>4, <1>5, <1>6

LEMMA ScanKeeps ==
  ASSUME ReceiverInv, NEW k \in DOMAIN scans, Scan(k)
  PROVE  ReceiverInv'
<1> DEFINE n == Len(scans)
<1>1. scans \in Seq(ScanSteps) /\ n \in 1 .. MaxScans /\ DOMAIN scans = 1 .. n
  BY DEF ReceiverInv, ReceiverTypes, ScanSteps
<1>2. k = n
  <2>1. scans[k] # "ended"
    BY DEF Scan
  <2>2. QED  BY <1>1, <2>1 DEF ReceiverInv, ScansAreApart
<1>3. /\ UNCHANGED <<sdrStep, sdrStopping, sdrTerminated, deviceInfo, activeDev, stoppedDev>>
      /\ UNCHANGED <<frameInfo, deviceChanged, made, dialog, guiCall, stopTimedOut, receiverClicks>>
  BY DEF Scan, outsideScan, sdrVars, frameVars
<1>4. PICK step \in ScanSteps : scans' = [scans EXCEPT ![n] = step]
  BY <1>2 DEF Scan, ScanSteps
<1>5. scans' \in Seq(ScanSteps) /\ Len(scans') = n /\ LastScan' = step
      /\ \A j \in 1 .. n - 1 : scans'[j] = scans[j]
  <2>1. n \in Nat \ {0} /\ n \in 1 .. n
    BY <1>1, ReceiverAssumption
  <2>2. scans' \in Seq(ScanSteps) /\ Len(scans') = n
    BY <1>1, <1>4
  <2> HIDE DEF n
  <2>3. scans'[n] = step /\ \A j \in 1 .. n - 1 : scans'[j] = scans[j]
    <3>1. \A j \in 1 .. n - 1 : j \in 1 .. n /\ j # n
      BY <2>1
    <3>2. \A j \in 1 .. n : scans'[j] = IF j = n THEN step ELSE scans[j]
      BY <1>1, <1>4
    <3>3. QED  BY <2>1, <3>1, <3>2
  <2>4. QED  BY <2>2, <2>3 DEF LastScan
<1>6. listed' \subseteq Infos
  <2>1. n \in 1 .. MaxScans /\ listed \subseteq Infos
    BY <1>1 DEF ReceiverInv, ReceiverTypes
  <2>2. [device : Hardware, scan : {n}] \subseteq Infos
    BY <2>1 DEF Infos
  <2>3. QED  BY <2>1, <2>2 DEF Scan
<1>7. ReceiverTypes'
  BY <1>1, <1>3, <1>5, <1>6 DEF ReceiverInv, ReceiverTypes, ReceiverTypeOK, ScanSteps
<1>8. DeviceIsThere'
  BY <1>3 DEF ReceiverInv, DeviceIsThere
<1>9. ScansAreApart'
  <2>1. \/ scans[n] = "created" /\ step = "scanning" /\ ~enumTerminated' /\ devicesReady' = devicesReady
        \/ /\ scans[n] = "scanning" /\ step = "reporting"
           /\ UNCHANGED <<enumTerminated, devicesReady>>
        \/ scans[n] = "reporting" /\ step = "done" /\ enumTerminated' = enumTerminated
        \/ scans[n] = "done" /\ step = "ended" /\ devicesReady' = devicesReady
    BY <1>1, <1>2, <1>4, <1>5 DEF Scan, LastScan
  <2>2. LastScan = scans[n] /\ ButtonsEnabled' = ButtonsEnabled
    BY <1>3 DEF LastScan, ButtonsEnabled
  <2> HIDE DEF n
  <2>3. \A j \in 1 .. n - 1 : scans'[j] = "ended"
    BY <1>5 DEF ReceiverInv, ScansAreApart, n
  <2>4. /\ step \in {"created", "scanning", "reporting"} => ~devicesReady'
        /\ step \in {"scanning", "reporting", "done"} => ~enumTerminated'
        /\ ~ButtonsEnabled' /\ guiCall'.call # "refresh"
    BY <1>3, <2>1, <2>2 DEF ReceiverInv, ScansAreApart
  <2>5. QED  BY <1>5, <2>3, <2>4 DEF ScansAreApart
<1>10. TimeoutIsRemembered'
  BY <1>3 DEF ReceiverInv, TimeoutIsRemembered
<1>11. QED  BY <1>7, <1>8, <1>9, <1>10 DEF ReceiverInv

\* A scan is only started when the ones before it have ended.
LEMMA StartScanKeeps ==
  ASSUME ReceiverInv, StartScan, LastScan = "ended", ~ButtonsEnabled', guiCall'.call # "refresh"
  PROVE  ScansAreApart' /\ scans' \in Seq(ScanSteps) /\ Len(scans') \in 1 .. MaxScans
<1> DEFINE n == Len(scans)
<1>1. scans \in Seq(ScanSteps) /\ n \in 1 .. MaxScans /\ n < MaxScans
  BY DEF ReceiverInv, ReceiverTypes, ScanSteps, StartScan
<1>2. MaxScans \in Nat
  BY ReceiverAssumption
<1>3. /\ scans' \in Seq(ScanSteps) /\ Len(scans') = n + 1 /\ LastScan' = "created"
      /\ \A j \in 1 .. n : scans'[j] = scans[j]
  BY <1>1 DEF StartScan, ScanSteps, LastScan
<1>4. \A j \in 1 .. n : scans[j] = "ended"
  BY <1>1 DEF ReceiverInv, ScansAreApart, LastScan
<1> HIDE DEF n
<1>5. Len(scans') \in 1 .. MaxScans /\ Len(scans') - 1 = n
  BY <1>1, <1>2, <1>3
<1>6. ScansAreApart'
  BY <1>3, <1>4, <1>5 DEF ScansAreApart, StartScan
<1>7. QED  BY <1>3, <1>5, <1>6

-----------------------------------------------------------------------------
(* Receiver: the calls that wait for the SDR thread.                       *)

\* What stays as it is when no scan starts and no buttons are freed.
LEMMA NoScanKeeps ==
  ASSUME ReceiverInv, UNCHANGED <<scans, enumTerminated, devicesReady>>,
         ButtonsEnabled' => ButtonsEnabled, guiCall'.call = "refresh" => LastScan = "ended"
  PROVE  ScansAreApart'
  BY DEF ReceiverInv, ScansAreApart, LastScan

LEMMA NoCallIsACall ==
  /\ NoCall \in [call : {"none", "stop", "refresh", "set", "exit", "killed", "deleted"},
                 dev : Infos \cup {NoInfo}, by : {"none", "frame", "dialog"}]
  /\ NoCall.call = "none"
  BY DEF NoCall

LEMMA WaitTimesOutKeeps ==
  ASSUME ReceiverInv, WaitTimesOut
  PROVE  ReceiverInv'
<1> USE DEF ReceiverInv
<1>1. /\ UNCHANGED <<sdrStep, sdrStopping, sdrTerminated, deviceInfo, activeDev, stoppedDev>>
      /\ UNCHANGED <<frameInfo, deviceChanged, listed, scans, enumTerminated, devicesReady, made, dialog>>
      /\ stopTimedOut' = TRUE
  BY DEF WaitTimesOut, sdrVars, frameVars, enumVars
<1>2. \/ guiCall' = [guiCall EXCEPT !.call = "killed"] /\ guiCall.call = "exit"
      \/ guiCall' = NoCall /\ sdrStep # "none"
  BY DEF WaitTimesOut
<1>3. /\ guiCall' \in [call : {"none", "stop", "refresh", "set", "exit", "killed", "deleted"},
                       dev : Infos \cup {NoInfo}, by : {"none", "frame", "dialog"}]
      /\ guiCall'.call \in {"killed", "none"}
      /\ guiCall'.call = "none" => guiCall' = NoCall /\ sdrStep # "none"
  <2>1. CASE guiCall' = [guiCall EXCEPT !.call = "killed"]
    BY <2>1 DEF ReceiverTypes
  <2>2. CASE guiCall' = NoCall /\ sdrStep # "none"
    BY <2>2, NoCallIsACall
  <2>3. QED  BY <1>2, <2>1, <2>2
<1>4. ReceiverTypes'
  BY <1>1, <1>3 DEF ReceiverTypes, ReceiverTypeOK
<1>5. DeviceIsThere'
  BY <1>1, <1>3 DEF DeviceIsThere
<1>6. ScansAreApart'
  BY <1>1, <1>3, NoScanKeeps DEF ButtonsEnabled
<1>7. TimeoutIsRemembered'
  BY <1>1, <1>3 DEF TimeoutIsRemembered, DeviceIsThere
<1>8. QED  BY <1>4, <1>5, <1>6, <1>7

LEMMA FinishStopKeeps ==
  ASSUME ReceiverInv, FinishStop
  PROVE  ReceiverInv'
<1> USE NoCallIsACall DEF ReceiverInv
<1>1. /\ sdrStep' = "none" /\ stoppedDev' = deviceInfo /\ deviceInfo' = NoInfo /\ guiCall' = NoCall
      /\ stopTimedOut' = FALSE
      /\ UNCHANGED <<activeDev, frameInfo, listed, scans, enumTerminated, devicesReady, made, dialog>>
  BY DEF FinishStop, Joined, enumVars
<1>2. ReceiverTypes'
  BY <1>1 DEF ReceiverTypes, ReceiverTypeOK
<1>3. DeviceIsThere'
  BY <1>1 DEF DeviceIsThere
<1>4. ScansAreApart'
  BY <1>1, NoScanKeeps DEF ButtonsEnabled
<1>5. TimeoutIsRemembered'
  BY <1>1 DEF TimeoutIsRemembered
<1>6. QED  BY <1>2, <1>3, <1>4, <1>5

LEMMA FinishRefreshKeeps ==
  ASSUME ReceiverInv, FinishRefresh
  PROVE  ReceiverInv'
<1> USE NoCallIsACall DEF ReceiverInv
<1>1. /\ sdrStep' = "none" /\ stoppedDev' = NoInfo /\ deviceInfo' = NoInfo /\ guiCall' = NoCall
      /\ stopTimedOut' = FALSE /\ made' = made \ listed /\ listed' = {} /\ StartScan
      /\ dialog' = [dialog EXCEPT !.refresh = TRUE] /\ guiCall.call = "refresh"
      /\ UNCHANGED <<activeDev, frameInfo>>
  BY DEF FinishRefresh, Joined
<1>2. /\ dialog' \in [open : BOOLEAN, refresh : BOOLEAN, dev : Infos \cup {NoInfo}]
      /\ ~ButtonsEnabled' /\ dialog'.dev = dialog.dev
  BY <1>1 DEF ReceiverTypes, ButtonsEnabled
<1>3. ScansAreApart' /\ scans' \in Seq(ScanSteps) /\ Len(scans') \in 1 .. MaxScans
  <2>1. LastScan = "ended"
    BY <1>1 DEF ScansAreApart
  <2>2. guiCall'.call # "refresh"
    BY <1>1
  <2>3. QED  BY <1>1, <1>2, <2>1, <2>2, StartScanKeeps
<1>4. ReceiverTypes'
  BY <1>1, <1>2, <1>3 DEF ReceiverTypes, ReceiverTypeOK, ScanSteps
<1>5. DeviceIsThere'
  BY <1>1 DEF DeviceIsThere
<1>6. TimeoutIsRemembered'
  BY <1>1 DEF TimeoutIsRemembered
<1>7. QED  BY <1>3, <1>4, <1>5, <1>6

LEMMA ClosedIsADialog ==
  /\ ClosedDialog \in [open : BOOLEAN, refresh : BOOLEAN, dev : Infos \cup {NoInfo}]
  /\ ClosedDialog.refresh = TRUE /\ ClosedDialog.dev = NoInfo
  BY DEF ClosedDialog

LEMMA FinishSetKeeps ==
  ASSUME ReceiverInv, NEW b \in BOOLEAN, FinishSet(b)
  PROVE  ReceiverInv'
<1> USE NoCallIsACall, ClosedIsADialog DEF ReceiverInv
<1>1. /\ sdrStep' \in {"created", "none"} /\ guiCall.call = "set"
      /\ deviceInfo' = guiCall.dev /\ stoppedDev' = NoInfo /\ guiCall' = NoCall
      /\ stopTimedOut' = FALSE /\ made' \in {made, made \cup {guiCall.dev}}
      /\ dialog' \in {ClosedDialog, dialog}
      /\ UNCHANGED <<activeDev, frameInfo, listed, scans, enumTerminated, devicesReady>>
  BY DEF FinishSet, enumVars
<1>2. guiCall.dev \in Infos /\ guiCall.dev # NoInfo
  BY <1>1, NoInfoIsNone DEF ReceiverTypes, DeviceIsThere
<1>3. ReceiverTypes'
  BY <1>1, <1>2 DEF ReceiverTypes, ReceiverTypeOK
<1>4. DeviceIsThere'
  BY <1>1, <1>2 DEF DeviceIsThere
<1>5. ScansAreApart'
  BY <1>1, NoScanKeeps DEF ButtonsEnabled
<1>6. TimeoutIsRemembered'
  BY <1>1 DEF TimeoutIsRemembered
<1>7. QED  BY <1>3, <1>4, <1>5, <1>6

LEMMA FinishExitKeeps ==
  ASSUME ReceiverInv, NEW b \in BOOLEAN, FinishExit(b)
  PROVE  ReceiverInv'
<1> USE DEF ReceiverInv
<1>1. /\ (b /\ sdrStep' = "none") \/ (~b /\ sdrStep' = sdrStep)
      /\ guiCall.call = "exit"
      /\ guiCall' = [guiCall EXCEPT !.call = IF b THEN "deleted" ELSE "killed"]
      /\ UNCHANGED <<deviceInfo, activeDev, stoppedDev, frameInfo, listed, scans, enumTerminated>>
      /\ UNCHANGED <<devicesReady, made, dialog, stopTimedOut>>
  BY DEF FinishExit, Joined, frameVars, enumVars
<1>2. /\ guiCall' \in [call : {"none", "stop", "refresh", "set", "exit", "killed", "deleted"},
                       dev : Infos \cup {NoInfo}, by : {"none", "frame", "dialog"}]
      /\ guiCall'.call = IF b THEN "deleted" ELSE "killed"
  <2>1. PICK call \in {"deleted", "killed"} : call = IF b THEN "deleted" ELSE "killed"
    OBVIOUS
  <2>2. guiCall' = [guiCall EXCEPT !.call = call]
    BY <1>1, <2>1
  <2>3. QED  BY <2>1, <2>2 DEF ReceiverTypes
<1>3. ReceiverTypes'
  BY <1>1, <1>2 DEF ReceiverTypes, ReceiverTypeOK
<1>4. DeviceIsThere'
  BY <1>1, <1>2 DEF DeviceIsThere
<1>5. ScansAreApart'
  BY <1>1, <1>2, NoScanKeeps DEF ButtonsEnabled
<1>6. TimeoutIsRemembered'
  BY <1>1, <1>2 DEF TimeoutIsRemembered
<1>7. QED  BY <1>3, <1>4, <1>5, <1>6

-----------------------------------------------------------------------------
(* Receiver: the main window and the device selector.                      *)

\* A click that makes the GUI thread wait for the SDR thread.
LEMMA TerminateKeeps ==
  ASSUME ReceiverInv, guiCall = NoCall,
         NEW call \in {"stop", "refresh", "set", "exit"}, NEW dev \in Infos \cup {NoInfo},
         NEW by \in {"frame", "dialog"}, Terminate(call, dev, by),
         UNCHANGED <<frameVars, enumVars, made, stopTimedOut>>,
         dialog' = dialog \/ dialog' = [dialog EXCEPT !.dev = NoInfo],
         call = "set" => dev # NoInfo, call = "refresh" => LastScan = "ended",
         call = "set" /\ by = "frame" => ~stopTimedOut
  PROVE  ReceiverInv'
<1> USE DEF ReceiverInv
<1>1. /\ UNCHANGED <<sdrStep, deviceInfo, activeDev, stoppedDev, frameInfo, listed, scans>>
      /\ UNCHANGED <<enumTerminated, devicesReady, made, stopTimedOut>>
      /\ guiCall' = [call |-> call, dev |-> dev, by |-> by]
  BY DEF Terminate, frameVars, enumVars
<1>2. /\ guiCall' \in [call : {"none", "stop", "refresh", "set", "exit", "killed", "deleted"},
                       dev : Infos \cup {NoInfo}, by : {"none", "frame", "dialog"}]
      /\ guiCall'.call = call /\ guiCall'.dev = dev /\ guiCall'.by = by
  BY <1>1
<1>3. /\ dialog' \in [open : BOOLEAN, refresh : BOOLEAN, dev : Infos \cup {NoInfo}]
      /\ dialog'.open = dialog.open /\ dialog'.refresh = dialog.refresh
  <2>1. dialog \in [open : BOOLEAN, refresh : BOOLEAN, dev : Infos \cup {NoInfo}]
    BY DEF ReceiverTypes
  <2>2. CASE dialog' = dialog
    BY <2>1, <2>2
  <2>3. CASE dialog' = [dialog EXCEPT !.dev = NoInfo]
    BY <2>1, <2>3
  <2>4. QED  BY <2>2, <2>3
<1>4. ReceiverTypes'
  BY <1>1, <1>2, <1>3 DEF ReceiverTypes, ReceiverTypeOK
<1>5. DeviceIsThere'
  BY <1>1, <1>2 DEF DeviceIsThere
<1>6. ScansAreApart'
  BY <1>1, <1>2, <1>3, NoScanKeeps DEF ButtonsEnabled
<1>7. TimeoutIsRemembered'
  BY <1>1, <1>2, NoCallIsACall DEF TimeoutIsRemembered
<1>8. QED  BY <1>4, <1>5, <1>6, <1>7

\* Start/Stop sets a device only when none is: no stop has timed out then.
LEMMA StartStopKeeps ==
  ASSUME ReceiverInv, StartStop
  PROVE  ReceiverInv'
<1>1. /\ guiCall = NoCall /\ UNCHANGED <<frameVars, enumVars, made, dialog, stopTimedOut>>
      /\ \/ Terminate("stop", NoInfo, "frame")
         \/ deviceInfo = NoInfo /\ GetDevice # NoInfo /\ Terminate("set", GetDevice, "frame")
         \/ UNCHANGED <<sdrVars, guiCall>>
  BY DEF StartStop, Click
<1>2. CASE Terminate("stop", NoInfo, "frame")
  BY <1>1, <1>2, TerminateKeeps
<1>3. CASE deviceInfo = NoInfo /\ GetDevice # NoInfo /\ Terminate("set", GetDevice, "frame")
  <2>1. GetDevice \in Infos
    BY <1>3 DEF GetDevice, ReceiverInv, ReceiverTypes, ReceiverTypeOK
  <2>2. ~stopTimedOut
    BY <1>1, <1>3, NoCallIsACall DEF ReceiverInv, TimeoutIsRemembered
  <2>3. QED  BY <1>1, <1>3, <2>1, <2>2, TerminateKeeps
<1>4. CASE UNCHANGED <<sdrVars, guiCall>>
  BY <1>1, <1>4 DEF ReceiverInv, ReceiverTypes, ReceiverTypeOK, DeviceIsThere, ScansAreApart,
                    LastScan, ButtonsEnabled, TimeoutIsRemembered, sdrVars, frameVars, enumVars
<1>5. QED  BY <1>1, <1>2, <1>3, <1>4

LEMMA OtherCallsKeep ==
  ASSUME ReceiverInv, OnExit \/ UseSelected \/ RefreshDevices
  PROVE  ReceiverInv'
<1>1. CASE OnExit
  BY <1>1, TerminateKeeps DEF OnExit, Click
<1>2. CASE UseSelected
  <2>1. dialog.dev \in Infos \cup {NoInfo}
    BY DEF ReceiverInv, ReceiverTypes
  <2>2. QED  BY <1>2, <2>1, TerminateKeeps DEF UseSelected, Click
<1>3. CASE RefreshDevices
  <2>1. LastScan = "ended"
    BY <1>3 DEF RefreshDevices, ReceiverInv, ScansAreApart
  <2>2. QED  BY <1>3, <2>1, TerminateKeeps DEF RefreshDevices, Click
<1>4. QED  BY <1>1, <1>2, <1>3

\* The dialog changes, while the SDR thread and the scans stay as they are; the buttons
\* are freed only when the last scan has ended.
LEMMA DialogKeeps ==
  ASSUME ReceiverInv, UNCHANGED <<sdrVars, frameInfo, stoppedDev, guiCall, stopTimedOut>>,
         UNCHANGED <<scans, enumTerminated, devicesReady>>,
         listed' \subseteq listed, made \subseteq made', made' \subseteq Infos,
         dialog' \in [open : BOOLEAN, refresh : BOOLEAN, dev : Infos \cup {NoInfo}],
         ButtonsEnabled' => LastScan = "ended"
  PROVE  ReceiverInv'
<1> USE DEF ReceiverInv, sdrVars
<1>1. ReceiverTypes'
  BY DEF ReceiverTypes, ReceiverTypeOK
<1>2. DeviceIsThere'
  BY DEF DeviceIsThere
<1>3. ScansAreApart'
  BY DEF ScansAreApart, LastScan
<1>4. TimeoutIsRemembered'
  BY DEF TimeoutIsRemembered
<1>5. QED  BY <1>1, <1>2, <1>3, <1>4

LEMMA SelectorKeeps ==
  ASSUME ReceiverInv, NEW b \in BOOLEAN, NEW info,
         \/ OnIdle(b) \/ DeviceSelector \/ OnDeviceTimer \/ SelectDevice(info)
         \/ RemoveManual \/ CloseSelector
  PROVE  ReceiverInv'
<1> USE ClosedIsADialog DEF enumVars, frameVars
<1>1. /\ dialog \in [open : BOOLEAN, refresh : BOOLEAN, dev : Infos \cup {NoInfo}]
      /\ made \subseteq Infos /\ listed \subseteq Infos /\ frameInfo \in Infos \cup {NoInfo}
      /\ ButtonsEnabled => LastScan = "ended"
  BY DEF ReceiverInv, ReceiverTypes, ReceiverTypeOK, ScansAreApart
<1>2. CASE OnIdle(b)
  BY <1>1, <1>2, DialogKeeps DEF OnIdle, ButtonsEnabled
<1>3. CASE DeviceSelector
  <2>1. dialog' \in [open : BOOLEAN, refresh : BOOLEAN, dev : Infos \cup {NoInfo}]
        /\ dialog'.refresh = TRUE
    BY <1>3 DEF DeviceSelector, ClosedDialog
  <2>2. QED  BY <1>1, <1>3, <2>1, DialogKeeps DEF DeviceSelector, ButtonsEnabled
<1>4. CASE OnDeviceTimer
  <2>1. LastScan = "ended"
    <3>1. LastScan \in ScanSteps
      <4>1. scans \in Seq(ScanSteps) /\ Len(scans) \in 1 .. Len(scans)
        BY ReceiverAssumption DEF ReceiverInv, ReceiverTypes, ScanSteps
      <4>2. QED  BY <4>1 DEF LastScan
    <3>2. QED  BY <1>4, <3>1 DEF OnDeviceTimer, ReceiverInv, ScansAreApart, ScanSteps
  <2>2. dialog' \in [open : BOOLEAN, refresh : BOOLEAN, dev : Infos \cup {NoInfo}]
    BY <1>1, <1>4 DEF OnDeviceTimer
  <2>3. QED  BY <1>1, <1>4, <2>1, <2>2, DialogKeeps DEF OnDeviceTimer
<1>5. CASE SelectDevice(info) \/ RemoveManual
  <2>1. /\ dialog' \in [open : BOOLEAN, refresh : BOOLEAN, dev : Infos \cup {NoInfo}]
        /\ dialog'.open = dialog.open /\ dialog'.refresh = dialog.refresh
    BY <1>1, <1>5 DEF SelectDevice, RemoveManual
  <2>2. QED  BY <1>1, <1>5, <2>1, DialogKeeps DEF SelectDevice, RemoveManual, ButtonsEnabled
<1>6. CASE CloseSelector
  BY <1>1, <1>6, DialogKeeps DEF CloseSelector, ButtonsEnabled
<1>7. QED  BY <1>2, <1>3, <1>4, <1>5, <1>6

LEMMA AddRemoteKeeps ==
  ASSUME ReceiverInv, AddRemote
  PROVE  ReceiverInv'
<1> USE NoCallIsACall DEF ReceiverInv, AddRemote, Click, sdrVars, frameVars
<1>1. /\ UNCHANGED <<sdrStep, deviceInfo, activeDev, stoppedDev, frameInfo, listed, made, guiCall>>
      /\ UNCHANGED stopTimedOut /\ StartScan /\ dialog' = [dialog EXCEPT !.refresh = TRUE]
      /\ guiCall.call # "refresh" /\ LastScan = "ended"
  BY DEF ScansAreApart
<1>2. /\ dialog' \in [open : BOOLEAN, refresh : BOOLEAN, dev : Infos \cup {NoInfo}]
      /\ ~ButtonsEnabled' /\ dialog'.dev = dialog.dev
  BY <1>1 DEF ReceiverTypes, ButtonsEnabled
<1>3. ScansAreApart' /\ scans' \in Seq(ScanSteps) /\ Len(scans') \in 1 .. MaxScans
  BY <1>1, <1>2, StartScanKeeps
<1>4. ReceiverTypes'
  BY <1>1, <1>2, <1>3 DEF ReceiverTypes, ReceiverTypeOK, ScanSteps
<1>5. DeviceIsThere'
  BY <1>1 DEF DeviceIsThere
<1>6. TimeoutIsRemembered'
  BY <1>1 DEF TimeoutIsRemembered
<1>7. QED  BY <1>3, <1>4, <1>5, <1>6

-----------------------------------------------------------------------------
(* Receiver: the theorems.                                                 *)

LEMMA ReceiverStarts ==
  ASSUME ReceiverInit
  PROVE  ReceiverInv
<1> USE NoCallIsACall, ClosedIsADialog, ReceiverAssumption DEF ReceiverInit
<1>1. scans \in Seq(ScanSteps) /\ Len(scans) = 1 /\ LastScan = "created"
  BY DEF ScanSteps, LastScan
<1>2. ReceiverTypes
  BY <1>1 DEF ReceiverTypes, ReceiverTypeOK, ScanSteps
<1>3. DeviceIsThere
  BY DEF DeviceIsThere
<1>4. ScansAreApart
  BY <1>1 DEF ScansAreApart, ButtonsEnabled
<1>5. TimeoutIsRemembered
  BY DEF TimeoutIsRemembered
<1>6. QED  BY <1>2, <1>3, <1>4, <1>5 DEF ReceiverInv

\* However devices are chosen, started, stopped, refreshed and lost, and however long the SDR
\* thread takes to stop: the flags tell how far the last scan is and that those before it
\* have ended, a thread has a device, and a stop that took too long leaves the device set.
THEOREM ReceiverInvariant == ReceiverSpec => []ReceiverInv
<1>1. ReceiverInit => ReceiverInv
  BY ReceiverStarts
<1>2. ReceiverInv /\ [ReceiverNext]_receiverVars => ReceiverInv'
  <2>1. SUFFICES ASSUME ReceiverInv, ReceiverNext \/ UNCHANGED receiverVars
                 PROVE  ReceiverInv'
    OBVIOUS
  <2>2. CASE \/ SDRStarts \/ SDREnds
             \/ \E b \in BOOLEAN : SDRInit(b) \/ SDRLoop(b)
             \/ \E k \in DOMAIN scans : Scan(k)
    <3>1. TRUE \in BOOLEAN
      OBVIOUS
    <3>2. QED  BY <2>1, <2>2, <3>1, SDRKeeps, ScanKeeps
  <2>3. CASE \/ \E b \in BOOLEAN : FinishSet(b) \/ FinishExit(b)
             \/ WaitTimesOut \/ FinishStop \/ FinishRefresh
    BY <2>1, <2>3, FinishSetKeeps, FinishExitKeeps, WaitTimesOutKeeps, FinishStopKeeps,
       FinishRefreshKeeps
  <2>4. CASE StartStop \/ OnExit \/ UseSelected \/ RefreshDevices \/ AddRemote
    BY <2>1, <2>4, StartStopKeeps, OtherCallsKeep, AddRemoteKeeps
  <2>5. CASE \/ \E b \in BOOLEAN : OnIdle(b)
             \/ DeviceSelector \/ OnDeviceTimer \/ \E info \in Infos : SelectDevice(info)
             \/ RemoveManual \/ CloseSelector
    <3>1. TRUE \in BOOLEAN
      OBVIOUS
    <3>2. QED  BY <2>1, <2>5, <3>1, SelectorKeeps
  <2>6. CASE UNCHANGED receiverVars
    BY <2>1, <2>6 DEF receiverVars, sdrVars, frameVars, enumVars, ReceiverInv, ReceiverTypes,
       ReceiverTypeOK, DeviceIsThere, ScansAreApart, LastScan, ButtonsEnabled, TimeoutIsRemembered
  <2>7. QED  BY <2>1, <2>2, <2>3, <2>4, <2>5, <2>6 DEF ReceiverNext
<1>3. QED  BY <1>1, <1>2, PTL DEF ReceiverSpec

\* Devices are those that scans have found, and calls and steps are those there are.
THEOREM ReceiverTypeCorrect == ReceiverSpec => []ReceiverTypeOK
<1>1. ReceiverInv => ReceiverTypeOK
  BY DEF ReceiverInv, ReceiverTypes
<1>2. QED  BY <1>1, ReceiverInvariant, PTL

\* The device that is received from has its handle, no thread outlives a clean exit, one scan
\* runs at a time and none while the list can be chosen from, and Start/Stop after a stop that
\* took too long never starts: whatever devices there are and however often scans are started.
THEOREM ReceiverSafe == ReceiverSpec => []ReceiverIsSafe
<1>1. ReceiverInv => ReceiverIsSafe
  <2>1. SUFFICES ASSUME ReceiverInv PROVE ReceiverIsSafe
    OBVIOUS
  <2>2. DeviceInUseIsMade
    BY <2>1 DEF DeviceInUseIsMade, ReceiverInv, DeviceIsThere
  <2>3. OneScanAtATime
    <3>1. /\ DOMAIN scans = 1 .. Len(scans) /\ Len(scans) \in Nat
          /\ \A k \in 1 .. Len(scans) - 1 : scans[k] = "ended"
          /\ ButtonsEnabled => scans[Len(scans)] = "ended"
      BY <2>1 DEF ReceiverInv, ReceiverTypes, ScansAreApart, LastScan
    <3>2. \A k \in DOMAIN scans : k # Len(scans) => scans[k] = "ended"
      BY <3>1
    <3>3. QED  BY <3>1, <3>2 DEF OneScanAtATime
  <2>4. RetryNeverStarts
    BY <2>1 DEF RetryNeverStarts, ReceiverInv, TimeoutIsRemembered
  <2>5. QED  BY <2>2, <2>3, <2>4 DEF ReceiverIsSafe
<1>2. QED  BY <1>1, ReceiverInvariant, PTL

-----------------------------------------------------------------------------
(* DeviceSettings: the invariant.                                          *)

KindSet == {"antenna", "offset", "rate", "ppm", "freq", "agc", "gain", "setting"}

\* Where the thread can be.
Cleared == {"antenna", "offset", "rate", "ppm", "freq", "agc"}
Positions ==
    {Stopped, At("none", "created"), At("none", "init"), At("setting", "init")}
    \cup {At(k, "test") : k \in KindSet} \cup {At(k, "clear") : k \in Cleared}
    \cup {At("offset", "store"), At("rate", "reread"), At("freq", "lock"), At("agc", "reread"),
          At("agc", "reapply")}
Running == at.phase \notin {"stopped", "created", "init"}

\* The types, as far as they matter.
SettingsTypes ==
    /\ at \in Positions
    /\ changed \subseteq KindSet /\ raced \subseteq KindSet \cup {"lock"}
    /\ wanted = [k \in KindSet |-> wanted[k]] /\ applied = [k \in KindSet |-> applied[k]]
    /\ wanted.agc \in BOOLEAN /\ wanted.freq \in Nat /\ wanted.rate \in Nat \ {0, 1}
    /\ frequencyLock \in [locked : BOOLEAN, init : BOOLEAN, freq : Nat]
    /\ keptFrequency \in Nat

\* The value of this kind is the one applied, unless a setter came in between.
Applied(kind) ==
    /\ kind \notin raced
    /\ kind \notin changed \/ at = At(kind, "clear") \/ (kind = "rate" /\ at = At("rate", "reread"))
    => applied[kind] = wanted[kind]

\* Without AGC the device has the gain that is shown, once it was read from the device.
GainIsApplied ==
    /\ ~wanted.agc /\ {"agc", "gain"} \cap (changed \cup raced) = {}
    /\ at # At("agc", "reread")
    => applied.gain = wanted.gain

\* A new offset is followed by a new setting of the frequency.
OffsetSetsFrequency ==
    /\ at # Stopped => wanted.freq # 0
    /\ at = At("offset", "store") /\ keptFrequency = 0 => "freq" \in changed
    /\ at = At("offset", "clear") => "freq" \in changed

\* A lock that is done is the one on the device ...
LockIsApplied ==
    /\ "lock" \notin raced /\ frequencyLock.locked
    /\ at = At("freq", "lock") \/ (frequencyLock.init /\ ~relock /\ Running)
    => applied.freq = frequencyLock.freq

\* ... and one without a flag is done.
LockIsDone ==
    /\ "lock" \notin raced /\ frequencyLock.locked
    /\ "freq" \notin changed \/ at = At("freq", "clear")
    => frequencyLock.init

\* While a lock is carried out it is only given up in between.
LockIsHeld ==
    at = At("freq", "lock") /\ ~frequencyLock.locked => "freq" \in raced

FrequencyIsApplied ==
    /\ at # Stopped /\ ~frequencyLock.locked
    /\ {"freq", "offset"} \cap raced = {} /\ "offset" \notin changed
    /\ "freq" \notin changed \/ at = At("freq", "clear")
    => applied.freq = wanted.freq - wanted.offset

SettingsInv ==
    /\ SettingsTypes
    /\ Applied("antenna") /\ Applied("rate") /\ Applied("agc") /\ Applied("setting")
    /\ HasPPM => Applied("ppm")
    /\ GainIsApplied
    /\ OffsetSetsFrequency /\ LockIsApplied /\ LockIsDone /\ LockIsHeld /\ FrequencyIsApplied

-----------------------------------------------------------------------------
(* DeviceSettings: what the steps of the proof use.                        *)

\* The kinds are these, and what follows one of them is one of them.
LEMMA KindsAre == ToSet(Kinds) = KindSet
  BY DEF ToSet, Kinds, KindSet

LEMMA NextPosition ==
  ASSUME at.kind \in KindSet
  PROVE  \E k \in KindSet : NextKind = At(k, "test")
<1> DEFINE i == CHOOSE i \in DOMAIN Kinds : Kinds[i] = at.kind
<1>1. DOMAIN Kinds = 1 .. 8 /\ Len(Kinds) = 8
  BY DEF Kinds
<1>2. i \in 1 .. 8
  <2>1. \E j \in DOMAIN Kinds : Kinds[j] = at.kind
    BY KindsAre DEF ToSet
  <2> QED  BY <1>1, <2>1
<1>3. \A j \in 1 .. 8 : Kinds[j] \in KindSet
  BY DEF Kinds, KindSet
<1>4. NextKind = IF i = 8 THEN FirstKind ELSE At(Kinds[i + 1], "test")
  BY <1>1 DEF NextKind
<1> HIDE DEF i
<1>5. CASE i = 8
  BY <1>4, <1>5 DEF FirstKind, KindSet
<1>6. CASE i # 8
  <2>1. i + 1 \in 1 .. 8
    BY <1>2, <1>6
  <2> QED  BY <1>3, <1>4, <1>6, <2>1
<1>7. QED  BY <1>5, <1>6

\* A frequency is never below half of the rate, and so never 0.
LEMMA Clamped ==
  ASSUME NEW freq \in Nat, NEW rate \in Nat \ {0, 1}
  PROVE  Clamp(freq, rate) \in Nat \ {0}
  BY DEF Clamp

LEMMA Offers ==
  \A k \in {"antenna", "offset", "ppm", "rate", "freq", "gain", "setting"} :
     Offered[k] \subseteq Nat /\ Defaults[k] \in Nat
  BY DeviceSettingsAssumption

LEMMA Rates == Offered.rate \subseteq Nat \ {0, 1} /\ Defaults.rate \in Nat \ {0, 1}
  BY DeviceSettingsAssumption

\* Where the thread is, by the phase of its step.
LEMMA Where ==
  ASSUME at \in Positions
  PROVE  /\ at = [kind |-> at.kind, phase |-> at.phase]
         /\ at.kind \in KindSet \cup {"none"}
         /\ at.phase = "test" => at.kind \in KindSet
         /\ at.phase = "clear" => at.kind \in Cleared
         /\ at.phase = "store" => at.kind = "offset"
         /\ at.phase = "lock" => at.kind = "freq"
         /\ at.phase = "reapply" => at.kind = "agc"
         /\ at.phase = "reread" => at.kind \in {"rate", "agc"}
         /\ at.phase = "stopped" => at.kind = "none"
         /\ at.phase = "created" => at.kind = "none"
         /\ at.phase = "init" => at.kind \in {"none", "setting"}
         /\ at.phase \in {"stopped", "created", "init", "test", "clear", "store", "reread", "lock",
                          "reapply"}
  BY DEF Positions, At, Stopped, Cleared, KindSet

-----------------------------------------------------------------------------
(* DeviceSettings: every step keeps the invariant.                         *)

LEMMA SetValueKeeps ==
  ASSUME SettingsInv, NEW kind \in {"antenna", "offset", "ppm"}, NEW value \in Offered[kind], SetValue(kind, value)
  PROVE  SettingsInv'
<1> USE Where DEF SettingsInv, SettingsTypes, KindSet, At, Stopped, FirstKind, SetValue, Choose, Note,
        InWindow
<1>1. SettingsTypes'
  BY Offers, Rates DEF Positions, Cleared
<1>2. (Applied("antenna") /\ Applied("rate") /\ Applied("agc") /\ Applied("setting"))'
  BY DEF Applied
<1>3. (HasPPM => Applied("ppm"))'
  BY DEF Applied
<1>4. GainIsApplied'
  BY DEF GainIsApplied
<1>5. OffsetSetsFrequency'
  BY DEF OffsetSetsFrequency
<1>6. LockIsApplied'
  BY DEF LockIsApplied, LockIsDone, Running
<1>7. LockIsDone'
  BY DEF LockIsDone
<1>8. LockIsHeld'
  BY DEF LockIsHeld
<1>9. FrequencyIsApplied'
  BY DEF FrequencyIsApplied, OffsetSetsFrequency, LockIsHeld
<1>10. QED  BY <1>1, <1>2, <1>3, <1>4, <1>5, <1>6, <1>7, <1>8, <1>9 DEF SettingsInv

LEMMA SetAGCKeeps ==
  ASSUME SettingsInv, NEW mode \in BOOLEAN, SetValue("agc", mode)
  PROVE  SettingsInv'
<1> USE Where DEF SettingsInv, SettingsTypes, KindSet, At, Stopped, FirstKind, SetValue, Choose, Note,
        InWindow
<1>1. SettingsTypes'
  BY Offers, Rates DEF Positions, Cleared
<1>2. (Applied("antenna") /\ Applied("rate") /\ Applied("agc") /\ Applied("setting"))'
  BY DEF Applied
<1>3. (HasPPM => Applied("ppm"))'
  BY DEF Applied
<1>4. GainIsApplied'
  BY DEF GainIsApplied
<1>5. OffsetSetsFrequency'
  BY DEF OffsetSetsFrequency
<1>6. LockIsApplied'
  BY DEF LockIsApplied, LockIsDone, Running
<1>7. LockIsDone'
  BY DEF LockIsDone
<1>8. LockIsHeld'
  BY DEF LockIsHeld
<1>9. FrequencyIsApplied'
  BY DEF FrequencyIsApplied, OffsetSetsFrequency, LockIsHeld
<1>10. QED  BY <1>1, <1>2, <1>3, <1>4, <1>5, <1>6, <1>7, <1>8, <1>9 DEF SettingsInv

LEMMA SetFrequencyKeeps ==
  ASSUME SettingsInv, NEW freq \in Offered.freq, SetFrequency(freq)
  PROVE  SettingsInv'
<1>1. Clamp(freq, wanted.rate) \in Nat \ {0}
  BY Clamped, Offers, Rates DEF SettingsInv, SettingsTypes
<1> USE <1>1, Where DEF SettingsInv, SettingsTypes, KindSet, At, Stopped, FirstKind, SetFrequency, Choose,
        Note, InWindow
<1>2. SettingsTypes'
  BY Offers, Rates DEF Positions, Cleared
<1>3. (Applied("antenna") /\ Applied("rate") /\ Applied("agc") /\ Applied("setting"))'
  BY DEF Applied
<1>4. (HasPPM => Applied("ppm"))'
  BY DEF Applied
<1>5. GainIsApplied'
  BY DEF GainIsApplied
<1>6. OffsetSetsFrequency'
  BY DEF OffsetSetsFrequency
<1>7. LockIsApplied'
  BY DEF LockIsApplied, LockIsDone, Running
<1>8. LockIsDone'
  BY DEF LockIsDone
<1>9. LockIsHeld'
  BY DEF LockIsHeld
<1>10. FrequencyIsApplied'
  BY DEF FrequencyIsApplied, OffsetSetsFrequency, LockIsHeld
<1>11. QED  BY <1>2, <1>3, <1>4, <1>5, <1>6, <1>7, <1>8, <1>9, <1>10 DEF SettingsInv

LEMMA SetSampleRateKeeps ==
  ASSUME SettingsInv, NEW rate \in Offered.rate, SetSampleRate(rate)
  PROVE  SettingsInv'
<1>1. Clamp(wanted.freq, rate) \in Nat \ {0}
  BY Clamped, Offers, Rates DEF SettingsInv, SettingsTypes
<1> USE <1>1, Where DEF SettingsInv, SettingsTypes, KindSet, At, Stopped, FirstKind, SetSampleRate, Choose,
        Note, InWindow
<1>2. SettingsTypes'
  BY Offers, Rates DEF Positions, Cleared
<1>3. (Applied("antenna") /\ Applied("rate") /\ Applied("agc") /\ Applied("setting"))'
  BY DEF Applied
<1>4. (HasPPM => Applied("ppm"))'
  BY DEF Applied
<1>5. GainIsApplied'
  BY DEF GainIsApplied
<1>6. OffsetSetsFrequency'
  BY DEF OffsetSetsFrequency
<1>7. LockIsApplied'
  BY DEF LockIsApplied, LockIsDone, Running
<1>8. LockIsDone'
  BY DEF LockIsDone
<1>9. LockIsHeld'
  BY DEF LockIsHeld
<1>10. FrequencyIsApplied'
  BY DEF FrequencyIsApplied, OffsetSetsFrequency, LockIsHeld
<1>11. QED  BY <1>2, <1>3, <1>4, <1>5, <1>6, <1>7, <1>8, <1>9, <1>10 DEF SettingsInv

LEMMA ChooseLockKeeps ==
  ASSUME SettingsInv, NEW freq \in Offered.freq, ChooseLock(freq)
  PROVE  SettingsInv'
<1>1. Clamp(freq, wanted.rate) \in Nat \ {0}
  BY Clamped, Offers, Rates DEF SettingsInv, SettingsTypes
<1> USE <1>1, Where DEF SettingsInv, SettingsTypes, KindSet, At, Stopped, FirstKind, ChooseLock,
        LockFrequency, Choose, Note, InWindow
<1>2. SettingsTypes'
  BY Offers, Rates DEF Positions, Cleared
<1>3. (Applied("antenna") /\ Applied("rate") /\ Applied("agc") /\ Applied("setting"))'
  BY DEF Applied
<1>4. (HasPPM => Applied("ppm"))'
  BY DEF Applied
<1>5. GainIsApplied'
  BY DEF GainIsApplied
<1>6. OffsetSetsFrequency'
  BY DEF OffsetSetsFrequency
<1>7. LockIsApplied'
  BY DEF LockIsApplied, LockIsDone, Running
<1>8. LockIsDone'
  BY DEF LockIsDone
<1>9. LockIsHeld'
  BY DEF LockIsHeld
<1>10. FrequencyIsApplied'
  BY DEF FrequencyIsApplied, OffsetSetsFrequency, LockIsHeld
<1>11. QED  BY <1>2, <1>3, <1>4, <1>5, <1>6, <1>7, <1>8, <1>9, <1>10 DEF SettingsInv

LEMMA UnlockFrequencyKeeps ==
  ASSUME SettingsInv, UnlockFrequency
  PROVE  SettingsInv'
<1> USE Where DEF SettingsInv, SettingsTypes, KindSet, At, Stopped, FirstKind, UnlockFrequency, Choose,
        Note, InWindow
<1>1. SettingsTypes'
  BY Offers, Rates DEF Positions, Cleared
<1>2. (Applied("antenna") /\ Applied("rate") /\ Applied("agc") /\ Applied("setting"))'
  BY DEF Applied
<1>3. (HasPPM => Applied("ppm"))'
  BY DEF Applied
<1>4. GainIsApplied'
  BY DEF GainIsApplied
<1>5. OffsetSetsFrequency'
  BY DEF OffsetSetsFrequency
<1>6. LockIsApplied'
  BY DEF LockIsApplied, LockIsDone, Running
<1>7. LockIsDone'
  BY DEF LockIsDone
<1>8. LockIsHeld'
  BY DEF LockIsHeld
<1>9. FrequencyIsApplied'
  BY DEF FrequencyIsApplied, OffsetSetsFrequency, LockIsHeld
<1>10. QED  BY <1>1, <1>2, <1>3, <1>4, <1>5, <1>6, <1>7, <1>8, <1>9 DEF SettingsInv

LEMMA SetGainKeeps ==
  ASSUME SettingsInv, NEW value \in Offered.gain, SetGain(value)
  PROVE  SettingsInv'
<1> USE Where DEF SettingsInv, SettingsTypes, KindSet, At, Stopped, FirstKind, SetGain, Choose, Note,
        InWindow
<1>1. SettingsTypes'
  BY Offers, Rates DEF Positions, Cleared
<1>2. (Applied("antenna") /\ Applied("rate") /\ Applied("agc") /\ Applied("setting"))'
  BY DEF Applied
<1>3. (HasPPM => Applied("ppm"))'
  BY DEF Applied
<1>4. GainIsApplied'
  BY DEF GainIsApplied
<1>5. OffsetSetsFrequency'
  BY DEF OffsetSetsFrequency
<1>6. LockIsApplied'
  BY DEF LockIsApplied, LockIsDone, Running
<1>7. LockIsDone'
  BY DEF LockIsDone
<1>8. LockIsHeld'
  BY DEF LockIsHeld
<1>9. FrequencyIsApplied'
  BY DEF FrequencyIsApplied, OffsetSetsFrequency, LockIsHeld
<1>10. QED  BY <1>1, <1>2, <1>3, <1>4, <1>5, <1>6, <1>7, <1>8, <1>9 DEF SettingsInv

LEMMA WriteSettingKeeps ==
  ASSUME SettingsInv, NEW value \in Offered.setting, WriteSetting(value)
  PROVE  SettingsInv'
<1> USE Where DEF SettingsInv, SettingsTypes, KindSet, At, Stopped, FirstKind, WriteSetting, Choose, Note,
        InWindow
<1>1. SettingsTypes'
  BY Offers, Rates DEF Positions, Cleared
<1>2. (Applied("antenna") /\ Applied("rate") /\ Applied("agc") /\ Applied("setting"))'
  BY DEF Applied
<1>3. (HasPPM => Applied("ppm"))'
  BY DEF Applied
<1>4. GainIsApplied'
  BY DEF GainIsApplied
<1>5. OffsetSetsFrequency'
  BY DEF OffsetSetsFrequency
<1>6. LockIsApplied'
  BY DEF LockIsApplied, LockIsDone, Running
<1>7. LockIsDone'
  BY DEF LockIsDone
<1>8. LockIsHeld'
  BY DEF LockIsHeld
<1>9. FrequencyIsApplied'
  BY DEF FrequencyIsApplied, OffsetSetsFrequency, LockIsHeld
<1>10. QED  BY <1>1, <1>2, <1>3, <1>4, <1>5, <1>6, <1>7, <1>8, <1>9 DEF SettingsInv

LEMMA UpdateGainValuesKeeps ==
  ASSUME SettingsInv, UpdateGainValues
  PROVE  SettingsInv'
<1> USE Where DEF SettingsInv, SettingsTypes, KindSet, At, Stopped, FirstKind, UpdateGainValues
<1>1. SettingsTypes'
  BY Offers, Rates DEF Positions, Cleared
<1>2. (Applied("antenna") /\ Applied("rate") /\ Applied("agc") /\ Applied("setting"))'
  BY DEF Applied
<1>3. (HasPPM => Applied("ppm"))'
  BY DEF Applied
<1>4. GainIsApplied'
  BY DEF GainIsApplied
<1>5. OffsetSetsFrequency'
  BY DEF OffsetSetsFrequency
<1>6. LockIsApplied'
  BY DEF LockIsApplied, LockIsDone, Running
<1>7. LockIsDone'
  BY DEF LockIsDone
<1>8. LockIsHeld'
  BY DEF LockIsHeld
<1>9. FrequencyIsApplied'
  BY DEF FrequencyIsApplied, OffsetSetsFrequency, LockIsHeld
<1>10. QED  BY <1>1, <1>2, <1>3, <1>4, <1>5, <1>6, <1>7, <1>8, <1>9 DEF SettingsInv

LEMMA RelockKeeps ==
  ASSUME SettingsInv, Relock
  PROVE  SettingsInv'
<1>1. Clamp(frequencyLock.freq, wanted.rate) \in Nat \ {0}
  BY Clamped, Offers, Rates DEF SettingsInv, SettingsTypes
<1> USE <1>1, Where DEF SettingsInv, SettingsTypes, KindSet, At, Stopped, FirstKind, Relock, LockFrequency,
        Note, InWindow
<1>2. SettingsTypes'
  <2>1. CASE frequencyLock.locked /\ at # Stopped
    <3>1. /\ frequencyLock' = [locked |-> TRUE, init |-> FALSE, freq |-> frequencyLock.freq]
          /\ changed' = changed \cup {"freq"}
          /\ UNCHANGED <<at, applied, keptFrequency>>
      BY <2>1
    <3>2. wanted' = [wanted EXCEPT !.freq = Clamp(frequencyLock.freq, wanted.rate)]
      BY <2>1
    <3>3. frequencyLock.freq \in Nat
      OBVIOUS
    <3>4. QED  BY <3>1, <3>2, <3>3
  <2>2. CASE ~(frequencyLock.locked /\ at # Stopped)
    BY <2>2
  <2>3. QED  BY <2>1, <2>2
<1>3. (Applied("antenna") /\ Applied("rate") /\ Applied("agc") /\ Applied("setting"))'
  BY DEF Applied
<1>4. (HasPPM => Applied("ppm"))'
  BY DEF Applied
<1>5. GainIsApplied'
  BY DEF GainIsApplied
<1>6. OffsetSetsFrequency'
  BY DEF OffsetSetsFrequency
<1>7. LockIsApplied'
  BY DEF LockIsApplied, LockIsDone, Running
<1>8. LockIsDone'
  BY DEF LockIsDone
<1>9. LockIsHeld'
  BY DEF LockIsHeld
<1>10. FrequencyIsApplied'
  BY DEF FrequencyIsApplied, OffsetSetsFrequency, LockIsHeld
<1>11. QED  BY <1>2, <1>3, <1>4, <1>5, <1>6, <1>7, <1>8, <1>9, <1>10 DEF SettingsInv

LEMMA StartDeviceKeeps ==
  ASSUME SettingsInv, StartDevice
  PROVE  SettingsInv'
<1>1. Clamp(wanted.freq, wanted.rate) \in Nat \ {0}
  BY Clamped, Offers, Rates DEF SettingsInv, SettingsTypes
<1> USE <1>1, Where DEF SettingsInv, SettingsTypes, KindSet, At, Stopped, FirstKind, StartDevice
<1>2. SettingsTypes'
  BY Offers, Rates DEF Positions, Cleared
<1>3. (Applied("antenna") /\ Applied("rate") /\ Applied("agc") /\ Applied("setting"))'
  BY DEF Applied
<1>4. (HasPPM => Applied("ppm"))'
  BY DEF Applied
<1>5. GainIsApplied'
  BY DEF GainIsApplied
<1>6. OffsetSetsFrequency'
  BY DEF OffsetSetsFrequency
<1>7. LockIsApplied'
  BY DEF LockIsApplied, LockIsDone, Running
<1>8. LockIsDone'
  BY DEF LockIsDone
<1>9. LockIsHeld'
  BY DEF LockIsHeld
<1>10. FrequencyIsApplied'
  BY DEF FrequencyIsApplied, OffsetSetsFrequency, LockIsHeld
<1>11. QED  BY <1>2, <1>3, <1>4, <1>5, <1>6, <1>7, <1>8, <1>9, <1>10 DEF SettingsInv

LEMMA InitDeviceKeeps ==
  ASSUME SettingsInv, InitDevice
  PROVE  SettingsInv'
<1> USE Where DEF SettingsInv, SettingsTypes, KindSet, At, Stopped, FirstKind, InitDevice
<1>1. SettingsTypes'
  BY Offers, Rates DEF Positions, Cleared
<1>2. (Applied("antenna") /\ Applied("rate") /\ Applied("agc") /\ Applied("setting"))'
  BY DEF Applied
<1>3. (HasPPM => Applied("ppm"))'
  BY DEF Applied
<1>4. GainIsApplied'
  BY DEF GainIsApplied
<1>5. OffsetSetsFrequency'
  BY DEF OffsetSetsFrequency
<1>6. LockIsApplied'
  BY DEF LockIsApplied, LockIsDone, Running
<1>7. LockIsDone'
  BY DEF LockIsDone
<1>8. LockIsHeld'
  BY DEF LockIsHeld
<1>9. FrequencyIsApplied'
  BY DEF FrequencyIsApplied, OffsetSetsFrequency, LockIsHeld
<1>10. QED  BY <1>1, <1>2, <1>3, <1>4, <1>5, <1>6, <1>7, <1>8, <1>9 DEF SettingsInv

LEMMA InitSettingsKeeps ==
  ASSUME SettingsInv, InitSettings
  PROVE  SettingsInv'
<1> USE Where DEF SettingsInv, SettingsTypes, KindSet, At, Stopped, FirstKind, InitSettings
<1>1. SettingsTypes'
  BY Offers, Rates DEF Positions, Cleared
<1>2. (Applied("antenna") /\ Applied("rate") /\ Applied("agc") /\ Applied("setting"))'
  BY DEF Applied
<1>3. (HasPPM => Applied("ppm"))'
  BY DEF Applied
<1>4. GainIsApplied'
  BY DEF GainIsApplied
<1>5. OffsetSetsFrequency'
  BY DEF OffsetSetsFrequency
<1>6. LockIsApplied'
  BY DEF LockIsApplied, LockIsDone, Running
<1>7. LockIsDone'
  BY DEF LockIsDone
<1>8. LockIsHeld'
  BY DEF LockIsHeld
<1>9. FrequencyIsApplied'
  BY DEF FrequencyIsApplied, OffsetSetsFrequency, LockIsHeld
<1>10. QED  BY <1>1, <1>2, <1>3, <1>4, <1>5, <1>6, <1>7, <1>8, <1>9 DEF SettingsInv

LEMMA AskStopKeeps ==
  ASSUME SettingsInv, AskStop
  PROVE  SettingsInv'
<1> USE Where DEF SettingsInv, SettingsTypes, KindSet, At, Stopped, FirstKind, AskStop
<1>1. SettingsTypes'
  BY Offers, Rates DEF Positions, Cleared
<1>2. (Applied("antenna") /\ Applied("rate") /\ Applied("agc") /\ Applied("setting"))'
  BY DEF Applied
<1>3. (HasPPM => Applied("ppm"))'
  BY DEF Applied
<1>4. GainIsApplied'
  BY DEF GainIsApplied
<1>5. OffsetSetsFrequency'
  BY DEF OffsetSetsFrequency
<1>6. LockIsApplied'
  BY DEF LockIsApplied, LockIsDone, Running
<1>7. LockIsDone'
  BY DEF LockIsDone
<1>8. LockIsHeld'
  BY DEF LockIsHeld
<1>9. FrequencyIsApplied'
  BY DEF FrequencyIsApplied, OffsetSetsFrequency, LockIsHeld
<1>10. QED  BY <1>1, <1>2, <1>3, <1>4, <1>5, <1>6, <1>7, <1>8, <1>9 DEF SettingsInv

LEMMA StopDeviceKeeps ==
  ASSUME SettingsInv, StopDevice
  PROVE  SettingsInv'
<1> USE Where DEF SettingsInv, SettingsTypes, KindSet, At, Stopped, FirstKind, StopDevice
<1>1. SettingsTypes'
  BY Offers, Rates DEF Positions, Cleared
<1>2. (Applied("antenna") /\ Applied("rate") /\ Applied("agc") /\ Applied("setting"))'
  BY DEF Applied
<1>3. (HasPPM => Applied("ppm"))'
  BY DEF Applied
<1>4. GainIsApplied'
  BY DEF GainIsApplied
<1>5. OffsetSetsFrequency'
  BY DEF OffsetSetsFrequency
<1>6. LockIsApplied'
  BY DEF LockIsApplied, LockIsDone, Running
<1>7. LockIsDone'
  BY DEF LockIsDone
<1>8. LockIsHeld'
  BY DEF LockIsHeld
<1>9. FrequencyIsApplied'
  BY DEF FrequencyIsApplied, OffsetSetsFrequency, LockIsHeld
<1>10. QED  BY <1>1, <1>2, <1>3, <1>4, <1>5, <1>6, <1>7, <1>8, <1>9 DEF SettingsInv

LEMMA SkipUnchangedKeeps ==
  ASSUME SettingsInv, SkipUnchanged
  PROVE  SettingsInv'
<1>1. PICK k \in KindSet : NextKind = [kind |-> k, phase |-> "test"]
  BY Where, NextPosition DEF SkipUnchanged, SettingsInv, SettingsTypes, At, KindSet
<1> USE <1>1, Where DEF SettingsInv, SettingsTypes, KindSet, At, Stopped, FirstKind, SkipUnchanged,
        outsideUpdate
<1>2. SettingsTypes'
  BY Offers, Rates DEF Positions, Cleared
<1>3. (Applied("antenna") /\ Applied("rate") /\ Applied("agc") /\ Applied("setting"))'
  BY DEF Applied
<1>4. (HasPPM => Applied("ppm"))'
  BY DEF Applied
<1>5. GainIsApplied'
  BY DEF GainIsApplied
<1>6. OffsetSetsFrequency'
  BY DEF OffsetSetsFrequency
<1>7. LockIsApplied'
  BY DEF LockIsApplied, LockIsDone, Running
<1>8. LockIsDone'
  BY DEF LockIsDone
<1>9. LockIsHeld'
  BY DEF LockIsHeld
<1>10. FrequencyIsApplied'
  BY DEF FrequencyIsApplied, OffsetSetsFrequency, LockIsHeld
<1>11. QED  BY <1>2, <1>3, <1>4, <1>5, <1>6, <1>7, <1>8, <1>9, <1>10 DEF SettingsInv

LEMMA ClearFlagKeeps ==
  ASSUME SettingsInv, ClearFlag
  PROVE  SettingsInv'
<1>1. PICK k \in KindSet : NextKind = [kind |-> k, phase |-> "test"]
  BY Where, NextPosition DEF ClearFlag, SettingsInv, SettingsTypes, At, Cleared, KindSet
<1> USE <1>1, Where DEF SettingsInv, SettingsTypes, KindSet, At, Stopped, FirstKind, ClearFlag,
        outsideUpdate
<1>2. SettingsTypes'
  <2>1. at' = [kind |-> "agc", phase |-> "reread"] \/ at' = [kind |-> k, phase |-> "test"]
    OBVIOUS
  <2>2. at' \in Positions
    BY <2>1 DEF Positions
  <2>3. QED  BY <2>2
<1>3. (Applied("antenna") /\ Applied("rate") /\ Applied("agc") /\ Applied("setting"))'
  <2>1. ASSUME NEW kind \in {"antenna", "rate", "agc", "setting"}
        PROVE  Applied(kind)'
    BY <2>1 DEF Applied, Cleared
  <2>2. QED  BY <2>1
<1>4. (HasPPM => Applied("ppm"))'
  BY DEF Applied
<1>5. GainIsApplied'
  BY DEF GainIsApplied, Cleared
<1>6. OffsetSetsFrequency'
  BY DEF OffsetSetsFrequency
<1>7. LockIsApplied'
  BY DEF LockIsApplied, LockIsDone, Running
<1>8. LockIsDone'
  BY DEF LockIsDone
<1>9. LockIsHeld'
  BY DEF LockIsHeld
<1>10. FrequencyIsApplied'
  BY DEF FrequencyIsApplied, OffsetSetsFrequency, LockIsHeld
<1>11. QED  BY <1>2, <1>3, <1>4, <1>5, <1>6, <1>7, <1>8, <1>9, <1>10 DEF SettingsInv

LEMMA UpdateAntennaKeeps ==
  ASSUME SettingsInv, UpdateAntenna
  PROVE  SettingsInv'
<1> USE Where DEF SettingsInv, SettingsTypes, KindSet, At, Stopped, FirstKind, UpdateAntenna, Testing,
        outsideUpdate
<1>1. SettingsTypes'
  BY Offers, Rates DEF Positions, Cleared
<1>2. (Applied("antenna") /\ Applied("rate") /\ Applied("agc") /\ Applied("setting"))'
  BY DEF Applied
<1>3. (HasPPM => Applied("ppm"))'
  BY DEF Applied
<1>4. GainIsApplied'
  BY DEF GainIsApplied
<1>5. OffsetSetsFrequency'
  BY DEF OffsetSetsFrequency
<1>6. LockIsApplied'
  BY DEF LockIsApplied, LockIsDone, Running
<1>7. LockIsDone'
  BY DEF LockIsDone
<1>8. LockIsHeld'
  BY DEF LockIsHeld
<1>9. FrequencyIsApplied'
  BY DEF FrequencyIsApplied, OffsetSetsFrequency, LockIsHeld
<1>10. QED  BY <1>1, <1>2, <1>3, <1>4, <1>5, <1>6, <1>7, <1>8, <1>9 DEF SettingsInv

LEMMA UpdateOffsetKeeps ==
  ASSUME SettingsInv, UpdateOffset
  PROVE  SettingsInv'
<1> USE Where DEF SettingsInv, SettingsTypes, KindSet, At, Stopped, FirstKind, UpdateOffset, Testing,
        outsideUpdate
<1>1. SettingsTypes'
  BY Offers, Rates DEF Positions, Cleared
<1>2. (Applied("antenna") /\ Applied("rate") /\ Applied("agc") /\ Applied("setting"))'
  BY DEF Applied
<1>3. (HasPPM => Applied("ppm"))'
  BY DEF Applied
<1>4. GainIsApplied'
  BY DEF GainIsApplied
<1>5. OffsetSetsFrequency'
  BY DEF OffsetSetsFrequency
<1>6. LockIsApplied'
  BY DEF LockIsApplied, LockIsDone, Running
<1>7. LockIsDone'
  BY DEF LockIsDone
<1>8. LockIsHeld'
  BY DEF LockIsHeld
<1>9. FrequencyIsApplied'
  BY DEF FrequencyIsApplied, OffsetSetsFrequency, LockIsHeld
<1>10. QED  BY <1>1, <1>2, <1>3, <1>4, <1>5, <1>6, <1>7, <1>8, <1>9 DEF SettingsInv

LEMMA StoreFrequencyKeeps ==
  ASSUME SettingsInv, StoreFrequency
  PROVE  SettingsInv'
<1> USE Where DEF SettingsInv, SettingsTypes, KindSet, At, Stopped, FirstKind, StoreFrequency,
        outsideUpdate
<1>1. SettingsTypes'
  BY Offers, Rates DEF Positions, Cleared
<1>2. (Applied("antenna") /\ Applied("rate") /\ Applied("agc") /\ Applied("setting"))'
  BY DEF Applied
<1>3. (HasPPM => Applied("ppm"))'
  BY DEF Applied
<1>4. GainIsApplied'
  BY DEF GainIsApplied
<1>5. OffsetSetsFrequency'
  BY DEF OffsetSetsFrequency
<1>6. LockIsApplied'
  BY DEF LockIsApplied, LockIsDone, Running
<1>7. LockIsDone'
  BY DEF LockIsDone
<1>8. LockIsHeld'
  BY DEF LockIsHeld
<1>9. FrequencyIsApplied'
  BY DEF FrequencyIsApplied, OffsetSetsFrequency, LockIsHeld
<1>10. QED  BY <1>1, <1>2, <1>3, <1>4, <1>5, <1>6, <1>7, <1>8, <1>9 DEF SettingsInv

LEMMA UpdateRateKeeps ==
  ASSUME SettingsInv, UpdateRate
  PROVE  SettingsInv'
<1> USE Where DEF SettingsInv, SettingsTypes, KindSet, At, Stopped, FirstKind, UpdateRate, Testing,
        outsideUpdate
<1>1. SettingsTypes'
  BY Offers, Rates DEF Positions, Cleared
<1>2. (Applied("antenna") /\ Applied("rate") /\ Applied("agc") /\ Applied("setting"))'
  BY DEF Applied
<1>3. (HasPPM => Applied("ppm"))'
  BY DEF Applied
<1>4. GainIsApplied'
  BY DEF GainIsApplied
<1>5. OffsetSetsFrequency'
  BY DEF OffsetSetsFrequency
<1>6. LockIsApplied'
  BY DEF LockIsApplied, LockIsDone, Running
<1>7. LockIsDone'
  BY DEF LockIsDone
<1>8. LockIsHeld'
  BY DEF LockIsHeld
<1>9. FrequencyIsApplied'
  BY DEF FrequencyIsApplied, OffsetSetsFrequency, LockIsHeld
<1>10. QED  BY <1>1, <1>2, <1>3, <1>4, <1>5, <1>6, <1>7, <1>8, <1>9 DEF SettingsInv

LEMMA TakeAppliedRateKeeps ==
  ASSUME SettingsInv, NEW rate \in Offered.rate, TakeAppliedRate(rate)
  PROVE  SettingsInv'
<1> USE Where DEF SettingsInv, SettingsTypes, KindSet, At, Stopped, FirstKind, TakeAppliedRate,
        outsideUpdate
<1>1. SettingsTypes'
  BY Offers, Rates DEF Positions, Cleared
<1>2. (Applied("antenna") /\ Applied("rate") /\ Applied("agc") /\ Applied("setting"))'
  BY DEF Applied
<1>3. (HasPPM => Applied("ppm"))'
  BY DEF Applied
<1>4. GainIsApplied'
  BY DEF GainIsApplied
<1>5. OffsetSetsFrequency'
  BY DEF OffsetSetsFrequency
<1>6. LockIsApplied'
  BY DEF LockIsApplied, LockIsDone, Running
<1>7. LockIsDone'
  BY DEF LockIsDone
<1>8. LockIsHeld'
  BY DEF LockIsHeld
<1>9. FrequencyIsApplied'
  BY DEF FrequencyIsApplied, OffsetSetsFrequency, LockIsHeld
<1>10. QED  BY <1>1, <1>2, <1>3, <1>4, <1>5, <1>6, <1>7, <1>8, <1>9 DEF SettingsInv

LEMMA UpdatePPMKeeps ==
  ASSUME SettingsInv, UpdatePPM
  PROVE  SettingsInv'
<1> USE Where DEF SettingsInv, SettingsTypes, KindSet, At, Stopped, FirstKind, UpdatePPM, Testing,
        outsideUpdate
<1>1. SettingsTypes'
  BY Offers, Rates DEF Positions, Cleared
<1>2. (Applied("antenna") /\ Applied("rate") /\ Applied("agc") /\ Applied("setting"))'
  BY DEF Applied
<1>3. (HasPPM => Applied("ppm"))'
  BY DEF Applied
<1>4. GainIsApplied'
  BY DEF GainIsApplied
<1>5. OffsetSetsFrequency'
  BY DEF OffsetSetsFrequency
<1>6. LockIsApplied'
  BY DEF LockIsApplied, LockIsDone, Running
<1>7. LockIsDone'
  BY DEF LockIsDone
<1>8. LockIsHeld'
  BY DEF LockIsHeld
<1>9. FrequencyIsApplied'
  BY DEF FrequencyIsApplied, OffsetSetsFrequency, LockIsHeld
<1>10. QED  BY <1>1, <1>2, <1>3, <1>4, <1>5, <1>6, <1>7, <1>8, <1>9 DEF SettingsInv

LEMMA UpdateFrequencyKeeps ==
  ASSUME SettingsInv, UpdateFrequency
  PROVE  SettingsInv'
<1> USE Where DEF SettingsInv, SettingsTypes, KindSet, At, Stopped, FirstKind, UpdateFrequency, Testing,
        outsideUpdate
<1>1. SettingsTypes'
  BY Offers, Rates DEF Positions, Cleared
<1>2. (Applied("antenna") /\ Applied("rate") /\ Applied("agc") /\ Applied("setting"))'
  BY DEF Applied
<1>3. (HasPPM => Applied("ppm"))'
  BY DEF Applied
<1>4. GainIsApplied'
  BY DEF GainIsApplied
<1>5. OffsetSetsFrequency'
  BY DEF OffsetSetsFrequency
<1>6. LockIsApplied'
  BY DEF LockIsApplied, LockIsDone, Running
<1>7. LockIsDone'
  BY DEF LockIsDone
<1>8. LockIsHeld'
  BY DEF LockIsHeld
<1>9. FrequencyIsApplied'
  BY DEF FrequencyIsApplied, OffsetSetsFrequency, LockIsHeld
<1>10. QED  BY <1>1, <1>2, <1>3, <1>4, <1>5, <1>6, <1>7, <1>8, <1>9 DEF SettingsInv

LEMMA FrequencyIsLockedKeeps ==
  ASSUME SettingsInv, FrequencyIsLocked
  PROVE  SettingsInv'
<1> USE Where DEF SettingsInv, SettingsTypes, KindSet, At, Stopped, FirstKind, FrequencyIsLocked,
        outsideUpdate
<1>1. SettingsTypes'
  BY Offers, Rates DEF Positions, Cleared
<1>2. (Applied("antenna") /\ Applied("rate") /\ Applied("agc") /\ Applied("setting"))'
  BY DEF Applied
<1>3. (HasPPM => Applied("ppm"))'
  BY DEF Applied
<1>4. GainIsApplied'
  BY DEF GainIsApplied
<1>5. OffsetSetsFrequency'
  BY DEF OffsetSetsFrequency
<1>6. LockIsApplied'
  BY DEF LockIsApplied, LockIsDone, Running
<1>7. LockIsDone'
  BY DEF LockIsDone
<1>8. LockIsHeld'
  BY DEF LockIsHeld
<1>9. FrequencyIsApplied'
  BY DEF FrequencyIsApplied, OffsetSetsFrequency, LockIsHeld
<1>10. QED  BY <1>1, <1>2, <1>3, <1>4, <1>5, <1>6, <1>7, <1>8, <1>9 DEF SettingsInv

LEMMA UpdateAGCKeeps ==
  ASSUME SettingsInv, NEW gain \in Offered.gain, UpdateAGC(gain)
  PROVE  SettingsInv'
<1> USE Where DEF SettingsInv, SettingsTypes, KindSet, At, Stopped, FirstKind, UpdateAGC, Testing,
        outsideUpdate
<1>1. SettingsTypes'
  BY Offers, Rates DEF Positions, Cleared
<1>2. (Applied("antenna") /\ Applied("rate") /\ Applied("agc") /\ Applied("setting"))'
  BY DEF Applied
<1>3. (HasPPM => Applied("ppm"))'
  BY DEF Applied
<1>4. GainIsApplied'
  BY DEF GainIsApplied
<1>5. OffsetSetsFrequency'
  BY DEF OffsetSetsFrequency
<1>6. LockIsApplied'
  BY DEF LockIsApplied, LockIsDone, Running
<1>7. LockIsDone'
  BY DEF LockIsDone
<1>8. LockIsHeld'
  BY DEF LockIsHeld
<1>9. FrequencyIsApplied'
  BY DEF FrequencyIsApplied, OffsetSetsFrequency, LockIsHeld
<1>10. QED  BY <1>1, <1>2, <1>3, <1>4, <1>5, <1>6, <1>7, <1>8, <1>9 DEF SettingsInv

LEMMA UpdateGainsKeeps ==
  ASSUME SettingsInv, UpdateGains
  PROVE  SettingsInv'
<1> USE Where DEF SettingsInv, SettingsTypes, KindSet, At, Stopped, FirstKind, UpdateGains, outsideUpdate
<1>1. SettingsTypes'
  BY Offers, Rates DEF Positions, Cleared
<1>2. (Applied("antenna") /\ Applied("rate") /\ Applied("agc") /\ Applied("setting"))'
  BY DEF Applied
<1>3. (HasPPM => Applied("ppm"))'
  BY DEF Applied
<1>4. GainIsApplied'
  BY DEF GainIsApplied
<1>5. OffsetSetsFrequency'
  BY DEF OffsetSetsFrequency
<1>6. LockIsApplied'
  BY DEF LockIsApplied, LockIsDone, Running
<1>7. LockIsDone'
  BY DEF LockIsDone
<1>8. LockIsHeld'
  BY DEF LockIsHeld
<1>9. FrequencyIsApplied'
  BY DEF FrequencyIsApplied, OffsetSetsFrequency, LockIsHeld
<1>10. QED  BY <1>1, <1>2, <1>3, <1>4, <1>5, <1>6, <1>7, <1>8, <1>9 DEF SettingsInv

LEMMA ReapplySavedGainsKeeps ==
  ASSUME SettingsInv, ReapplySavedGains
  PROVE  SettingsInv'
<1>1. PICK k \in KindSet : NextKind = [kind |-> k, phase |-> "test"]
  BY Where, NextPosition DEF ReapplySavedGains, SettingsInv, SettingsTypes, At, KindSet
<1> USE <1>1, Where DEF SettingsInv, SettingsTypes, KindSet, At, Stopped, FirstKind, ReapplySavedGains,
        outsideUpdate
<1>2. SettingsTypes'
  BY Offers, Rates DEF Positions, Cleared
<1>3. (Applied("antenna") /\ Applied("rate") /\ Applied("agc") /\ Applied("setting"))'
  BY DEF Applied
<1>4. (HasPPM => Applied("ppm"))'
  BY DEF Applied
<1>5. GainIsApplied'
  BY DEF GainIsApplied
<1>6. OffsetSetsFrequency'
  BY DEF OffsetSetsFrequency
<1>7. LockIsApplied'
  BY DEF LockIsApplied, LockIsDone, Running
<1>8. LockIsDone'
  BY DEF LockIsDone
<1>9. LockIsHeld'
  BY DEF LockIsHeld
<1>10. FrequencyIsApplied'
  BY DEF FrequencyIsApplied, OffsetSetsFrequency, LockIsHeld
<1>11. QED  BY <1>2, <1>3, <1>4, <1>5, <1>6, <1>7, <1>8, <1>9, <1>10 DEF SettingsInv

LEMMA UpdateGainKeeps ==
  ASSUME SettingsInv, UpdateGain
  PROVE  SettingsInv'
<1>1. PICK k \in KindSet : NextKind = [kind |-> k, phase |-> "test"]
  BY Where, NextPosition DEF UpdateGain, Testing, SettingsInv, SettingsTypes, At, KindSet
<1> USE <1>1, Where DEF SettingsInv, SettingsTypes, KindSet, At, Stopped, FirstKind, UpdateGain, Testing,
        outsideUpdate
<1>2. SettingsTypes'
  BY Offers, Rates DEF Positions, Cleared
<1>3. (Applied("antenna") /\ Applied("rate") /\ Applied("agc") /\ Applied("setting"))'
  BY DEF Applied
<1>4. (HasPPM => Applied("ppm"))'
  BY DEF Applied
<1>5. GainIsApplied'
  BY DEF GainIsApplied
<1>6. OffsetSetsFrequency'
  BY DEF OffsetSetsFrequency
<1>7. LockIsApplied'
  BY DEF LockIsApplied, LockIsDone, Running
<1>8. LockIsDone'
  BY DEF LockIsDone
<1>9. LockIsHeld'
  BY DEF LockIsHeld
<1>10. FrequencyIsApplied'
  BY DEF FrequencyIsApplied, OffsetSetsFrequency, LockIsHeld
<1>11. QED  BY <1>2, <1>3, <1>4, <1>5, <1>6, <1>7, <1>8, <1>9, <1>10 DEF SettingsInv

LEMMA UpdateSettingKeeps ==
  ASSUME SettingsInv, UpdateSetting
  PROVE  SettingsInv'
<1>1. PICK k \in KindSet : NextKind = [kind |-> k, phase |-> "test"]
  BY Where, NextPosition DEF UpdateSetting, Testing, SettingsInv, SettingsTypes, At, KindSet
<1> USE <1>1, Where DEF SettingsInv, SettingsTypes, KindSet, At, Stopped, FirstKind, UpdateSetting,
        Testing, outsideUpdate
<1>2. SettingsTypes'
  BY Offers, Rates DEF Positions, Cleared
<1>3. (Applied("antenna") /\ Applied("rate") /\ Applied("agc") /\ Applied("setting"))'
  BY DEF Applied
<1>4. (HasPPM => Applied("ppm"))'
  BY DEF Applied
<1>5. GainIsApplied'
  BY DEF GainIsApplied
<1>6. OffsetSetsFrequency'
  BY DEF OffsetSetsFrequency
<1>7. LockIsApplied'
  BY DEF LockIsApplied, LockIsDone, Running
<1>8. LockIsDone'
  BY DEF LockIsDone
<1>9. LockIsHeld'
  BY DEF LockIsHeld
<1>10. FrequencyIsApplied'
  BY DEF FrequencyIsApplied, OffsetSetsFrequency, LockIsHeld
<1>11. QED  BY <1>2, <1>3, <1>4, <1>5, <1>6, <1>7, <1>8, <1>9, <1>10 DEF SettingsInv

-----------------------------------------------------------------------------
(* DeviceSettings: the theorems.                                           *)

LEMMA SettingsStart ==
  ASSUME SettingsInit
  PROVE  SettingsInv
<1> USE Offers, Rates, KindsAre DEF SettingsInit, KindSet, At, Stopped, FirstKind
<1>1. /\ wanted = [k \in KindSet |-> wanted[k]] /\ applied = wanted
      /\ wanted.agc = TRUE /\ wanted.freq = Defaults.freq /\ wanted.rate = Defaults.rate
  OBVIOUS
<1>2. SettingsTypes
  BY <1>1 DEF SettingsTypes, Positions
<1>3. \A kind \in KindSet : Applied(kind)
  BY <1>1 DEF Applied
<1>4. GainIsApplied /\ OffsetSetsFrequency
  BY <1>1 DEF GainIsApplied, OffsetSetsFrequency
<1>5. LockIsApplied /\ LockIsDone /\ LockIsHeld
  BY DEF LockIsApplied, LockIsDone, LockIsHeld
<1>6. FrequencyIsApplied
  BY DEF FrequencyIsApplied
<1>7. QED  BY <1>2, <1>3, <1>4, <1>5, <1>6 DEF SettingsInv

LEMMA SettingsStepKeeps ==
  ASSUME SettingsInv, [SettingsNext]_settingsVars
  PROVE  SettingsInv'
<1>1. CASE UserSets
  BY <1>1, SetValueKeeps, SetAGCKeeps, SetFrequencyKeeps, SetSampleRateKeeps, ChooseLockKeeps,
     UnlockFrequencyKeeps, SetGainKeeps, WriteSettingKeeps, UpdateGainValuesKeeps, RelockKeeps
     DEF UserSets
<1>2. CASE ThreadUpdates
  BY <1>2, InitDeviceKeeps, InitSettingsKeeps, StopDeviceKeeps, SkipUnchangedKeeps, ClearFlagKeeps,
     UpdateAntennaKeeps, UpdateOffsetKeeps, StoreFrequencyKeeps, UpdateRateKeeps,
     TakeAppliedRateKeeps, UpdatePPMKeeps, UpdateFrequencyKeeps, FrequencyIsLockedKeeps,
     UpdateAGCKeeps, UpdateGainsKeeps, ReapplySavedGainsKeeps, UpdateGainKeeps,
     UpdateSettingKeeps
     DEF ThreadUpdates
<1>3. CASE StartDevice \/ AskStop
  BY <1>3, StartDeviceKeeps, AskStopKeeps
<1>4. CASE UNCHANGED settingsVars
  <2>1. UNCHANGED <<at, wanted, changed, applied, frequencyLock, keptFrequency, relock, raced>>
    BY <1>4 DEF settingsVars
  <2>2. (/\ SettingsTypes /\ GainIsApplied /\ OffsetSetsFrequency
         /\ LockIsApplied /\ LockIsDone /\ LockIsHeld /\ FrequencyIsApplied)'
    BY <2>1 DEF SettingsInv, SettingsTypes, GainIsApplied, OffsetSetsFrequency, LockIsApplied, Running,
                LockIsDone, LockIsHeld, FrequencyIsApplied
  <2>3. (Applied("antenna") /\ Applied("rate") /\ Applied("agc") /\ Applied("setting"))'
    BY <2>1 DEF SettingsInv, Applied
  <2>4. (HasPPM => Applied("ppm"))'
    BY <2>1 DEF SettingsInv, Applied
  <2>5. QED  BY <2>2, <2>3, <2>4 DEF SettingsInv
<1>5. QED  BY <1>1, <1>2, <1>3, <1>4 DEF SettingsNext

\* What is on the device, where the thread is, and what was raced are connected like this in
\* every state, whatever is offered and however often.
THEOREM SettingsInvariant == SettingsSpec => []SettingsInv
<1>1. SettingsInit => SettingsInv
  BY SettingsStart
<1>2. SettingsInv /\ [SettingsNext]_settingsVars => SettingsInv'
  BY SettingsStepKeeps
<1>3. QED  BY <1>1, <1>2, PTL DEF SettingsSpec

\* The flags and the raced setters are of the eight kinds, and both records have all of them.
THEOREM SettingsTypeCorrect == SettingsSpec => []SettingsTypeOK
<1>1. SettingsInv => SettingsTypeOK
  BY Where, KindsAre DEF SettingsInv, SettingsTypes, SettingsTypeOK
<1>2. QED  BY <1>1, SettingsInvariant, PTL

\* A setting that no flag announces is the one on the device, unless its setter came between
\* an application and the clearing of its flag (SoapySDRThread.cpp:554-717, 819-957).
THEOREM OnlyRacedAreLost == SettingsSpec => []OnlyRacedSettingsAreLost
<1>1. SettingsInv => OnlyRacedSettingsAreLost
  <2> SUFFICES ASSUME SettingsInv
               PROVE  OnlyRacedSettingsAreLost
    OBVIOUS
  <2> USE DEF Settled, FirstKind, At, Stopped, Running
  <2>1. \A kind \in {"antenna", "rate", "agc", "setting"} :
           Settled({kind}, {kind}) => applied[kind] = wanted[kind]
    BY DEF SettingsInv, Applied
  <2>2. HasPPM /\ Settled({"ppm"}, {"ppm"}) => applied["ppm"] = wanted["ppm"]
    BY DEF SettingsInv, Applied
  <2>3. ~wanted.agc /\ Settled({"agc", "gain"}, {"agc", "gain"}) => applied.gain = wanted.gain
    BY DEF SettingsInv, GainIsApplied
  <2>4. frequencyLock.locked /\ ~relock /\ Settled({"freq"}, {"lock"}) =>
           applied.freq = frequencyLock.freq
    BY DEF SettingsInv, LockIsApplied, LockIsDone
  <2>5. ~frequencyLock.locked /\ Settled({"freq", "offset"}, {"freq", "offset"}) =>
           applied.freq = wanted.freq - wanted.offset
    BY DEF SettingsInv, FrequencyIsApplied
  <2>6. QED  BY <2>1, <2>2, <2>3, <2>4, <2>5 DEF OnlyRacedSettingsAreLost
<1>2. QED  BY <1>1, SettingsInvariant, PTL

-----------------------------------------------------------------------------
(* The radio: the invariant.                                               *)

Polling == {"sleep", "ask", "answer", "clear", "compare", "adjust"}
AModem == RigModems \cup {NoModem}
RigRecords == [freq : RigFrequencies, newFreq : RigFrequencies, changed : BOOLEAN,
               oneShot : BOOLEAN, last : AModem, active : AModem, asked : BOOLEAN,
               checked : RigFrequencies]
RigTypes ==
    /\ dial \in RigFrequencies /\ appFreq \in RigFrequencies /\ appFreq >= RigHalfRate
    /\ rigStep \in Polling \cup {"none", "created", "opening", "ended"}
    /\ rigStopping \in BOOLEAN /\ rigFreqs \in RigRecords
    /\ modes \subseteq Modes
    /\ rigConfig \in [modes : SUBSET Modes, enabled : BOOLEAN]
    /\ modems \in [RigModems -> [freq : RigFrequencies, follow : BOOLEAN]]
    /\ chosen \in AModem /\ hovered \in AModem
    /\ quietPolls \in 0 .. AtRest /\ touched \in RigFrequencies \cup {0}

\* Both directions are on, and the receiver alone is what the radio goes with.
BothWays == {"control", "follow"} \subseteq modes
ReceiverOnly == modes \cap {"centerLock", "followModem"} = {}
ModemTracked == "followModem" \in modes /\ chosen # NoModem

\* The thread is new: nothing has been quiet and nothing was touched.
NewThreadIsFresh == rigStep \in {"created", "opening"} => quietPolls = 0 /\ touched = 0

\* What a poll has read is what there is.
PollReads ==
    /\ rigStep # "sleep" => rigFreqs.last = chosen
    /\ rigStep = "ask" => rigFreqs.asked = rigFreqs.changed
    /\ rigStep \in {"answer", "clear"} => rigFreqs.changed /\ rigFreqs.freq = dial
    /\ rigStep = "compare" => ~rigFreqs.changed /\ rigFreqs.checked = dial

\* The thread knows the radio's frequency; a request is one for the modem, and is fulfilled.
ThreadKnows ==
    /\ rigFreqs.freq = dial
    /\ rigFreqs.changed => /\ ModemTracked
                           /\ modems[chosen].freq = dial /\ rigFreqs.newFreq = dial

\* The radio is where the program is.
RadioAgrees ==
    /\ ReceiverOnly => appFreq = dial
    /\ ModemTracked => modems[chosen].freq = dial

RestComes ==
    BothWays /\ rigStep \in Polling =>
        /\ quietPolls >= 1 => PollReads
        /\ (quietPolls >= 2 \/ (quietPolls = 1 /\ rigStep = "adjust")) => ThreadKnows
        /\ (quietPolls >= 3 \/ (quietPolls = 2 /\ rigStep = "adjust")) => RadioAgrees

\* What was touched is still to be followed, or is where the receiver went.
TouchLasts ==
    BothWays /\ rigStep \in Polling /\ ReceiverOnly /\ touched # 0 =>
        /\ ~rigFreqs.changed /\ rigStep \notin {"answer", "clear"}
        /\ rigStep = "ask" => ~rigFreqs.asked
        /\ rigStep = "compare" => rigFreqs.checked = dial
        /\ \/ dial = touched /\ rigFreqs.freq = appFreq
           \/ rigFreqs.freq = dial /\ appFreq = AppFrequencyFor(touched)

RigInv == RigTypes /\ NewThreadIsFresh /\ RestComes /\ TouchLasts

-----------------------------------------------------------------------------
(* The radio: what its operators give.                                     *)

\* What is known of the constants.
LEMMA RigFacts ==
  /\ RigFrequencies \subseteq Nat \ {0} /\ RigHalfRate \in RigFrequencies
  /\ RigModems \subseteq Nat \ {0} /\ NoModem = 0 /\ AtRest = 4
  BY RigAssumption DEF NoModem, AtRest

\* setFrequency goes where it is asked to, or to half the sample rate.
LEMMA AppFrequencyForBounds ==
  ASSUME NEW freq \in RigFrequencies
  PROVE  /\ AppFrequencyFor(freq) \in RigFrequencies
         /\ AppFrequencyFor(freq) >= RigHalfRate
         /\ freq >= RigHalfRate => AppFrequencyFor(freq) = freq
  BY RigFacts DEF AppFrequencyFor

\* A request is still a record of the thread.
LEMMA RequestTypes ==
  ASSUME NEW f \in RigRecords, NEW d, NEW freq \in RigFrequencies
  PROVE  /\ Request(f, freq) \in RigRecords
         /\ RequestBy(f, d, freq) \in RigRecords
  BY DEF Request, RequestBy, RigRecords

\* The parts of that record.
LEMMA RecordTypes ==
  ASSUME NEW f \in RigRecords
  PROVE  /\ f.freq \in RigFrequencies /\ f.newFreq \in RigFrequencies
         /\ f.changed \in BOOLEAN /\ f.oneShot \in BOOLEAN /\ f.asked \in BOOLEAN
         /\ f.last \in AModem /\ f.active \in AModem /\ f.checked \in RigFrequencies
  BY DEF RigRecords

\* What RigThread does to a modem: it is where the radio is, and the radio may be asked to
\* come where it is already.
LEMMA MoveModemWorks ==
  ASSUME RigTypes, NEW f \in RigRecords, NEW d \in AModem, MoveModem(f, d)
  PROVE  /\ rigFreqs' \in RigRecords
         /\ modems' \in [RigModems -> [freq : RigFrequencies, follow : BOOLEAN]]
         /\ rigFreqs'.freq = f.freq /\ rigFreqs'.last = f.last
         /\ d # NoModem => modems'[d].freq = f.freq
         /\ rigFreqs'.changed => \/ f.changed /\ rigFreqs' = f
                                \/ /\ d # NoModem /\ chosen = d /\ "followModem" \in modes
                                   /\ rigFreqs'.newFreq = f.freq
<1>1. CASE d = NoModem
  BY <1>1 DEF MoveModem, RigTypes
<1>2. CASE d # NoModem
  <2>1. /\ rigFreqs' = RequestBy(f, d, f.freq) /\ d \in RigModems
        /\ modems' = [modems EXCEPT ![d] = [freq |-> f.freq, follow |-> TRUE]]
    BY <1>2 DEF MoveModem, AModem
  <2>2. f.freq \in RigFrequencies
    BY DEF RigRecords
  <2>3. rigFreqs' \in RigRecords
    BY <2>1, <2>2, RequestTypes
  <2>4. /\ modems' \in [RigModems -> [freq : RigFrequencies, follow : BOOLEAN]]
        /\ modems'[d].freq = f.freq
    BY <2>1, <2>2 DEF RigTypes
  <2>5. /\ rigFreqs'.freq = f.freq /\ rigFreqs'.last = f.last
        /\ rigFreqs'.changed => \/ f.changed /\ rigFreqs' = f
                               \/ /\ chosen = d /\ "followModem" \in modes
                                  /\ rigFreqs'.newFreq = f.freq
    BY <2>1 DEF RequestBy, Request
  <2> QED
    BY <1>2, <2>3, <2>4, <2>5
<1> QED
  BY <1>1, <1>2

\* An event that may be overlooked ends what was quiet.
LEMMA EventStarts ==
  ASSUME quietPolls' = 0, touched' = 0
  PROVE  NewThreadIsFresh' /\ RestComes' /\ TouchLasts'
  BY DEF NewThreadIsFresh, RestComes, TouchLasts

-----------------------------------------------------------------------------
(* The radio: the theorems.                                                *)

\* What each quiet poll of RigThread adds: after the first one what it reads is what there is,
\* after the second it knows the radio's frequency, after the third radio and program agree.
THEOREM RigInvariant == RigSpec => []RigInv
<1>1. RigInit => RigInv
  <2> SUFFICES ASSUME RigInit PROVE RigInv
    OBVIOUS
  <2> USE RigFacts DEF RigInit
  <2>1. rigFreqs \in RigRecords
    BY DEF RigRecords, AModem
  <2>2. rigConfig \in [modes : SUBSET Modes, enabled : BOOLEAN]
    BY RigAssumption DEF Modes
  <2>3. modems \in [RigModems -> [freq : RigFrequencies, follow : BOOLEAN]]
    OBVIOUS
  <2>4. quietPolls \in 0 .. AtRest /\ touched \in RigFrequencies \cup {0}
    OBVIOUS
  <2>5. modes \subseteq Modes
    OBVIOUS
  <2>6. appFreq \in RigFrequencies /\ appFreq >= RigHalfRate
    OBVIOUS
  <2>7. RigTypes
    BY <2>1, <2>2, <2>3, <2>4, <2>6, <2>5 DEF RigTypes, AModem
  <2>8. NewThreadIsFresh /\ RestComes /\ TouchLasts
    BY DEF NewThreadIsFresh, RestComes, TouchLasts, Polling
  <2> QED
    BY <2>7, <2>8 DEF RigInv
<1>2. RigInv /\ [RigNext]_rigVars => RigInv'
  <2> SUFFICES ASSUME RigInv, [RigNext]_rigVars PROVE RigInv'
    OBVIOUS
  <2> USE RigFacts
  <2>1. RigTypes /\ NewThreadIsFresh /\ RestComes /\ TouchLasts
    BY DEF RigInv
  <2>2. /\ rigFreqs.freq \in RigFrequencies /\ rigFreqs.newFreq \in RigFrequencies
        /\ rigFreqs.changed \in BOOLEAN /\ rigFreqs.oneShot \in BOOLEAN
        /\ rigFreqs.asked \in BOOLEAN /\ rigFreqs.checked \in RigFrequencies
        /\ rigFreqs.last \in AModem /\ rigFreqs.active \in AModem
        /\ \A d \in RigModems : modems[d].freq \in RigFrequencies /\ modems[d].follow \in BOOLEAN
    BY <2>1, RecordTypes DEF RigTypes
  <2>3. ASSUME NEW freq \in RigFrequencies, SetAppFrequency(freq) PROVE RigInv'
    <3> USE DEF SetAppFrequency, threadVars, programVars, tunedVars
    <3>1. RigTypes'
      BY <2>1, <2>3, AppFrequencyForBounds
      DEF RigTypes, RigRecords, AModem, Modes, RigEvent, Touch, Polling, AtRest
    <3>2. NewThreadIsFresh'
      BY <2>1, <2>3 DEF NewThreadIsFresh, Touch, RigEvent
    <3>3. RestComes'
      BY <2>3 DEF RestComes, RigEvent
    <3>4. ASSUME ~(rigStep = "sleep" /\ quietPolls = AtRest) PROVE TouchLasts'
      BY <2>3, <3>4 DEF TouchLasts, Touch
    <3>5. ASSUME rigStep = "sleep", quietPolls = AtRest PROVE TouchLasts'
      <4>1. BothWays /\ ReceiverOnly =>
               /\ rigFreqs.freq = dial /\ appFreq = dial /\ ~rigFreqs.changed
        BY <2>1, <3>5 DEF RestComes, ThreadKnows, RadioAgrees, Polling, ReceiverOnly, ModemTracked
      <4>2. appFreq' \in RigFrequencies /\ appFreq' >= RigHalfRate
        BY <3>1 DEF RigTypes
      <4> QED
        BY <2>3, <4>1, <4>2, AppFrequencyForBounds DEF TouchLasts, Touch, BothWays, ReceiverOnly
    <3>6. TouchLasts'
      BY <3>5, <3>4
    <3> QED
      BY <3>1, <3>2, <3>3, <3>6 DEF RigInv
  <2>4. ASSUME CenterHere PROVE RigInv'
    <3> USE DEF CenterHere, threadVars, programVars, tunedVars
    <3>1. hovered \in RigModems
      BY <2>4, <2>1, RequestTypes, AppFrequencyForBounds DEF RigTypes, AModem
    <3>2. appFreq' \in RigFrequencies /\ appFreq' >= RigHalfRate
      BY <2>4, <3>1, <2>1, <2>2, RequestTypes, AppFrequencyForBounds
    <3>3. rigFreqs' \in RigRecords
      BY <2>4, <3>1, <3>2, <2>1, RequestTypes, AppFrequencyForBounds DEF RigTypes
    <3>4. RigTypes'
      BY <2>4, <3>1, <3>2, <3>3, <2>1 DEF RigTypes, RigEvent, Polling
    <3>5. quietPolls' = 0 /\ touched' = 0
      BY <2>4 DEF RigEvent
    <3> QED
      BY <3>4, <3>5, EventStarts DEF RigInv
  <2>5. ASSUME NEW d \in RigModems, NEW freq \in RigFrequencies, TuneModem(d, freq) PROVE RigInv'
    <3> USE DEF TuneModem, threadVars, programVars, tunedVars
    <3>1. RigTypes'
      BY <2>1, <2>5, RequestTypes DEF RigTypes, RigRecords, AModem, Modes, RigEvent, Polling, AtRest
    <3>2. quietPolls' = 0 /\ touched' = 0
      BY <2>5 DEF RigEvent
    <3> QED
      BY <3>1, <3>2, EventStarts DEF RigInv
  <2>6. ASSUME NEW d \in RigModems, ChooseModem(d) PROVE RigInv'
    <3> USE DEF ChooseModem, threadVars, programVars, tunedVars
    <3>1. chosen' \in AModem /\ hovered' \in AModem
      BY <2>6, <2>1, RequestTypes DEF RigTypes, AModem
    <3>2. rigFreqs' \in RigRecords
      BY <2>6, <2>1, RequestTypes DEF RigTypes, AModem
    <3>3. RigTypes'
      BY <2>6, <3>1, <3>2, <2>1 DEF RigTypes, RigEvent, Polling
    <3>4. quietPolls' = 0 /\ touched' = 0
      BY <2>6 DEF RigEvent
    <3> QED
      BY <3>3, <3>4, EventStarts DEF RigInv
  <2>7. ASSUME NEW d \in RigModems \cup {NoModem}, HoverModem(d) PROVE RigInv'
    <3> USE DEF HoverModem, threadVars, programVars, tunedVars
    <3>1. RigTypes'
      BY <2>1, <2>7 DEF RigTypes, RigRecords, AModem, Modes, RigEvent, Polling, AtRest
    <3>2. NewThreadIsFresh'
      BY <2>1, <2>7 DEF NewThreadIsFresh, RigEvent
    <3>3. RestComes'
      BY <2>1, <2>7
      DEF RestComes, PollReads, ThreadKnows, RadioAgrees, BothWays, ReceiverOnly, ModemTracked, Polling,
          RigEvent, RigTypes
    <3>4. TouchLasts'
      BY <2>1, <2>7 DEF TouchLasts, BothWays, ReceiverOnly, Polling, RigEvent
    <3> QED
      BY <3>1, <3>2, <3>3, <3>4 DEF RigInv
  <2>8. ASSUME NEW mode \in Modes, ToggleMode(mode) PROVE RigInv'
    <3> USE DEF ToggleMode, threadVars, programVars, tunedVars
    <3>1. RigTypes'
      BY <2>1, <2>8 DEF RigTypes, RigRecords, AModem, Modes, RigEvent, Polling, AtRest
    <3>2. quietPolls' = 0 /\ touched' = 0
      BY <2>8 DEF RigEvent
    <3> QED
      BY <3>1, <3>2, EventStarts DEF RigInv
  <2>9. ASSUME ToggleRig PROVE RigInv'
    <3> USE DEF ToggleRig, threadVars, programVars, tunedVars
    <3>1. RigTypes'
      BY <2>1, <2>9 DEF RigTypes, RigRecords, AModem, Modes, StopRig, RigEvent, Polling, AtRest
    <3>2. quietPolls' = 0 /\ touched' = 0
      BY <2>9 DEF RigEvent
    <3> QED
      BY <3>1, <3>2, EventStarts DEF RigInv
  <2>10. ASSUME HandleRigMenu PROVE RigInv'
    <3> USE DEF HandleRigMenu, threadVars, programVars, tunedVars
    <3>1. RigTypes'
      BY <2>1, <2>10 DEF RigTypes, RigRecords, AModem, Modes, StopRig, NoEvent, Polling, AtRest
    <3>2. NewThreadIsFresh'
      BY <2>1, <2>10 DEF NewThreadIsFresh, NoEvent
    <3>3. RestComes'
      BY <2>1, <2>10
      DEF RestComes, PollReads, ThreadKnows, RadioAgrees, BothWays, ReceiverOnly, ModemTracked, Polling,
          NoEvent, RigTypes
    <3>4. TouchLasts'
      BY <2>1, <2>10 DEF TouchLasts, BothWays, ReceiverOnly, Polling, NoEvent
    <3> QED
      BY <3>1, <3>2, <3>3, <3>4 DEF RigInv
  <2>11. ASSUME NEW if \in RigIFs, ChooseRig(if) PROVE RigInv'
    <3> USE DEF ChooseRig, threadVars, programVars, tunedVars
    <3>1. rigStopping' \in BOOLEAN
      BY <2>11, <2>1 DEF RigTypes, StopRig
    <3>2. RigTypes'
      BY <2>11, <3>1, <2>1 DEF RigTypes, RigEvent, StopRig, Polling
    <3>3. quietPolls' = 0 /\ touched' = 0
      BY <2>11 DEF RigEvent
    <3> QED
      BY <3>2, <3>3, EventStarts DEF RigInv
  <2>12. ASSUME NEW if \in RigIFs, RelockForDevice(if) PROVE RigInv'
    <3> USE DEF RelockForDevice, threadVars, programVars, tunedVars
    <3>1. RigTypes'
      BY <2>1, <2>12 DEF RigTypes, RigRecords, AModem, Modes, StopRig, RigEvent, Polling, AtRest
    <3>2. quietPolls' = 0 /\ touched' = 0
      BY <2>12 DEF RigEvent
    <3> QED
      BY <3>1, <3>2, EventStarts DEF RigInv
  <2>13. ASSUME NEW freq \in RigFrequencies, TurnDial(freq) PROVE RigInv'
    <3> USE DEF TurnDial, threadVars, programVars, tunedVars
    <3>1. RigTypes'
      BY <2>1, <2>13 DEF RigTypes, RigRecords, AModem, Modes, RigEvent, Touch, Polling, AtRest
    <3>2. NewThreadIsFresh'
      BY <2>1, <2>13 DEF NewThreadIsFresh, Touch, RigEvent
    <3>3. RestComes'
      BY <2>13 DEF RestComes, RigEvent
    <3>4. ASSUME ~(rigStep = "sleep" /\ quietPolls = AtRest) PROVE TouchLasts'
      BY <2>13, <3>4 DEF TouchLasts, Touch
    <3>5. ASSUME rigStep = "sleep", quietPolls = AtRest PROVE TouchLasts'
      <4>1. BothWays /\ ReceiverOnly =>
               /\ rigFreqs.freq = dial /\ appFreq = dial /\ ~rigFreqs.changed
        BY <2>1, <3>5 DEF RestComes, ThreadKnows, RadioAgrees, Polling, ReceiverOnly, ModemTracked
      <4>2. appFreq' \in RigFrequencies /\ appFreq' >= RigHalfRate
        BY <3>1 DEF RigTypes
      <4> QED
        BY <2>13, <4>1, <4>2, AppFrequencyForBounds DEF TouchLasts, Touch, BothWays, ReceiverOnly
    <3>6. TouchLasts'
      BY <3>5, <3>4
    <3> QED
      BY <3>1, <3>2, <3>3, <3>6 DEF RigInv
  <2>14. ASSUME NEW d \in RigModems, FollowModem(d) PROVE RigInv'
    <3> USE DEF FollowModem, threadVars, programVars, tunedVars
    <3>1. [modems[d] EXCEPT !.follow = FALSE] \in [freq : RigFrequencies, follow : BOOLEAN]
      BY <2>14, <2>1 DEF RigTypes
    <3>2. modems' = [modems EXCEPT ![d] = [modems[d] EXCEPT !.follow = FALSE]]
      BY <2>14, <2>1, AppFrequencyForBounds
    <3>3. modems' \in [RigModems -> [freq : RigFrequencies, follow : BOOLEAN]]
      BY <2>14, <3>1, <3>2, <2>1, AppFrequencyForBounds DEF RigTypes
    <3>4. appFreq' \in RigFrequencies /\ appFreq' >= RigHalfRate
      BY <2>14, <3>1, <3>2, <3>3, <2>1, AppFrequencyForBounds
    <3>5. RigTypes'
      BY <2>14, <3>1, <3>2, <3>3, <3>4, <2>1 DEF RigTypes, Polling
    <3>6. quietPolls' = 0 /\ touched' = 0
      BY <2>14
    <3> QED
      BY <3>5, <3>6, EventStarts DEF RigInv
  <2>15. ASSUME NEW if \in RigIFs, RigJoined(if) PROVE RigInv'
    <3> USE DEF RigJoined, threadVars, programVars, tunedVars
    <3>1. appFreq \in RigFrequencies
      BY <2>15, <2>1 DEF RigTypes
    <3>2. NewRig \subseteq RigRecords
      BY <3>1 DEF NewRig, RigRecords, AModem
    <3>3. rigFreqs' \in RigRecords
      BY <2>15, <3>1, <3>2, <2>1 DEF RigTypes
    <3>4. rigConfig.modes \subseteq Modes
      BY <2>15, <2>1 DEF RigTypes
    <3>5. modes' \subseteq Modes /\ rigStopping' \in BOOLEAN
      BY <2>15, <2>1 DEF RigTypes
    <3>6. rigConfig' \in [modes : SUBSET Modes, enabled : BOOLEAN]
      BY <2>15, <2>1 DEF RigTypes
    <3>7. rigStep' \in {"created", "none"}
      BY <2>15, <2>1
    <3>8. RigTypes'
      BY <2>15, <3>1, <3>2, <3>3, <3>4, <3>5, <3>6, <3>7, <2>1 DEF RigTypes, Polling
    <3>9. quietPolls' = 0 /\ touched' = 0
      BY <2>15
    <3> QED
      BY <3>8, <3>9, EventStarts DEF RigInv
  <2>16. ASSUME BeginPoll PROVE RigInv'
    <3> USE DEF BeginPoll, threadVars, programVars, tunedVars
    <3>1. rigFreqs' \in RigRecords
      BY <2>16, <2>1 DEF RigTypes, RigRecords
    <3>2. rigStep' \in {"ended", "ask"}
      BY <2>16, <2>1
    <3>3. RigTypes'
      BY <2>16, <3>1, <3>2, <2>1 DEF RigTypes, NoEvent, Polling
    <3>4. NewThreadIsFresh'
      BY <2>1, <2>16 DEF NewThreadIsFresh, NoEvent
    <3>5. /\ rigFreqs'.newFreq = rigFreqs.newFreq
          /\ rigFreqs'.last = chosen /\ rigFreqs'.changed = rigFreqs.changed
          /\ rigFreqs'.freq = rigFreqs.freq /\ rigFreqs'.checked = rigFreqs.checked
          /\ rigFreqs'.asked = (rigFreqs.changed /\ ("control" \in modes \/ rigFreqs.oneShot))
      BY <2>16, <2>1 DEF RigTypes, RigRecords
    <3>6. RestComes'
      BY <2>1, <2>2, <3>5, <2>16
      DEF RestComes, PollReads, ThreadKnows, RadioAgrees, BothWays, ReceiverOnly, ModemTracked, Polling,
          NoEvent, RigTypes
    <3>7. TouchLasts'
      BY <2>1, <3>5, <2>16 DEF TouchLasts, BothWays, ReceiverOnly, Polling, NoEvent
    <3> QED
      BY <3>3, <3>4, <3>6, <3>7 DEF RigInv
  <2>17. ASSUME NEW status \in {"ok", "unsupported", "error"}, AnswerRequest(status) PROVE RigInv'
    <3> USE DEF AnswerRequest, threadVars, programVars, tunedVars
    <3>1. RigTypes'
      BY <2>1, <2>17 DEF RigTypes, RigRecords, AModem, Modes, Answers, RigEvent, NoEvent, Polling, AtRest
    <3>2. NewThreadIsFresh'
      BY <2>1, <2>17 DEF NewThreadIsFresh, Answers, RigEvent, NoEvent
    <3>3. /\ rigFreqs'.newFreq = rigFreqs.newFreq
          /\ rigFreqs'.last = rigFreqs.last /\ rigFreqs'.changed = rigFreqs.changed
          /\ rigFreqs'.asked = rigFreqs.asked /\ rigFreqs'.checked = rigFreqs.checked
          /\ rigFreqs.freq = rigFreqs.newFreq => rigFreqs' = rigFreqs /\ dial' = dial
          /\ rigFreqs.freq = dial /\ status = "ok" => rigFreqs'.freq = dial'
          /\ quietPolls' = IF status = "ok" THEN quietPolls ELSE 0
      BY <2>17, <2>1 DEF RigTypes, RigRecords, Answers, RigEvent, NoEvent
    <3>4. RestComes'
      BY <2>1, <3>3, <2>17
      DEF RestComes, PollReads, ThreadKnows, RadioAgrees, BothWays, ReceiverOnly, ModemTracked, Polling,
          RigTypes
    <3>5. TouchLasts'
      BY <2>1, <2>17 DEF TouchLasts, BothWays, ReceiverOnly, Polling
    <3> QED
      BY <3>1, <3>2, <3>4, <3>5 DEF RigInv
  <2>18. ASSUME ClearRequest PROVE RigInv'
    <3> USE DEF ClearRequest, threadVars, programVars, tunedVars
    <3>1. RigTypes'
      BY <2>1, <2>18 DEF RigTypes, RigRecords, AModem, Modes, NoEvent, Polling, AtRest
    <3>2. NewThreadIsFresh'
      BY <2>1, <2>18 DEF NewThreadIsFresh, NoEvent
    <3>3. /\ rigFreqs'.newFreq = rigFreqs.newFreq
          /\ rigFreqs'.last = rigFreqs.last /\ ~rigFreqs'.changed
          /\ rigFreqs'.asked = rigFreqs.asked /\ rigFreqs'.checked = rigFreqs.checked
          /\ rigFreqs'.freq = rigFreqs.freq
      BY <2>18, <2>1 DEF RigTypes, RigRecords
    <3>4. RestComes'
      BY <2>1, <2>18
      DEF RestComes, PollReads, ThreadKnows, RadioAgrees, BothWays, ReceiverOnly, ModemTracked, Polling,
          NoEvent, RigTypes
    <3>5. TouchLasts'
      BY <2>1, <2>18 DEF TouchLasts, BothWays, ReceiverOnly, Polling, NoEvent
    <3> QED
      BY <3>1, <3>2, <3>4, <3>5 DEF RigInv
  <2>19. ASSUME Adjust PROVE RigInv'
    <3> USE DEF Adjust, threadVars, programVars, tunedVars
    <3>1. appFreq' \in RigFrequencies /\ appFreq' >= RigHalfRate
      BY <2>19, <2>1, <2>2, AppFrequencyForBounds DEF RigTypes
    <3>2. quietPolls' \in 0 .. AtRest
      BY <2>19, <2>1, AppFrequencyForBounds DEF RigTypes
    <3>3. RigTypes'
      BY <2>19, <3>1, <3>2, <2>1 DEF RigTypes, Polling
    <3>4. NewThreadIsFresh'
      BY <2>1, <2>19 DEF NewThreadIsFresh
    <3>5. RestComes'
      BY <2>1, <2>19
      DEF RestComes, PollReads, ThreadKnows, RadioAgrees, BothWays, ReceiverOnly, ModemTracked, Polling,
          RigTypes
    <3>6. TouchLasts'
      BY <2>1, <2>19 DEF TouchLasts, BothWays, ReceiverOnly, Polling
    <3> QED
      BY <3>3, <3>4, <3>5, <3>6 DEF RigInv
  <2>20. ASSUME NEW status \in {"ok", "unsupported", "error"}, OpenRig(status) PROVE RigInv'
    <3> USE DEF OpenRig, threadVars, programVars, tunedVars
    <3>1. rigStep' \in {"opening", "sleep", "ended"}
      BY <2>20, <2>1
    <3>2. rigStopping' \in BOOLEAN
      BY <2>20, <2>1 DEF RigTypes
    <3>3. quietPolls' = 0 /\ touched' = 0
      BY <2>20, <2>1 DEF NewThreadIsFresh, Answers, NoEvent, RigEvent
    <3>4. RigTypes'
      BY <2>20, <3>1, <3>2, <3>3, <2>1 DEF RigTypes, RigEvent, NoEvent, Answers, Polling
    <3> QED
      BY <3>4, <3>3, EventStarts DEF RigInv
  <2>21. ASSUME NEW status \in {"ok", "unsupported", "error"}, AskRig(status) PROVE RigInv'
    <3> USE DEF AskRig, threadVars, programVars, tunedVars
    <3>1. rigFreqs' \in RigRecords
      BY <2>21, <2>1 DEF RigTypes, RigRecords
    <3>2. rigStep' \in {"ended", "adjust", "answer", "compare"}
      BY <2>21, <2>1 DEF AfterAsking
    <3>3. RigTypes'
      BY <2>21, <3>1, <3>2, <2>1 DEF RigTypes, RigEvent, NoEvent, Answers, Polling
    <3>4. NewThreadIsFresh'
      BY <2>1, <3>1, <3>2, <2>21 DEF NewThreadIsFresh, RigEvent, NoEvent, Answers
    <3>5. /\ rigFreqs'.newFreq = rigFreqs.newFreq
          /\ rigFreqs'.last = rigFreqs.last /\ rigFreqs'.changed = rigFreqs.changed
          /\ rigFreqs'.asked = rigFreqs.asked
          /\ status # "ok" => rigFreqs' = rigFreqs
          /\ status = "ok" /\ rigFreqs.asked =>
                rigFreqs'.freq = dial /\ rigFreqs'.checked = rigFreqs.checked
          /\ status = "ok" /\ ~rigFreqs.asked =>
                rigFreqs'.freq = rigFreqs.freq /\ rigFreqs'.checked = dial
      BY <2>21, <2>1 DEF RigTypes, RigRecords
    <3>6. RestComes'
      BY <2>1, <2>21
      DEF RestComes, PollReads, ThreadKnows, RadioAgrees, BothWays, ReceiverOnly, ModemTracked, Polling,
          AfterAsking, RigEvent, NoEvent, Answers, RigTypes
    <3>7. TouchLasts'
      BY <2>1, <2>21
      DEF TouchLasts, BothWays, ReceiverOnly, Polling, AfterAsking, RigEvent, NoEvent, Answers
    <3> QED
      BY <3>3, <3>4, <3>6, <3>7 DEF RigInv
  <2>22. ASSUME NEW status \in {"ok", "unsupported", "error"}, Compare(status) PROVE RigInv'
    <3> USE DEF Compare, threadVars, programVars, tunedVars
    <3>1. rigFreqs.last \in AModem /\ rigFreqs \in RigRecords
      BY <2>22, <2>1, <2>2, MoveModemWorks DEF RigTypes
    <3>2. /\ [rigFreqs EXCEPT !.freq = rigFreqs.checked] \in RigRecords
          /\ [rigFreqs EXCEPT !.freq = appFreq] \in RigRecords
      BY <2>22, <2>1, MoveModemWorks DEF RigTypes, RigRecords
    <3>3. /\ rigFreqs' \in RigRecords
          /\ modems' \in [RigModems -> [freq : RigFrequencies, follow : BOOLEAN]]
      BY <2>22, <3>1, <3>2, <2>1, AppFrequencyForBounds, MoveModemWorks
      DEF RigTypes, FollowDial, TuneRig
    <3>4. [rigFreqs EXCEPT !.freq = rigFreqs.checked].freq \in RigFrequencies
      BY <2>22, <3>1, <3>2, <3>3, <2>1, <2>2, MoveModemWorks
    <3>5. appFreq' \in RigFrequencies /\ appFreq' >= RigHalfRate /\ dial' \in RigFrequencies
      BY <2>22, <3>1, <3>2, <3>3, <3>4, <2>1, AppFrequencyForBounds, MoveModemWorks
      DEF RigTypes, FollowDial, TuneRig
    <3>6. /\ rigStep' \in {"ended", "adjust"} /\ touched' \in {touched, 0}
          /\ quietPolls' = 0 \/ quietPolls' = quietPolls
      BY <2>22, <2>1, MoveModemWorks DEF Answers, NoEvent, RigEvent
    <3>7. RigTypes'
      BY <2>22, <3>1, <3>2, <3>3, <3>4, <3>5, <3>6, <2>1
      DEF RigTypes, RigEvent, NoEvent, Answers, Polling
    <3>8. NewThreadIsFresh'
      BY <2>1, <2>22 DEF NewThreadIsFresh, RigEvent, NoEvent, Answers
    <3>9. RestComes' /\ TouchLasts'
      <4>1. ASSUME status # "ok" PROVE RestComes' /\ TouchLasts'
        BY <2>22, <4>1 DEF RestComes, TouchLasts, Answers, RigEvent
      <4> SUFFICES ASSUME status = "ok" PROVE RestComes' /\ TouchLasts'
        BY <4>1
      <4>2. /\ rigStep = "compare" /\ rigStep' = "adjust" /\ quietPolls' = quietPolls
            /\ touched' = touched /\ modes' = modes /\ chosen' = chosen
        BY <2>22 DEF Answers, NoEvent
      <4> DEFINE Kept == /\ quietPolls >= 1 => PollReads' /\ ThreadKnows'
                         /\ quietPolls >= 2 => RadioAgrees'
                         /\ ReceiverOnly /\ touched # 0 =>
                              /\ ~rigFreqs'.changed
                              /\ \/ dial' = touched /\ rigFreqs'.freq = appFreq'
                                 \/ rigFreqs'.freq = dial' /\ appFreq' = AppFrequencyFor(touched)
      <4> SUFFICES ASSUME BothWays PROVE Kept
        BY <4>2, <2>1 DEF RestComes, TouchLasts, BothWays, ReceiverOnly, Polling, RigTypes
      <4>3. /\ quietPolls >= 1 =>
                 rigFreqs.last = chosen /\ ~rigFreqs.changed /\ rigFreqs.checked = dial
            /\ quietPolls >= 2 => ThreadKnows
            /\ quietPolls >= 3 => RadioAgrees
        BY <4>2, <2>1 DEF RestComes, PollReads, Polling
      <4>4. ReceiverOnly /\ touched # 0 =>
              /\ ~rigFreqs.changed /\ rigFreqs.checked = dial
              /\ \/ dial = touched /\ rigFreqs.freq = appFreq
                 \/ rigFreqs.freq = dial /\ appFreq = AppFrequencyFor(touched)
        BY <4>2, <2>1 DEF TouchLasts, Polling
      <4>5. touched # 0 => touched \in RigFrequencies
        BY <2>1 DEF RigTypes
      <4>6. rigFreqs'.last = chosen => PollReads'
        BY <4>2 DEF PollReads
      <4>7. "followModem" \in modes => ~ReceiverOnly /\ ~ReceiverOnly'
        BY <4>2 DEF ReceiverOnly
      <4>8. ASSUME DialMoved, "followModem" \in modes PROVE Kept
        <5> DEFINE f == [rigFreqs EXCEPT !.freq = rigFreqs.checked]
        <5>1. MoveModem(f, rigFreqs.last) /\ dial' = dial
          BY <2>22, <4>8 DEF FollowDial
        <5>2. /\ f \in RigRecords /\ f.freq = rigFreqs.checked
              /\ f.last = rigFreqs.last /\ f.changed = rigFreqs.changed
          BY <2>1 DEF RigTypes, RigRecords
        <5> HIDE DEF f
        <5>3. /\ rigFreqs'.freq = f.freq /\ rigFreqs'.last = f.last
              /\ rigFreqs.last # NoModem => modems'[rigFreqs.last].freq = f.freq
              /\ rigFreqs'.changed => \/ f.changed
                                     \/ /\ rigFreqs.last # NoModem /\ chosen = rigFreqs.last
                                        /\ rigFreqs'.newFreq = f.freq
          BY <5>1, <5>2, <2>1, <2>2, MoveModemWorks
        <5>4. quietPolls >= 1 => ThreadKnows'
          BY <4>2, <4>3, <4>8, <5>1, <5>2, <5>3 DEF ThreadKnows, ModemTracked
        <5>5. ~(quietPolls >= 2)
          BY <4>3, <4>8, <2>1 DEF ThreadKnows, DialMoved, RigTypes
        <5> QED
          BY <4>2, <4>3, <4>8, <4>7, <4>6, <5>2, <5>3, <5>4, <5>5
      <4>9. ASSUME DialMoved, "followModem" \notin modes PROVE Kept
        <5>1. /\ rigFreqs' = [rigFreqs EXCEPT !.freq = rigFreqs.checked]
              /\ appFreq' = AppFrequencyFor(rigFreqs'.freq) /\ modems' = modems /\ dial' = dial
          BY <2>22, <2>1, <4>9 DEF FollowDial, RigTypes, RigRecords
        <5>2. /\ rigFreqs'.freq = rigFreqs.checked
              /\ rigFreqs'.last = rigFreqs.last /\ rigFreqs'.changed = rigFreqs.changed
          BY <5>1, <2>1 DEF RigTypes, RigRecords
        <5>3. appFreq \in RigFrequencies /\ appFreq >= RigHalfRate
          BY <2>1 DEF RigTypes
        <5>4. quietPolls >= 1 => ThreadKnows'
          BY <4>2, <4>3, <5>1, <5>2 DEF ThreadKnows
        <5>5. ~(quietPolls >= 2)
          BY <4>3, <4>9, <2>1 DEF ThreadKnows, DialMoved, RigTypes
        <5>6. ReceiverOnly /\ touched # 0 => dial = touched
          BY <4>4, <4>9 DEF DialMoved
        <5> QED
          BY <4>3, <4>4, <4>6, <5>1, <5>2, <5>4, <5>5, <5>6
      <4>10. ASSUME ~DialMoved, AppMoved PROVE Kept
        <5>1. /\ rigFreqs' = [rigFreqs EXCEPT !.freq = appFreq] /\ dial' = appFreq
              /\ appFreq' = appFreq /\ modems' = modems
          BY <2>22, <4>10 DEF TuneRig
        <5>2. /\ rigFreqs'.freq = appFreq
              /\ rigFreqs'.last = rigFreqs.last /\ rigFreqs'.changed = rigFreqs.changed
          BY <5>1, <2>1 DEF RigTypes, RigRecords
        <5>3. ReceiverOnly /\ ~ModemTracked
          BY <4>10 DEF AppMoved, ReceiverOnly, ModemTracked
        <5>4. touched # 0 => appFreq = AppFrequencyFor(touched)
          BY <4>4, <4>10, <5>3 DEF DialMoved, AppMoved
        <5> QED
          BY <4>2, <4>3, <4>4, <5>1, <5>2, <5>3, <5>4
          DEF PollReads, ThreadKnows, RadioAgrees, ReceiverOnly, ModemTracked
      <4>11. ASSUME ~DialMoved, ~AppMoved, ModemMoved PROVE Kept
        <5>1. /\ MoveModem(rigFreqs, rigFreqs.last) /\ dial' = dial
              /\ "followModem" \in modes /\ rigFreqs.last # NoModem
          BY <2>22, <4>11 DEF ModemMoved
        <5>2. /\ rigFreqs'.freq = rigFreqs.freq /\ rigFreqs'.last = rigFreqs.last
              /\ modems'[rigFreqs.last].freq = rigFreqs.freq
              /\ rigFreqs'.changed => \/ rigFreqs.changed
                                     \/ /\ chosen = rigFreqs.last
                                        /\ rigFreqs'.newFreq = rigFreqs.freq
          BY <5>1, <2>1, <2>2, MoveModemWorks DEF RigTypes
        <5>3. rigFreqs.freq = rigFreqs.checked
          BY <4>11 DEF DialMoved, BothWays
        <5>4. quietPolls >= 1 => ThreadKnows' /\ RadioAgrees'
          BY <4>2, <4>3, <4>7, <5>1, <5>2, <5>3 DEF ThreadKnows, RadioAgrees, ModemTracked
        <5>5. quietPolls >= 2 => quietPolls >= 1
          BY <2>1 DEF RigTypes
        <5> QED
          BY <4>3, <4>7, <4>6, <5>1, <5>2, <5>4, <5>5
      <4>12. ASSUME ~DialMoved, ~AppMoved, ~ModemMoved PROVE Kept
        <5>1. UNCHANGED <<dial, rigFreqs, appFreq, modems>>
          BY <2>22, <4>12
        <5>2. rigFreqs.freq = rigFreqs.checked
          BY <4>12 DEF DialMoved, BothWays
        <5>3. ReceiverOnly => appFreq = rigFreqs.freq
          BY <4>12 DEF AppMoved, ReceiverOnly, BothWays
        <5>4. rigFreqs.last = chosen /\ ModemTracked => modems[chosen].freq = rigFreqs.freq
          BY <4>12 DEF ModemMoved, ModemTracked
        <5>5. quietPolls >= 1 => ThreadKnows'
          BY <4>2, <4>3, <5>1, <5>2 DEF ThreadKnows
        <5>6. quietPolls >= 1 => RadioAgrees'
          BY <4>2, <4>3, <5>1, <5>2, <5>3, <5>4 DEF RadioAgrees, ReceiverOnly, ModemTracked
        <5>7. quietPolls >= 2 => quietPolls >= 1
          BY <2>1 DEF RigTypes
        <5> QED
          BY <4>3, <4>4, <4>6, <5>1, <5>5, <5>6, <5>7
      <4> QED
        BY <4>8, <4>9, <4>10, <4>11, <4>12
    <3>10. TouchLasts'
      BY <3>9
    <3> QED
      BY <3>7, <3>8, <3>9, <3>10 DEF RigInv
  <2>23. CASE UNCHANGED rigVars
    BY <2>1, <2>23
    DEF RigInv, RigTypes, NewThreadIsFresh, RestComes, TouchLasts, PollReads, ThreadKnows, RadioAgrees,
        BothWays, ReceiverOnly, ModemTracked, rigVars, threadVars, programVars, tunedVars
  <2> QED
    BY <2>3, <2>4, <2>5, <2>6, <2>7, <2>8, <2>9, <2>10, <2>11, <2>12, <2>13, <2>14, <2>15, <2>16,
       <2>17, <2>18, <2>19, <2>20, <2>21, <2>22, <2>23 DEF RigNext, UserActs
<1> QED
  BY <1>1, <1>2, PTL DEF RigSpec

\* The rig thread's step, its frequencies and what the program keeps of it have their types.
THEOREM RigTypeCorrect == RigSpec => []RigTypeOK
<1>1. RigInv => RigTypeOK
  BY DEF RigInv, RigTypes, RigTypeOK, AModem, Polling
<1> QED
  BY <1>1, RigInvariant, PTL

\* With both directions on, a radio and a program that are left alone come to one frequency,
\* and to the one that was chosen last when RigThread could not overlook it.
THEOREM RigComesToRest == RigSpec => []RigSettles
<1>1. RigInv => RigSettles
  BY RigFacts, AppFrequencyForBounds
  DEF RigInv, RigTypes, RestComes, TouchLasts, RadioAgrees, ThreadKnows, BothWays, ReceiverOnly,
      ModemTracked, Polling, RigSettles
<1> QED
  BY <1>1, RigInvariant, PTL

==============================================================================
