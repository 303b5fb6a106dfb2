----------------------------- MODULE RigControl -----------------------------
(***************************************************************************)
(* Keeping a radio and the receiver on one frequency: the thread that      *)
(* polls the radio (src/rig/RigThread.cpp), what starts and stops it       *)
(* (src/CubicSDR.cpp, src/AppFrame.cpp), and what asks it for a frequency  *)
(* (src/demod/DemodulatorInstance.cpp, DemodulatorMgr.cpp,                 *)
(* src/visual/WaterfallCanvas.cpp).                                        *)
(*                                                                         *)
(* The radio's answer is "ok", "unsupported" or "error", by choice.  The   *)
(* thread's steps are its calls to the radio: what the user does falls     *)
(* between them.  The port and the serial rate of the radio are one with   *)
(* its model, and modems with a delta lock are left to Tuning.             *)
(***************************************************************************)
EXTENDS Integers

CONSTANTS
    RigFrequencies,   \* what the radio and the program are tuned to
    RigModems,        \* demodulators
    RigHalfRate,      \* the least frequency of the receiver
    RigConfigured,    \* modes that the configuration may have
    RigIFs,           \* rigIF of the models, 0 is none
    MaxRigEvents      \* bound: what the user does, and errors of the radio

NoModem == 0

ASSUME RigAssumption ==
    /\ RigFrequencies \cup {RigHalfRate} \subseteq Nat \ {0} /\ RigHalfRate \in RigFrequencies
    /\ RigModems \subseteq Nat \ {NoModem} /\ RigIFs \subseteq Nat /\ MaxRigEvents \in Nat
    /\ RigConfigured \subseteq SUBSET {"control", "follow", "centerLock", "followModem"}

Modes == {"control", "follow", "centerLock", "followModem"}
AtRest == 4   \* polls in a row without an event

VARIABLES
    dial,         \* the radio's frequency
    rigStep,      \* the thread's, "none" without one
    rigStopping,
    rigFreqs,     \* freq and newFreq, freqChanged, setOneShot, and what a poll has read
    modes,        \* of the thread: those of Modes that are on
    rigConfig,    \* the modes that are configured, and whether the radio is enabled
    rigItem,      \* rigEnableMenuItem is checked
    rigCall,      \* what the GUI thread does once the thread has ended
    rigLock,      \* lockFrequency, 0 when unlocked
    appFreq,      \* CubicSDR's frequency
    modems,       \* frequency and follow of each
    chosen,       \* currentModem
    hovered,      \* activeContextModem
    quietPolls,   \* polls since the last event (for the property)
    touched,      \* the frequency last chosen, 0 when that may be overlooked (likewise)
    rigEvents

threadVars == <<rigStep, rigStopping, rigFreqs>>
programVars == <<rigConfig, rigItem, rigCall, rigLock>>
tunedVars == <<appFreq, modems, chosen, hovered>>
rigVars == <<dial, threadVars, modes, programVars, tunedVars, quietPolls, touched, rigEvents>>

RigIsActive == rigStep \notin {"none", "ended"}
AppFrequencyFor(freq) == IF freq < RigHalfRate THEN RigHalfRate ELSE freq

\* The constructor leaves setOneShot as it is: either value.
NewRig == [freq : {appFreq}, newFreq : {appFreq}, changed : {TRUE}, oneShot : BOOLEAN,
           last : {NoModem}, active : {NoModem}, asked : {FALSE}, checked : {appFreq}]

RigInit ==
    /\ dial \in RigFrequencies
    /\ rigStep = "none" /\ rigStopping = FALSE
    /\ appFreq = RigHalfRate
    /\ rigFreqs = [freq |-> appFreq, newFreq |-> appFreq, changed |-> FALSE, oneShot |-> FALSE,
                   last |-> NoModem, active |-> NoModem, asked |-> FALSE, checked |-> appFreq]
    /\ modes = {} /\ rigConfig \in [modes : RigConfigured, enabled : {FALSE}]
    /\ rigItem = FALSE /\ rigCall = "none" /\ rigLock = 0
    /\ modems = [d \in RigModems |-> [freq |-> RigHalfRate, follow |-> FALSE]]
    /\ chosen = NoModem /\ hovered = NoModem
    /\ quietPolls = 0 /\ touched = 0 /\ rigEvents = 0

-----------------------------------------------------------------------------
(* What the program does with a frequency.                                 *)

\* setFrequency of the thread.
Request(f, freq) == [f EXCEPT !.newFreq = freq, !.changed = TRUE, !.oneShot = TRUE]

\* A chosen modem asks the radio to follow it, also when it is the radio that moves it.
RequestBy(f, d, freq) ==
    IF RigIsActive /\ "followModem" \in modes /\ chosen = d THEN Request(f, freq) ELSE f

\* RigThread moves the current modem, if there is one.
MoveModem(f, d) ==
    IF d = NoModem THEN rigFreqs' = f /\ UNCHANGED modems
    ELSE /\ rigFreqs' = RequestBy(f, d, f.freq)
         /\ modems' = [modems EXCEPT ![d] = [freq |-> f.freq, follow |-> TRUE]]

-----------------------------------------------------------------------------
(* The thread.                                                             *)

RigEvent == /\ rigEvents < MaxRigEvents /\ rigEvents' = rigEvents + 1
            /\ quietPolls' = 0
NoEvent == UNCHANGED <<quietPolls, rigEvents>>

Answers(status) == IF status = "ok" THEN NoEvent ELSE RigEvent

OpenRig(status) ==
    /\ rigStep \in {"created", "opening"}
    /\ IF rigStep = "created"
       THEN status = "ok" /\ rigStep' = "opening" /\ rigStopping' = FALSE
       ELSE /\ status # "unsupported"
            /\ rigStep' = IF status = "ok" THEN "sleep" ELSE "ended"
            /\ rigStopping' = (rigStopping \/ status = "error")
    /\ Answers(status)
    /\ UNCHANGED <<dial, rigFreqs, modes, programVars, tunedVars, touched>>

\* After each 150 ms: the modems, and whether a request is waiting.
BeginPoll ==
    /\ rigStep = "sleep"
    /\ rigStep' = IF rigStopping THEN "ended" ELSE "ask"
    /\ rigFreqs' = [rigFreqs EXCEPT !.last = chosen, !.active = hovered,
                       !.asked = rigFreqs.changed /\ ("control" \in modes \/ rigFreqs.oneShot)]
    /\ NoEvent
    /\ UNCHANGED <<dial, rigStopping, modes, programVars, tunedVars, touched>>

AfterAsking(status) ==
    CASE status = "error" \/ (rigStopping /\ status = "ok") -> "ended"
      [] status = "unsupported" -> "adjust"
      [] status = "ok" /\ ~rigStopping -> IF rigFreqs.asked THEN "answer" ELSE "compare"

AskRig(status) ==
    /\ rigStep = "ask"
    /\ rigStep' = AfterAsking(status)
    /\ rigFreqs' = IF status # "ok" THEN rigFreqs
                   ELSE IF rigFreqs.asked THEN [rigFreqs EXCEPT !.freq = dial]
                   ELSE [rigFreqs EXCEPT !.checked = dial]
    /\ Answers(status)
    /\ UNCHANGED <<dial, rigStopping, modes, programVars, tunedVars, touched>>

\* What this request sets is not looked at again; neither is what the radio says of it, so
\* that a radio that refuses is taken to have moved.
AnswerRequest(status) ==
    /\ rigStep = "answer" /\ rigStep' = "clear"
    /\ IF rigFreqs.freq # rigFreqs.newFreq /\ rigFreqs.oneShot
       THEN /\ dial' = IF status = "ok" THEN rigFreqs.newFreq ELSE dial
            /\ rigFreqs' = [rigFreqs EXCEPT !.freq = rigFreqs.newFreq]
       ELSE status = "ok" /\ UNCHANGED <<dial, rigFreqs>>
    /\ Answers(status)
    /\ UNCHANGED <<rigStopping, modes, programVars, tunedVars, touched>>

ClearRequest ==
    /\ rigStep = "clear" /\ rigStep' = "adjust"
    /\ rigFreqs' = [rigFreqs EXCEPT !.changed = FALSE, !.oneShot = FALSE]
    /\ NoEvent
    /\ UNCHANGED <<dial, rigStopping, modes, programVars, tunedVars, touched>>

DialMoved == rigFreqs.checked # rigFreqs.freq /\ "follow" \in modes
AppMoved == /\ appFreq # rigFreqs.freq /\ "control" \in modes
            /\ modes \cap {"centerLock", "followModem"} = {}

\* The radio's dial was turned.
FollowDial ==
    /\ LET f == [rigFreqs EXCEPT !.freq = rigFreqs.checked]
       IN IF "followModem" \in modes THEN MoveModem(f, rigFreqs.last) /\ UNCHANGED appFreq
          ELSE rigFreqs' = f /\ appFreq' = AppFrequencyFor(f.freq) /\ UNCHANGED modems
    /\ UNCHANGED dial

\* Mutant: the radio is told the frequency that was asked for last.
TuneRigToRequest(status) ==
    /\ rigFreqs' = [rigFreqs EXCEPT !.freq = appFreq]
    /\ dial' = IF status = "ok" THEN rigFreqs.newFreq ELSE dial
    /\ UNCHANGED <<appFreq, modems>>

\* The receiver was tuned: the radio goes along, or cannot, and is then taken to have moved.
TuneRig(status) ==
    /\ rigFreqs' = [rigFreqs EXCEPT !.freq = appFreq]
    /\ dial' = IF status = "ok" THEN appFreq ELSE dial
    /\ UNCHANGED <<appFreq, modems>>

ModemMoved == /\ "followModem" \in modes /\ rigFreqs.last # NoModem
              /\ modems[rigFreqs.last].freq # rigFreqs.freq

Compare(status) ==
    /\ rigStep = "compare"
    /\ rigStep' = IF status = "error" THEN "ended" ELSE "adjust"
    /\ CASE DialMoved -> status = "ok" /\ FollowDial
         [] ~DialMoved /\ AppMoved -> TuneRig(status)
         [] ~DialMoved /\ ~AppMoved /\ ModemMoved ->
               status = "ok" /\ MoveModem(rigFreqs, rigFreqs.last) /\ UNCHANGED <<dial, appFreq>>
         [] OTHER -> status = "ok" /\ UNCHANGED <<dial, rigFreqs, appFreq, modems>>
    /\ Answers(status)
    /\ touched' = IF status = "ok" THEN touched ELSE 0
    /\ UNCHANGED <<rigStopping, modes, programVars, chosen, hovered>>

\* The receiver follows a modem that the pointer is not on.
Adjust ==
    /\ rigStep = "adjust" /\ rigStep' = "sleep"
    /\ appFreq' = IF /\ "centerLock" \notin modes /\ "followModem" \in modes
                     /\ rigFreqs.last # NoModem /\ rigFreqs.last # rigFreqs.active
                  THEN AppFrequencyFor(rigFreqs.freq) ELSE appFreq
    /\ quietPolls' = IF quietPolls < AtRest THEN quietPolls + 1 ELSE quietPolls
    /\ UNCHANGED <<dial, rigStopping, rigFreqs, modes, programVars, modems, chosen, hovered,
                   touched, rigEvents>>

-----------------------------------------------------------------------------
(* The user.                                                               *)

\* A choice between two polls, when the one before it has been followed, is not overlooked.
Touch(freq) ==
    touched' = IF rigStep = "sleep" /\ quietPolls = AtRest THEN freq ELSE 0

TurnDial(freq) ==
    /\ RigEvent /\ Touch(freq) /\ dial' = freq
    /\ UNCHANGED <<threadVars, modes, programVars, tunedVars>>

SetAppFrequency(freq) ==
    /\ RigEvent /\ Touch(AppFrequencyFor(freq))
    /\ appFreq' = AppFrequencyFor(freq)
    /\ UNCHANGED <<dial, threadVars, modes, programVars, modems, chosen, hovered>>

\* The key C: the receiver goes to the modem, and a radio that would not follow is told to.
CenterHere ==
    /\ RigEvent /\ touched' = 0 /\ hovered # NoModem
    /\ appFreq' = AppFrequencyFor(modems[hovered].freq)
    /\ rigFreqs' = IF RigIsActive /\ ("control" \notin modes \/ "centerLock" \in modes)
                   THEN Request(rigFreqs, appFreq') ELSE rigFreqs
    /\ UNCHANGED <<dial, rigStep, rigStopping, modes, programVars, modems, chosen, hovered>>

TuneModem(d, freq) ==
    /\ RigEvent /\ touched' = 0
    /\ modems' = [modems EXCEPT ![d].freq = freq]
    /\ rigFreqs' = RequestBy(rigFreqs, d, freq)
    /\ UNCHANGED <<dial, rigStep, rigStopping, modes, programVars, appFreq, chosen, hovered>>

\* setActiveDemodulator, for good: the hovered modem comes first.
ChooseModem(d) ==
    /\ RigEvent /\ touched' = 0
    /\ chosen' = IF hovered # NoModem THEN hovered ELSE d
    /\ hovered' = d
    /\ rigFreqs' = IF RigIsActive /\ "followModem" \in modes /\ chosen' # NoModem
                   THEN Request(rigFreqs, modems[chosen'].freq) ELSE rigFreqs
    /\ UNCHANGED <<dial, rigStep, rigStopping, modes, programVars, appFreq, modems>>

HoverModem(d) ==
    /\ RigEvent /\ hovered' = d
    /\ UNCHANGED <<dial, threadVars, modes, programVars, appFreq, modems, chosen, touched>>

\* SDRPostThread: the receiver goes after a modem that left its range.
FollowModem(d) ==
    /\ modems[d].follow
    /\ appFreq - modems[d].freq > RigHalfRate \/ modems[d].freq - appFreq > RigHalfRate
    /\ appFreq' = AppFrequencyFor(modems[d].freq)
    /\ modems' = [modems EXCEPT ![d].follow = FALSE]
    /\ quietPolls' = 0 /\ touched' = 0
    /\ UNCHANGED <<dial, threadVars, modes, programVars, chosen, hovered, rigEvents>>

-----------------------------------------------------------------------------
(* The menu.                                                               *)

ToggleMode(mode) ==
    LET toggled(set) == IF mode \in set THEN set \ {mode} ELSE set \cup {mode}
    IN  /\ RigEvent /\ touched' = 0
        /\ IF RigIsActive
           THEN modes' = toggled(modes) /\ rigConfig' = [rigConfig EXCEPT !.modes = modes']
           ELSE rigConfig' = [rigConfig EXCEPT !.modes = toggled(@)] /\ UNCHANGED modes
        /\ UNCHANGED <<dial, threadVars, rigItem, rigCall, rigLock, tunedVars>>

\* stopRig: terminate, and join, as long as that takes.
StopRig(call) ==
    /\ rigCall = "none" /\ rigCall' = call
    /\ rigStopping' = (rigStopping \/ rigStep # "none")

\* The menu shows its own toggle, whatever becomes of it.
ToggleRig ==
    /\ RigEvent /\ touched' = 0
    /\ StopRig(IF RigIsActive THEN "disable" ELSE "enable")
    /\ rigItem' = ~rigItem
    /\ UNCHANGED <<dial, rigStep, rigFreqs, modes, rigConfig, rigLock, tunedVars>>

\* Another model, port or serial rate; the lock is the one of the new model at once.
ChooseRig(if) ==
    /\ RigEvent /\ touched' = 0
    /\ rigLock' = if
    /\ IF RigIsActive THEN StopRig("reset") ELSE UNCHANGED <<rigCall, rigStopping>>
    /\ UNCHANGED <<dial, rigStep, rigFreqs, modes, rigConfig, rigItem, tunedVars>>

\* When a device has been started.
RelockForDevice(if) ==
    /\ RigEvent /\ touched' = 0 /\ rigCall = "none"
    /\ IF rigConfig.enabled /\ ~RigIsActive
       THEN StopRig("enable") /\ rigItem' = TRUE /\ UNCHANGED rigLock
       ELSE /\ rigLock' = IF RigIsActive THEN if ELSE rigLock
            /\ UNCHANGED <<rigCall, rigStopping, rigItem>>
    /\ UNCHANGED <<dial, rigStep, rigFreqs, modes, rigConfig, tunedVars>>

\* OnIdle finds that the thread has ended by itself.
HandleRigMenu ==
    /\ rigItem /\ ~RigIsActive /\ rigItem' = FALSE
    /\ StopRig("forget")
    /\ UNCHANGED <<dial, rigStep, rigFreqs, modes, rigConfig, rigLock, tunedVars, touched>>
    /\ NoEvent

\* The thread has been joined: what the call goes on with.
RigJoined(if) ==
    /\ rigCall # "none" /\ rigStep \in {"none", "ended"}
    /\ rigCall' = "none"
    /\ IF rigCall \in {"enable", "reset"}
       THEN /\ rigStep' = "created" /\ rigStopping' = FALSE
            /\ rigFreqs' \in NewRig /\ modes' = rigConfig.modes
       ELSE rigStep' = "none" /\ rigStopping' = FALSE /\ UNCHANGED <<rigFreqs, modes>>
    /\ rigLock' = CASE rigCall = "enable" -> if
                    [] rigCall = "disable" -> 0
                    [] OTHER -> rigLock
    /\ rigConfig' = IF rigCall = "reset" THEN rigConfig
                    ELSE [rigConfig EXCEPT !.enabled = (rigCall = "enable")]
    /\ quietPolls' = 0 /\ touched' = 0
    /\ UNCHANGED <<dial, rigItem, tunedVars, rigEvents>>

\* The GUI thread does nothing else while it joins.
UserActs ==
    \/ \E freq \in RigFrequencies : SetAppFrequency(freq)
    \/ CenterHere
    \/ \E d \in RigModems, freq \in RigFrequencies : TuneModem(d, freq)
    \/ \E d \in RigModems : ChooseModem(d)
    \/ \E d \in RigModems \cup {NoModem} : HoverModem(d)
    \/ \E mode \in Modes : ToggleMode(mode)
    \/ ToggleRig \/ HandleRigMenu
    \/ \E if \in RigIFs : ChooseRig(if) \/ RelockForDevice(if)

RigNext ==
    \/ rigCall = "none" /\ UserActs
    \/ \E freq \in RigFrequencies : TurnDial(freq)
    \/ \E d \in RigModems : FollowModem(d)
    \/ \E if \in RigIFs : RigJoined(if)
    \/ BeginPoll \/ ClearRequest \/ Adjust
    \/ \E status \in {"ok", "unsupported", "error"} :
          OpenRig(status) \/ AskRig(status) \/ AnswerRequest(status) \/ Compare(status)

RigSpec == RigInit /\ [][RigNext]_rigVars

-----------------------------------------------------------------------------
(* Properties.                                                             *)

RigTypeOK ==
    /\ dial \in RigFrequencies /\ appFreq \in RigFrequencies
    /\ rigStep \in {"none", "created", "opening", "sleep", "ask", "answer", "clear", "compare",
                    "adjust", "ended"}
    /\ modes \subseteq Modes /\ chosen \in RigModems \cup {NoModem}

\* When four polls have gone by without an event, the radio is where the program is: at the
\* receiver's frequency when both directions are on, at the current modem's when the modem is
\* tracked; and of a touch of the dial or of the receiver between two polls, once things had
\* come to rest, neither undoes the other (RigThread::run, RigThread.cpp:133-193).
RigSettles ==
    quietPolls = AtRest /\ rigStep = "sleep" /\ ~rigStopping /\ {"control", "follow"} \subseteq modes =>
        /\ modes \cap {"centerLock", "followModem"} = {} =>
              /\ dial = appFreq
              /\ touched # 0 => appFreq = AppFrequencyFor(touched)
        /\ "followModem" \in modes /\ chosen # NoModem => dial = modems[chosen].freq
=============================================================================
