--------------------------- MODULE DeviceSettings ---------------------------
(***************************************************************************)
(* How what the user chooses reaches the device.                           *)
(*                                                                         *)
(* A setter of SDRThread stores a value and a flag; the SDR thread looks at *)
(* the flags one after the other before it reads (updateSettings in        *)
(* src/sdr/SoapySDRThread.cpp), applies the value and clears the flag, and *)
(* a setter may come in between.  Gains and the settings of a driver are   *)
(* handed over under a mutex.  The setters of src/CubicSDR.cpp, called by  *)
(* menus and canvases, reach a thread that has not terminated.             *)
(*                                                                         *)
(* One device, started and stopped; one gain and one driver setting stand  *)
(* for all.  A setter is one step: it stores the value before the flag, so *)
(* that a thread that reads the value early finds the flag later.          *)
(***************************************************************************)
EXTENDS Integers, Sequences, SequencesExt

CONSTANTS
    Offered,          \* for each kind of setting, the values that are chosen
    Defaults,         \* and the one it has at first
    HasPPM,           \* of the device
    MaxChoices,       \* bound: calls of setters
    MaxDeviceStarts   \* bound

Kinds == <<"antenna", "offset", "rate", "ppm", "freq", "agc", "gain", "setting">>

ASSUME DeviceSettingsAssumption ==
    /\ DOMAIN Offered = {"antenna", "offset", "rate", "ppm", "freq", "gain", "setting"}
    /\ \A k \in DOMAIN Offered : Offered[k] \subseteq Nat /\ Defaults[k] \in Nat
    /\ Offered.rate \cup {Defaults.rate} \subseteq Nat \ {0, 1}
    /\ HasPPM \in BOOLEAN /\ {MaxChoices, MaxDeviceStarts} \subseteq Nat

VARIABLES
    at,            \* where the thread is in updateSettings: kind and phase
    wanted,        \* the values SDRThread stores
    changed,       \* its flags
    applied,       \* what the device is set to
    frequencyLock, \* locked, init, and the frequency
    savedGain,     \* in the device's configuration, 0 when there is none
    keptFrequency, \* the frequency that updateSettings stores back
    stopAsked,
    relock,        \* AppFrame was notified, and locks a rig's frequency again
    raced,         \* kinds whose last setter came between application and clearing, and
                   \* "lock" when the last lock did
    choices, deviceStarts

settingsVars == <<at, wanted, changed, applied, frequencyLock, savedGain, keptFrequency, stopAsked,
                  relock, raced, choices, deviceStarts>>

At(kind, phase) == [kind |-> kind, phase |-> phase]
Stopped == At("none", "stopped")
FirstKind == At("antenna", "test")

\* The defaults; AGC is on, and its flag is not set.
SettingsInit ==
    /\ at = Stopped
    /\ wanted = [k \in ToSet(Kinds) |-> IF k = "agc" THEN TRUE ELSE Defaults[k]]
    /\ applied = wanted
    /\ changed = {} /\ frequencyLock = [locked |-> FALSE, init |-> FALSE, freq |-> 0]
    /\ savedGain = 0 /\ keptFrequency = 0
    /\ stopAsked = FALSE /\ relock = FALSE /\ raced = {}
    /\ choices = 0 /\ deviceStarts = 0

-----------------------------------------------------------------------------
(* The setters.                                                            *)

\* The thread is between application and clearing of a setting of this kind.
InWindow(kind) ==
    /\ at.phase \notin {"test", "stopped"}
    /\ \/ at.kind = kind
       \/ at.kind = "agc" /\ kind = "gain"
       \/ at.kind = "freq" /\ kind = "lock"
       \/ at.kind = "offset" /\ kind = "freq" /\ keptFrequency # 0

Clamp(freq, rate) == IF freq < rate \div 2 THEN rate \div 2 ELSE freq

Choose ==
    /\ choices < MaxChoices
    /\ choices' = choices + 1

Note(kinds) == raced' = (raced \ kinds) \cup {k \in kinds : InWindow(k)}

\* setOffset, setAntenna, setPPM, setAGCMode
SetValue(kind, value) ==
    /\ Choose /\ at # Stopped
    /\ wanted' = [wanted EXCEPT ![kind] = value]
    /\ changed' = changed \cup {kind}
    /\ Note({kind})
    /\ UNCHANGED <<at, applied, frequencyLock, savedGain, keptFrequency, stopAsked, relock, deviceStarts>>

SetFrequency(freq) ==
    /\ Choose
    /\ wanted' = [wanted EXCEPT !.freq = Clamp(freq, wanted.rate)]
    /\ changed' = changed \cup {"freq"}
    /\ Note({"freq"})
    /\ UNCHANGED <<at, applied, frequencyLock, savedGain, keptFrequency, stopAsked, relock, deviceStarts>>

\* The frequency is set again, for the range of the rate.
SetSampleRate(rate) ==
    /\ Choose /\ at # Stopped
    /\ wanted' = [wanted EXCEPT !.rate = rate, !.freq = Clamp(wanted.freq, rate)]
    /\ changed' = changed \cup {"rate", "freq"}
    /\ Note({"rate", "freq"})
    /\ UNCHANGED <<at, applied, frequencyLock, savedGain, keptFrequency, stopAsked, relock, deviceStarts>>

LockFrequency(freq) ==
    /\ frequencyLock' = [locked |-> TRUE, init |-> FALSE, freq |-> freq]
    /\ wanted' = [wanted EXCEPT !.freq = Clamp(freq, wanted.rate)]
    /\ changed' = changed \cup {"freq"}
    /\ Note({"freq", "lock"})

ChooseLock(freq) ==
    /\ Choose /\ at # Stopped
    /\ LockFrequency(freq)
    /\ UNCHANGED <<at, applied, savedGain, keptFrequency, stopAsked, relock, deviceStarts>>

UnlockFrequency ==
    /\ Choose /\ at # Stopped
    /\ frequencyLock' = [frequencyLock EXCEPT !.locked = FALSE, !.init = FALSE]
    /\ changed' = changed \cup {"freq"}
    /\ Note({"freq"})
    /\ UNCHANGED <<at, wanted, applied, savedGain, keptFrequency, stopAsked, relock, deviceStarts>>

\* Under gain_busy, the saved gain included; also from the panels of GainCanvas.
SetGain(value) ==
    /\ Choose
    /\ wanted' = [wanted EXCEPT !.gain = value]
    /\ changed' = changed \cup {"gain"}
    /\ savedGain' = value
    /\ Note({"gain"})
    /\ UNCHANGED <<at, applied, frequencyLock, keptFrequency, stopAsked, relock, deviceStarts>>

\* Under setting_busy.
WriteSetting(value) ==
    /\ Choose
    /\ wanted' = [wanted EXCEPT !.setting = value]
    /\ changed' = changed \cup {"setting"}
    /\ Note({"setting"})
    /\ UNCHANGED <<at, applied, frequencyLock, savedGain, keptFrequency, stopAsked, relock, deviceStarts>>

\* GainCanvas saves the gain it reads from a device that is active.
UpdateGainValues ==
    /\ at # Stopped /\ at.phase \notin {"created", "init"}
    /\ savedGain' = applied.gain
    /\ UNCHANGED <<at, wanted, changed, applied, frequencyLock, keptFrequency, stopAsked, relock, raced,
                   choices, deviceStarts>>

\* handleUpdateDeviceParams, for a rig that has a frequency.
Relock ==
    /\ relock
    /\ relock' = FALSE
    /\ IF frequencyLock.locked /\ at # Stopped
       THEN LockFrequency(frequencyLock.freq)
       ELSE UNCHANGED <<frequencyLock, wanted, changed, raced>>
    /\ UNCHANGED <<at, applied, savedGain, keptFrequency, stopAsked, choices, deviceStarts>>

-----------------------------------------------------------------------------
(* Starting and stopping.                                                  *)

\* setDevice: only the frequency is passed on to a thread that is not there yet.
StartDevice ==
    /\ at = Stopped /\ deviceStarts < MaxDeviceStarts
    /\ at' = At("none", "created")
    /\ deviceStarts' = deviceStarts + 1
    /\ wanted' = [wanted EXCEPT !.freq = Clamp(wanted.freq, wanted.rate)]
    /\ changed' = changed \cup {"freq"}
    /\ raced' = raced \ {"freq"}
    /\ stopAsked' = FALSE
    /\ UNCHANGED <<applied, frequencyLock, savedGain, keptFrequency, relock, choices>>

\* init up to the settings of the driver; what they were is forgotten if none changed.
InitDevice ==
    /\ at = At("none", "created")
    /\ at' = At(IF "setting" \in changed THEN "none" ELSE "setting", "init")
    /\ applied' = [applied EXCEPT !.rate = wanted.rate, !.freq = wanted.freq - wanted.offset,
                                  !.ppm = IF HasPPM THEN wanted.ppm ELSE @, !.agc = wanted.agc]
    /\ changed' = changed \cup {"ppm"}
    /\ UNCHANGED <<wanted, frequencyLock, savedGain, keptFrequency, stopAsked, relock, raced, choices,
                   deviceStarts>>

\* Under setting_busy: writes what has changed, reads the rest; then updateSettings.
InitSettings ==
    /\ at.phase = "init"
    /\ IF at.kind = "none"
       THEN applied' = [applied EXCEPT !.setting = wanted.setting] /\ UNCHANGED wanted
       ELSE wanted' = [wanted EXCEPT !.setting = applied.setting] /\ UNCHANGED applied
    /\ changed' = (changed \ {"setting"}) \cup {"rate"}
    /\ at' = FirstKind
    /\ relock' = TRUE
    /\ UNCHANGED <<frequencyLock, savedGain, keptFrequency, stopAsked, raced, choices, deviceStarts>>

AskStop ==
    /\ at # Stopped /\ ~stopAsked
    /\ stopAsked' = TRUE
    /\ UNCHANGED <<at, wanted, changed, applied, frequencyLock, savedGain, keptFrequency, relock, raced,
                   choices, deviceStarts>>

StopDevice ==
    /\ at = FirstKind /\ stopAsked
    /\ at' = Stopped
    /\ UNCHANGED <<wanted, changed, applied, frequencyLock, savedGain, keptFrequency, stopAsked, relock,
                   raced, choices, deviceStarts>>

-----------------------------------------------------------------------------
(* updateSettings.                                                         *)

outsideUpdate == <<savedGain, stopAsked, raced, choices, deviceStarts>>

NextKind ==
    LET k == CHOOSE i \in DOMAIN Kinds : Kinds[i] = at.kind
    IN IF k = Len(Kinds) THEN FirstKind ELSE At(Kinds[k + 1], "test")

Testing(kind) == at = At(kind, "test") /\ kind \in changed

SkipUnchanged ==
    /\ at.phase = "test" /\ at.kind \in ToSet(Kinds)
    /\ \/ at.kind \notin changed
       \/ at.kind = "ppm" /\ ~HasPPM
       \/ at.kind = "gain" /\ wanted.agc
    /\ ~(at = FirstKind /\ stopAsked)
    /\ at' = NextKind
    /\ UNCHANGED <<wanted, changed, applied, frequencyLock, keptFrequency, relock, outsideUpdate>>

ClearFlag ==
    /\ at.phase = "clear"
    /\ changed' = changed \ {at.kind}
    /\ at' = IF at.kind = "agc" /\ ~wanted.agc THEN At("agc", "reread") ELSE NextKind
    /\ relock' = (relock \/ at.kind \in {"rate", "agc"})
    /\ UNCHANGED <<wanted, applied, frequencyLock, keptFrequency, outsideUpdate>>

UpdateAntenna ==
    /\ Testing("antenna")
    /\ applied' = [applied EXCEPT !.antenna = wanted.antenna]
    /\ at' = At("antenna", "clear")
    /\ UNCHANGED <<wanted, changed, frequencyLock, keptFrequency, relock, outsideUpdate>>

\* The frequency is loaded and stored again, and set once more further down.
UpdateOffset ==
    /\ Testing("offset")
    /\ keptFrequency' = IF "freq" \in changed THEN 0 ELSE wanted.freq
    /\ at' = At("offset", "store")
    /\ UNCHANGED <<wanted, changed, applied, frequencyLock, relock, outsideUpdate>>

\* Mutant: the frequency is not set again for the new offset.
StoreUnannounced ==
    /\ at.phase = "store"
    /\ keptFrequency' = 0
    /\ at' = At("offset", "clear")
    /\ UNCHANGED <<wanted, changed, applied, frequencyLock, relock, outsideUpdate>>

StoreFrequency ==
    /\ at.phase = "store"
    /\ wanted' = IF keptFrequency # 0 THEN [wanted EXCEPT !.freq = keptFrequency] ELSE wanted
    /\ changed' = IF keptFrequency # 0 THEN changed \cup {"freq"} ELSE changed
    /\ keptFrequency' = 0
    /\ at' = At("offset", "clear")
    /\ UNCHANGED <<applied, frequencyLock, relock, outsideUpdate>>

\* The device may take another rate than the one asked for, which is then the rate.
UpdateRate ==
    /\ Testing("rate")
    /\ applied' = [applied EXCEPT !.rate = wanted.rate]
    /\ at' = At("rate", "reread")
    /\ UNCHANGED <<wanted, changed, frequencyLock, keptFrequency, relock, outsideUpdate>>

TakeAppliedRate(rate) ==
    /\ at = At("rate", "reread")
    /\ applied' = [applied EXCEPT !.rate = rate]
    /\ wanted' = [wanted EXCEPT !.rate = rate]
    /\ at' = At("rate", "clear")
    /\ UNCHANGED <<changed, frequencyLock, keptFrequency, relock, outsideUpdate>>

UpdatePPM ==
    /\ Testing("ppm") /\ HasPPM
    /\ applied' = [applied EXCEPT !.ppm = wanted.ppm]
    /\ at' = At("ppm", "clear")
    /\ UNCHANGED <<wanted, changed, frequencyLock, keptFrequency, relock, outsideUpdate>>

\* A locked frequency is set once.
UpdateFrequency ==
    /\ Testing("freq")
    /\ applied' = [applied EXCEPT !.freq =
            IF ~frequencyLock.locked THEN wanted.freq - wanted.offset
            ELSE IF frequencyLock.init THEN @ ELSE frequencyLock.freq]
    /\ at' = At("freq", IF frequencyLock.locked /\ ~frequencyLock.init THEN "lock" ELSE "clear")
    /\ UNCHANGED <<wanted, changed, frequencyLock, keptFrequency, relock, outsideUpdate>>

FrequencyIsLocked ==
    /\ at.phase = "lock"
    /\ frequencyLock' = [frequencyLock EXCEPT !.init = TRUE]
    /\ at' = At("freq", "clear")
    /\ UNCHANGED <<wanted, changed, applied, keptFrequency, relock, outsideUpdate>>

\* The device chooses the gain while AGC is on.
UpdateAGC(gain) ==
    /\ Testing("agc")
    /\ applied' = [applied EXCEPT !.agc = wanted.agc, !.gain = IF wanted.agc THEN gain ELSE @]
    /\ at' = At("agc", "clear")
    /\ UNCHANGED <<wanted, changed, frequencyLock, keptFrequency, relock, outsideUpdate>>

UpdateGains ==
    /\ at = At("agc", "reread")
    /\ wanted' = [wanted EXCEPT !.gain = applied.gain]
    /\ changed' = changed \ {"gain"}
    /\ at' = At("agc", "reapply")
    /\ UNCHANGED <<applied, frequencyLock, keptFrequency, relock, outsideUpdate>>

ReapplySavedGains ==
    /\ at.phase = "reapply"
    /\ wanted' = [wanted EXCEPT !.gain = IF savedGain = 0 THEN @ ELSE savedGain]
    /\ changed' = IF savedGain = 0 THEN changed ELSE changed \cup {"gain"}
    /\ at' = NextKind
    /\ UNCHANGED <<applied, frequencyLock, keptFrequency, relock, outsideUpdate>>

\* The flag is tested before the mutex is taken, and cleared under it.
UpdateGain ==
    /\ Testing("gain") /\ ~wanted.agc
    /\ applied' = [applied EXCEPT !.gain = wanted.gain]
    /\ changed' = changed \ {"gain"}
    /\ at' = NextKind
    /\ UNCHANGED <<wanted, frequencyLock, keptFrequency, relock, outsideUpdate>>

UpdateSetting ==
    /\ Testing("setting")
    /\ applied' = [applied EXCEPT !.setting = wanted.setting]
    /\ changed' = changed \ {"setting"}
    /\ relock' = TRUE
    /\ at' = NextKind
    /\ UNCHANGED <<wanted, frequencyLock, keptFrequency, outsideUpdate>>

-----------------------------------------------------------------------------

UserSets ==
    \/ \E kind \in {"antenna", "offset", "ppm"} : \E value \in Offered[kind] : SetValue(kind, value)
    \/ \E mode \in BOOLEAN : SetValue("agc", mode)
    \/ \E freq \in Offered.freq : SetFrequency(freq) \/ ChooseLock(freq)
    \/ UnlockFrequency
    \/ \E rate \in Offered.rate : SetSampleRate(rate)
    \/ \E value \in Offered.gain : SetGain(value)
    \/ \E value \in Offered.setting : WriteSetting(value)
    \/ UpdateGainValues \/ Relock

ThreadUpdates ==
    \/ InitDevice \/ InitSettings \/ StopDevice
    \/ SkipUnchanged \/ ClearFlag \/ UpdateAntenna \/ UpdateOffset \/ StoreFrequency
    \/ UpdateRate \/ \E rate \in Offered.rate : TakeAppliedRate(rate)
    \/ UpdatePPM \/ UpdateFrequency \/ FrequencyIsLocked
    \/ \E gain \in Offered.gain : UpdateAGC(gain)
    \/ UpdateGains \/ ReapplySavedGains \/ UpdateGain \/ UpdateSetting

SettingsNext == UserSets \/ StartDevice \/ AskStop \/ ThreadUpdates

SettingsSpec == SettingsInit /\ [][SettingsNext]_settingsVars

-----------------------------------------------------------------------------
(* Properties.                                                             *)

SettingsTypeOK ==
    /\ at.kind \in ToSet(Kinds) \cup {"none"}
    /\ changed \subseteq ToSet(Kinds) /\ raced \subseteq ToSet(Kinds) \cup {"lock"}
    /\ DOMAIN wanted = ToSet(Kinds) /\ DOMAIN applied = ToSet(Kinds)

\* No flag of these is set, and no setter of those was raced.
Settled(flags, setters) == at = FirstKind /\ flags \cap changed = {} /\ setters \cap raced = {}

\* The device does what was asked for last: through restarts, AGC and locks a setting that
\* no flag announces is the one applied, unless its setter came in the one place where
\* updateSettings loses it, between an application and the clearing of its flag.  A lock
\* lost there stays lost until the frequency is locked again, or unlocked: choosing a
\* frequency does not bring it back (SoapySDRThread.cpp:554-717, 819-957).
OnlyRacedSettingsAreLost ==
    /\ \A kind \in {"antenna", "rate", "agc", "setting"} :
          Settled({kind}, {kind}) => applied[kind] = wanted[kind]
    /\ HasPPM /\ Settled({"ppm"}, {"ppm"}) => applied.ppm = wanted.ppm
    /\ ~wanted.agc /\ Settled({"agc", "gain"}, {"agc", "gain"}) => applied.gain = wanted.gain
    /\ frequencyLock.locked /\ ~relock /\ Settled({"freq"}, {"lock"}) =>
          applied.freq = frequencyLock.freq
    /\ ~frequencyLock.locked /\ Settled({"freq", "offset"}, {"freq", "offset"}) =>
          applied.freq = wanted.freq - wanted.offset
=============================================================================
