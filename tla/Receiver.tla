------------------------------ MODULE Receiver ------------------------------
(***************************************************************************)
(* Which device is received from: finding devices, choosing one, starting  *)
(* and stopping its thread, and leaving the program (src/CubicSDR.cpp,     *)
(* src/sdr/SDREnumerator.cpp, SDRDeviceInfo.cpp, SoapySDRThread.cpp,       *)
(* src/forms/SDRDevices/SDRDevices.cpp, src/AppFrame.cpp).                 *)
(*                                                                         *)
(* A device is known by the SDRDeviceInfo a scan made for it; made holds   *)
(* the infos that have a driver handle, which getSoapyDevice makes when it *)
(* is missing.  What a driver answers is a choice, and so is whether it    *)
(* comes back before a stop has waited long enough.                        *)
(***************************************************************************)
EXTENDS Integers, Sequences, SequencesExt

CONSTANTS
    Hardware,            \* devices that a scan finds
    MaxReceiverClicks,   \* bound: what the user does
    MaxScans             \* bound: scans

ASSUME ReceiverAssumption == MaxReceiverClicks \in Nat /\ MaxScans \in Nat \ {0}

NoInfo == [device |-> "none", scan |-> 0]
Infos == [device : Hardware, scan : 1 .. MaxScans]

VARIABLES
    sdrStep,          \* of the std::thread t_SDR, "none" when there is none
    sdrStopping, sdrTerminated,
    deviceInfo,       \* SDRThread's
    activeDev,        \* the one run() has loaded
    stoppedDev,       \* CubicSDR's: stopped, but to be started again
    frameInfo,        \* AppFrame's devInfo
    deviceChanged,
    listed,           \* SDREnumerator's list
    made,             \* infos that have a handle
    scans,            \* the scanning threads that were started, by their steps
    enumTerminated, devicesReady,
    dialog,           \* the selector: open, refresh, and the chosen device dev
    guiCall,          \* the call of the GUI thread that waits for the SDR thread
    stopTimedOut,     \* the device was not stopped when that was last tried
    receiverClicks

sdrVars == <<sdrStep, sdrStopping, sdrTerminated, deviceInfo, activeDev>>
frameVars == <<stoppedDev, frameInfo, deviceChanged>>
enumVars == <<listed, scans, enumTerminated, devicesReady>>
receiverVars == <<sdrVars, frameVars, enumVars, made, dialog, guiCall, stopTimedOut, receiverClicks>>

NoCall == [call |-> "none", dev |-> NoInfo, by |-> "none"]
ClosedDialog == [open |-> FALSE, refresh |-> TRUE, dev |-> NoInfo]

\* IOThread's constructor says not terminated; OnInit starts the first scan.
ReceiverInit ==
    /\ sdrStep = "none" /\ sdrStopping = FALSE /\ sdrTerminated = FALSE
    /\ deviceInfo = NoInfo /\ activeDev = NoInfo /\ stoppedDev = NoInfo
    /\ frameInfo = NoInfo /\ deviceChanged = FALSE
    /\ listed = {} /\ made = {}
    /\ scans = <<"created">> /\ enumTerminated = FALSE /\ devicesReady = FALSE
    /\ dialog = ClosedDialog
    /\ guiCall = NoCall /\ stopTimedOut = FALSE /\ receiverClicks = 0

-----------------------------------------------------------------------------
(* The SDR thread.                                                         *)

outsideSDR == <<enumVars, dialog, guiCall, stopTimedOut, receiverClicks>>

SDRStarts ==
    /\ \/ /\ sdrStep = "created"
          /\ sdrStep' = "starting" /\ sdrTerminated' = FALSE
          /\ UNCHANGED <<sdrStopping, activeDev>>
       \/ /\ sdrStep = "starting"
          /\ sdrStep' = IF deviceInfo = NoInfo THEN "done" ELSE "init"
          /\ sdrStopping' = FALSE /\ activeDev' = deviceInfo
          /\ UNCHANGED sdrTerminated
    /\ UNCHANGED <<deviceInfo, frameVars, made, outsideSDR>>

GetDevice == IF deviceInfo = NoInfo THEN stoppedDev ELSE deviceInfo

NotifyInitialized == frameInfo' = GetDevice /\ deviceChanged' = TRUE

\* A stream that cannot be set up, or an exception, ends the thread.
SDRInit(ok) ==
    /\ sdrStep = "init"
    /\ made' = made \cup {activeDev}
    /\ sdrStep' = IF ok THEN "loop" ELSE "done"
    /\ IF ok THEN NotifyInitialized ELSE UNCHANGED <<frameInfo, deviceChanged>>
    /\ UNCHANGED <<sdrStopping, sdrTerminated, deviceInfo, activeDev, stoppedDev, outsideSDR>>

\* readLoop: updateSettings notifies; the loop ends when told to, or by an exception.
SDRLoop(lost) ==
    /\ sdrStep = "loop"
    /\ IF sdrStopping
       THEN sdrStep' = "done" /\ UNCHANGED <<sdrStopping, frameInfo, deviceChanged>>
       ELSE IF lost
       THEN sdrStep' = "done" /\ sdrStopping' = TRUE /\ UNCHANGED <<frameInfo, deviceChanged>>
       ELSE NotifyInitialized /\ UNCHANGED <<sdrStep, sdrStopping>>
    /\ UNCHANGED <<sdrTerminated, deviceInfo, activeDev, stoppedDev, made, outsideSDR>>

SDREnds ==
    /\ sdrStep = "done"
    /\ sdrStep' = "ended" /\ sdrTerminated' = TRUE /\ sdrStopping' = TRUE
    /\ activeDev' = NoInfo
    /\ UNCHANGED <<deviceInfo, frameVars, made, outsideSDR>>

-----------------------------------------------------------------------------
(* Scans.                                                                  *)

outsideScan == <<sdrVars, frameVars, made, dialog, guiCall, stopTimedOut, receiverClicks>>

\* A scan keeps a list that is there already; otherwise it makes an info of each device.
Scan(k) ==
    /\ CASE scans[k] = "created" ->
               /\ scans' = [scans EXCEPT ![k] = "scanning"] /\ enumTerminated' = FALSE
               /\ UNCHANGED <<listed, devicesReady>>
         [] scans[k] = "scanning" ->
               /\ scans' = [scans EXCEPT ![k] = "reporting"]
               /\ listed' = IF listed = {} THEN [device : Hardware, scan : {Len(scans)}] ELSE listed
               /\ UNCHANGED <<enumTerminated, devicesReady>>
         [] scans[k] = "reporting" ->
               /\ scans' = [scans EXCEPT ![k] = "done"] /\ devicesReady' = TRUE
               /\ UNCHANGED <<listed, enumTerminated>>
         [] scans[k] = "done" ->
               /\ scans' = [scans EXCEPT ![k] = "ended"] /\ enumTerminated' = TRUE
               /\ UNCHANGED <<listed, devicesReady>>
         [] OTHER -> FALSE
    /\ UNCHANGED outsideScan

StartScan ==
    /\ Len(scans) < MaxScans
    /\ scans' = Append(scans, "created") /\ devicesReady' = FALSE

-----------------------------------------------------------------------------
(* Stopping and setting the device, which wait for the SDR thread.         *)

Click ==
    /\ guiCall = NoCall /\ receiverClicks < MaxReceiverClicks
    /\ receiverClicks' = receiverClicks + 1

\* What stopDevice, setDevice and OnExit begin with.
Terminate(call, dev, by) ==
    /\ guiCall' = [call |-> call, dev |-> dev, by |-> by]
    /\ sdrStopping' = TRUE
    /\ UNCHANGED <<sdrStep, sdrTerminated, deviceInfo, activeDev>>

\* isTerminated(wait) gave up: stopDevice and setDevice return false, OnExit kills.
\* Without a thread the former two go on.
WaitTimesOut ==
    /\ guiCall.call \in {"stop", "refresh", "set", "exit"}
    /\ ~sdrTerminated
    /\ \/ sdrStep # "none" \/ guiCall.call = "exit"
    /\ guiCall' = IF guiCall.call = "exit" THEN [guiCall EXCEPT !.call = "killed"] ELSE NoCall
    /\ stopTimedOut' = TRUE
    /\ UNCHANGED <<sdrVars, frameVars, enumVars, made, dialog, receiverClicks>>

\* The thread is joined, which waits until it has ended.
Joined ==
    /\ sdrTerminated \/ (sdrStep = "none" /\ guiCall.call # "exit")
    /\ sdrStep \in {"none", "ended"}
    /\ sdrStep' = "none"

FinishStop ==
    /\ guiCall.call = "stop" /\ Joined
    /\ stoppedDev' = deviceInfo /\ deviceInfo' = NoInfo
    /\ guiCall' = NoCall /\ stopTimedOut' = FALSE
    /\ UNCHANGED <<sdrStopping, sdrTerminated, activeDev, frameInfo, deviceChanged, enumVars, made,
                   dialog, receiverClicks>>

\* Mutant: the list is emptied whatever became of the stop.
RefreshUnjoined ==
    /\ guiCall.call = "refresh"
    /\ stoppedDev' = NoInfo /\ deviceInfo' = NoInfo
    /\ made' = made \ listed /\ listed' = {}
    /\ StartScan
    /\ dialog' = [dialog EXCEPT !.refresh = TRUE]
    /\ guiCall' = NoCall /\ stopTimedOut' = FALSE
    /\ UNCHANGED <<sdrStep, sdrStopping, sdrTerminated, activeDev, frameInfo, deviceChanged,
                   enumTerminated, receiverClicks>>

\* doRefreshDevices: reEnumerateDevices unmakes what is listed and scans again.
FinishRefresh ==
    /\ guiCall.call = "refresh" /\ Joined
    /\ stoppedDev' = NoInfo /\ deviceInfo' = NoInfo
    /\ made' = made \ listed /\ listed' = {}
    /\ StartScan
    /\ dialog' = [dialog EXCEPT !.refresh = TRUE]
    /\ guiCall' = NoCall /\ stopTimedOut' = FALSE
    /\ UNCHANGED <<sdrStopping, sdrTerminated, activeDev, frameInfo, deviceChanged, enumTerminated,
                   receiverClicks>>

\* A device whose handle cannot be made is set, but not started.  The dialog closes.
FinishSet(ok) ==
    /\ guiCall.call = "set"
    /\ sdrTerminated \/ sdrStep = "none"
    /\ sdrStep \in {"none", "ended"}
    /\ sdrStep' = IF ok THEN "created" ELSE "none"
    /\ deviceInfo' = guiCall.dev /\ stoppedDev' = NoInfo
    /\ made' = IF ok THEN made \cup {guiCall.dev} ELSE made
    /\ guiCall.dev \in made => ok
    /\ dialog' = IF guiCall.by = "dialog" THEN ClosedDialog ELSE dialog
    /\ guiCall' = NoCall /\ stopTimedOut' = FALSE
    /\ UNCHANGED <<sdrStopping, sdrTerminated, activeDev, frameInfo, deviceChanged, enumVars,
                   receiverClicks>>

\* The other threads are stopped in their turn, and the SDRThread deleted.
FinishExit(othersEnd) ==
    /\ guiCall.call = "exit" /\ sdrTerminated
    /\ IF othersEnd THEN Joined ELSE UNCHANGED sdrStep
    /\ guiCall' = [guiCall EXCEPT !.call = IF othersEnd THEN "deleted" ELSE "killed"]
    /\ UNCHANGED <<sdrStopping, sdrTerminated, deviceInfo, activeDev, frameVars, enumVars, made,
                   dialog, stopTimedOut, receiverClicks>>

-----------------------------------------------------------------------------
(* The main window.                                                        *)

\* A retained device counts as one that is being stopped.
StartStop ==
    /\ Click
    /\ IF ~sdrTerminated \/ deviceInfo # NoInfo
       THEN Terminate("stop", NoInfo, "frame")
       ELSE IF GetDevice # NoInfo
       THEN Terminate("set", GetDevice, "frame")
       ELSE UNCHANGED <<sdrVars, guiCall>>
    /\ UNCHANGED <<frameVars, enumVars, made, dialog, stopTimedOut>>

OnExit ==
    /\ Click /\ Terminate("exit", NoInfo, "frame")
    /\ UNCHANGED <<frameVars, enumVars, made, dialog, stopTimedOut>>

\* The menus ask the device, as the label of the transmitting antenna does if it has one.
OnIdle(hasTX) ==
    /\ guiCall = NoCall /\ frameInfo # NoInfo /\ (deviceChanged \/ hasTX)
    /\ made' = made \cup {frameInfo}
    /\ deviceChanged' = FALSE
    /\ UNCHANGED <<sdrVars, stoppedDev, frameInfo, enumVars, dialog, guiCall, stopTimedOut, receiverClicks>>

DeviceSelector ==
    /\ Click /\ ~dialog.open
    /\ dialog' = [ClosedDialog EXCEPT !.open = TRUE]
    /\ UNCHANGED <<sdrVars, frameVars, enumVars, made, guiCall, stopTimedOut>>

-----------------------------------------------------------------------------
(* The device selector: its buttons work while it does not wait for a scan. *)

OnDeviceTimer ==
    /\ guiCall = NoCall /\ dialog.open /\ dialog.refresh
    /\ enumTerminated /\ devicesReady
    /\ dialog' = [dialog EXCEPT !.refresh = FALSE]
    /\ UNCHANGED <<sdrVars, frameVars, enumVars, made, guiCall, stopTimedOut, receiverClicks>>

ButtonsEnabled == dialog.open /\ ~dialog.refresh

\* Shows the properties of a device that is available.
SelectDevice(info) ==
    /\ Click /\ ButtonsEnabled /\ info \in listed
    /\ made' = made \cup {info}
    /\ dialog' = [dialog EXCEPT !.dev = info]
    /\ UNCHANGED <<sdrVars, frameVars, enumVars, guiCall, stopTimedOut>>

UseSelected ==
    /\ Click /\ ButtonsEnabled /\ dialog.dev # NoInfo
    /\ Terminate("set", dialog.dev, "dialog")
    /\ UNCHANGED <<frameVars, enumVars, made, dialog, stopTimedOut>>

\* Also after a manual device was added.
RefreshDevices ==
    /\ Click /\ ButtonsEnabled
    /\ dialog' = [dialog EXCEPT !.dev = NoInfo]
    /\ Terminate("refresh", NoInfo, "dialog")
    /\ UNCHANGED <<frameVars, enumVars, made, stopTimedOut>>

AddRemote ==
    /\ Click /\ ButtonsEnabled
    /\ StartScan
    /\ dialog' = [dialog EXCEPT !.refresh = TRUE]
    /\ UNCHANGED <<sdrVars, frameVars, listed, enumTerminated, made, guiCall, stopTimedOut>>

\* The info of a manual device leaves the list, and keeps its handle.
RemoveManual ==
    /\ Click /\ ButtonsEnabled /\ dialog.dev \in listed
    /\ listed' = listed \ {dialog.dev}
    /\ dialog' = [dialog EXCEPT !.dev = NoInfo]
    /\ UNCHANGED <<sdrVars, frameVars, scans, enumTerminated, devicesReady, made, guiCall, stopTimedOut>>

CloseSelector ==
    /\ Click /\ dialog.open
    /\ dialog' = ClosedDialog
    /\ UNCHANGED <<sdrVars, frameVars, enumVars, made, guiCall, stopTimedOut>>

-----------------------------------------------------------------------------

ReceiverNext ==
    \/ SDRStarts \/ SDREnds
    \/ \E b \in BOOLEAN : SDRInit(b) \/ SDRLoop(b) \/ FinishSet(b) \/ FinishExit(b) \/ OnIdle(b)
    \/ \E k \in DOMAIN scans : Scan(k)
    \/ WaitTimesOut \/ FinishStop \/ FinishRefresh
    \/ StartStop \/ OnExit \/ DeviceSelector
    \/ OnDeviceTimer \/ \E info \in Infos : SelectDevice(info)
    \/ UseSelected \/ RefreshDevices \/ AddRemote \/ RemoveManual \/ CloseSelector

ReceiverSpec == ReceiverInit /\ [][ReceiverNext]_receiverVars

-----------------------------------------------------------------------------
(* Properties.                                                             *)

ReceiverTypeOK ==
    /\ sdrStep \in {"none", "created", "starting", "init", "loop", "done", "ended"}
    /\ {deviceInfo, activeDev, stoppedDev, frameInfo, dialog.dev} \subseteq Infos \cup {NoInfo}
    /\ listed \cup made \subseteq Infos
    /\ guiCall.call \in {"none", "stop", "refresh", "set", "exit", "killed", "deleted"}

\* The handle of the device that is received from is never taken away: not by a refresh
\* of the list, also after a stop that was not waited for to its end, and when the program
\* leaves no thread is left behind (CubicSDR.cpp:825-921, SDREnumerator.cpp:393-405).
DeviceInUseIsMade ==
    /\ sdrStep = "loop" => activeDev \in made
    /\ guiCall.call = "deleted" => sdrStep = "none"

\* Scans share lists without a lock, and are started by two buttons: there is one at a
\* time, and none while the list can be chosen from (SDRDevices.cpp:412-418,
\* CubicSDR.cpp:857-862).
OneScanAtATime ==
    /\ \A j, k \in DOMAIN scans : {scans[j], scans[k]} \cap {"ended"} = {} => j = k
    /\ ButtonsEnabled => \A k \in DOMAIN scans : scans[k] = "ended"

\* "Treat a retained device as "stopping" even if the worker has just reached its
\* terminated state, so the retry reaps it instead of accidentally starting it again."
\* (AppFrame.cpp:2152-2155): after a stop that took too long, Start/Stop stops.
RetryNeverStarts ==
    guiCall.call = "set" /\ guiCall.by = "frame" => ~stopTimedOut

\* What must hold of the devices, the scans and the start and stop of a device.
ReceiverIsSafe == DeviceInUseIsMade /\ OneScanAtATime /\ RetryNeverStarts
=============================================================================
