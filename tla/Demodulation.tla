---------------------------- MODULE Demodulation ----------------------------
(***************************************************************************)
(* One demodulator: how its modem is made, rebuilt, used and deleted.      *)
(*                                                                         *)
(* DemodulatorPreThread (src/demod/DemodulatorPreThread.cpp) takes IQ      *)
(* blocks, notices what the GUI and the stream have changed since the last *)
(* one, and sends commands to its DemodulatorWorkerThread, which makes a   *)
(* modem, or a new kit for the one it has, and sends both back.  Blocks    *)
(* resampled for a modem go on to DemodulatorThread with pointers to it    *)
(* and its kit; that thread deletes them when a block brings others.  So   *)
(* three threads hold pointers and only the last one frees.                *)
(*                                                                         *)
(* The n-th modem ever made is n, and so is the n-th kit; a kit names the  *)
(* modem that built it.  The queue of blocks to take is never empty.  The  *)
(* audio sample rate is treated by the code as the sample rate is, and     *)
(* left out, as are the bandwidth's value and the settings themselves.     *)
(***************************************************************************)
EXTENDS Integers, Sequences

CONSTANTS
    Types,        \* of modem
    SampleRates,  \* of the blocks taken
    Frequencies,
    WorkerMax,    \* of workerQueue
    ResultsMax,   \* of workerResults
    OutMax,       \* of iqOutputQueue
    MaxSkips,     \* bound: blocks in a row that are out of range
    MaxChanges    \* bound: changes made by the GUI and to the stream

ASSUME DemodulationAssumption ==
    /\ SampleRates \subseteq Nat \ {0} /\ SampleRates # {}
    /\ Types # {}
    /\ Frequencies \subseteq Nat \ {0} /\ Frequencies # {}
    /\ {WorkerMax, ResultsMax, OutMax} \subseteq Nat \ {0}
    /\ {MaxSkips, MaxChanges} \subseteq Nat

VARIABLES
    \* What others change
    newDemodType, demodTypeChanged, bandwidthChanged, modemSettingsChanged,
    newFrequency, frequencyChanged,
    streamRate,            \* sampleRate of the blocks that come in
    gui,                   \* a setter between its two stores: idle | type | frequency
    changes,
    \* DemodulatorPreThread
    preStep,               \* pop | retune | command | push | use | results
    inputRate,             \* inp->sampleRate
    newSampleRate, currentSampleRate, sampleRateChanged,
    currentFrequency, pendingRetune,
    demodType, cModem, cModemKit,
    command,               \* the command about to be pushed
    skipped,               \* how many blocks in a row
    \* DemodulatorWorkerThread
    workerQueue, workerResults,
    worker,                \* its step (take | more | build), batch, modem and kit
    rebuild,               \* modems whose settings ask for a new kit
    made,                  \* modems and kits ever made
    \* DemodulatorThread
    iqOutputQueue,
    demod,                 \* its modem and kit
    heard                  \* the frequency of the last block it demodulated, and whether one
                           \* dropped since was marked as retuned (for the properties)

requests == <<newDemodType, demodTypeChanged, bandwidthChanged, modemSettingsChanged,
              newFrequency, frequencyChanged>>
outside == <<streamRate, gui, changes>>
rates == <<inputRate, newSampleRate, currentSampleRate, sampleRateChanged>>
tuning == <<currentFrequency, pendingRetune>>
current == <<demodType, cModem, cModemKit>>
pre == <<preStep, rates, tuning, current, command, skipped>>
working == <<worker, rebuild, made>>
queues == <<workerQueue, workerResults>>
output == <<iqOutputQueue, demod, heard>>
vars == <<requests, outside, pre, queues, working, output>>

NoModem == [id |-> 0]
NoKit == [id |-> 0, modem |-> 0]
NoCommand == [cmd |-> "none"]
NoBatch == [make |-> NoCommand, filter |-> NoCommand]

\* setDemodulatorType has been called before the threads start.
Init ==
    /\ newDemodType \in Types /\ demodTypeChanged = TRUE
    /\ bandwidthChanged = TRUE /\ modemSettingsChanged = FALSE
    /\ newFrequency \in Frequencies /\ frequencyChanged = TRUE
    /\ streamRate \in SampleRates
    /\ gui = "idle" /\ changes = 0
    /\ preStep = "pop" /\ inputRate = 0
    /\ newSampleRate = 0 /\ currentSampleRate = 0 /\ sampleRateChanged = FALSE
    /\ currentFrequency = 0 /\ pendingRetune = FALSE
    /\ demodType = "" /\ cModem = NoModem /\ cModemKit = NoKit
    /\ command = NoCommand /\ skipped = 0
    /\ workerQueue = << >> /\ workerResults = << >>
    /\ worker = [step |-> "take", batch |-> NoBatch, modem |-> NoModem, kit |-> NoKit]
    /\ rebuild = {}
    /\ made = [modems |-> 0, kits |-> 0]
    /\ iqOutputQueue = << >>
    /\ demod = [modem |-> NoModem, kit |-> NoKit]
    /\ heard = [freq |-> 0, missed |-> FALSE]

-----------------------------------------------------------------------------
(* The GUI's setters, and the stream.                                      *)

Change ==
    /\ gui = "idle" /\ changes < MaxChanges
    /\ changes' = changes + 1
    /\ UNCHANGED <<pre, queues, working, output>>

SetDemodType(type) ==
    /\ Change
    /\ newDemodType' = type
    /\ gui' = "type"
    /\ UNCHANGED <<demodTypeChanged, bandwidthChanged, modemSettingsChanged, newFrequency,
                   frequencyChanged, streamRate>>

SetFrequency(frequency) ==
    /\ Change
    /\ newFrequency' = frequency
    /\ gui' = "frequency"
    /\ UNCHANGED <<newDemodType, demodTypeChanged, bandwidthChanged, modemSettingsChanged,
                   frequencyChanged, streamRate>>

\* The second store of either setter.
StoreFlag ==
    /\ gui # "idle"
    /\ demodTypeChanged' = (demodTypeChanged \/ gui = "type")
    /\ frequencyChanged' = (frequencyChanged \/ gui = "frequency")
    /\ gui' = "idle"
    /\ UNCHANGED <<newDemodType, bandwidthChanged, modemSettingsChanged, newFrequency,
                   streamRate, changes, pre, queues, working, output>>

SetBandwidth ==
    /\ Change
    /\ bandwidthChanged' = TRUE
    /\ UNCHANGED <<newDemodType, demodTypeChanged, modemSettingsChanged, newFrequency,
                   frequencyChanged, streamRate, gui>>

WriteModemSetting ==
    /\ Change
    /\ modemSettingsChanged' = TRUE
    /\ UNCHANGED <<newDemodType, demodTypeChanged, bandwidthChanged, newFrequency,
                   frequencyChanged, streamRate, gui>>

ChangeStreamRate(rate) ==
    /\ Change
    /\ streamRate' = rate
    /\ UNCHANGED <<requests, gui>>

-----------------------------------------------------------------------------
(* DemodulatorPreThread, one block at a time.                              *)

\* What the GUI shows.
getDemodType == IF demodTypeChanged THEN newDemodType ELSE demodType

HasModem == cModem # NoModem /\ cModemKit # NoKit

\* Mutant: only the first rate is noted, as the audio rate's first value is.
TakeBlockNotesFirstRate ==
    /\ preStep = "pop"
    /\ preStep' = IF frequencyChanged THEN "retune" ELSE "command"
    /\ frequencyChanged' = FALSE
    /\ inputRate' = streamRate
    /\ IF newSampleRate = 0
       THEN newSampleRate' = streamRate /\ sampleRateChanged' = TRUE
       ELSE UNCHANGED <<newSampleRate, sampleRateChanged>>
    /\ UNCHANGED <<newDemodType, demodTypeChanged, bandwidthChanged, modemSettingsChanged,
                   newFrequency, outside, currentSampleRate, tuning, current, command,
                   skipped, queues, working, output>>

\* Mutant: without a modem the flag is cleared and the frequency left.
TakeBlockForgetsFrequency ==
    /\ preStep = "pop"
    /\ preStep' = IF frequencyChanged /\ HasModem THEN "retune" ELSE "command"
    /\ frequencyChanged' = FALSE
    /\ inputRate' = streamRate
    /\ IF streamRate # currentSampleRate
       THEN newSampleRate' = streamRate /\ sampleRateChanged' = TRUE
       ELSE UNCHANGED <<newSampleRate, sampleRateChanged>>
    /\ UNCHANGED <<newDemodType, demodTypeChanged, bandwidthChanged, modemSettingsChanged,
                   newFrequency, outside, currentSampleRate, tuning, current, command,
                   skipped, queues, working, output>>

\* The frequency flag is exchanged for FALSE here, and the frequency read in Retune.
TakeBlock ==
    /\ preStep = "pop"
    /\ preStep' = IF frequencyChanged THEN "retune" ELSE "command"
    /\ frequencyChanged' = FALSE
    /\ inputRate' = streamRate
    /\ IF streamRate # currentSampleRate
       THEN newSampleRate' = streamRate /\ sampleRateChanged' = TRUE
       ELSE UNCHANGED <<newSampleRate, sampleRateChanged>>
    /\ UNCHANGED <<newDemodType, demodTypeChanged, bandwidthChanged, modemSettingsChanged,
                   newFrequency, outside, currentSampleRate, tuning, current, command,
                   skipped, queues, working, output>>

Retune ==
    /\ preStep = "retune"
    /\ preStep' = "command"
    /\ pendingRetune' = (pendingRetune \/ newFrequency # currentFrequency)
    /\ currentFrequency' = newFrequency
    /\ UNCHANGED <<requests, outside, rates, current, command, skipped, queues, working,
                   output>>

\* Mutant: what is ordered is not shown.
PrepareMakeUntold ==
    /\ preStep = "command" /\ demodTypeChanged
    /\ command' = [cmd |-> "make", type |-> newDemodType, rate |-> newSampleRate]
    /\ sampleRateChanged' = FALSE /\ modemSettingsChanged' = FALSE
    /\ preStep' = "push"
    /\ UNCHANGED <<newDemodType, demodTypeChanged, bandwidthChanged, newFrequency,
                   frequencyChanged, outside, inputRate, newSampleRate, currentSampleRate,
                   tuning, current, skipped, queues, working, output>>

PrepareMake ==
    /\ preStep = "command" /\ demodTypeChanged
    /\ command' = [cmd |-> "make", type |-> newDemodType, rate |-> newSampleRate]
    /\ demodType' = newDemodType
    /\ sampleRateChanged' = FALSE /\ modemSettingsChanged' = FALSE
    /\ preStep' = "push"
    /\ UNCHANGED <<newDemodType, demodTypeChanged, bandwidthChanged, newFrequency,
                   frequencyChanged, outside, inputRate, newSampleRate, currentSampleRate,
                   tuning, cModem, cModemKit, skipped, queues, working, output>>

FiltersChanged == bandwidthChanged \/ sampleRateChanged \/ cModem.id \in rebuild

PrepareBuild ==
    /\ preStep = "command" /\ ~demodTypeChanged
    /\ HasModem /\ FiltersChanged
    /\ command' = [cmd |-> "build", rate |-> newSampleRate]
    /\ bandwidthChanged' = FALSE /\ sampleRateChanged' = FALSE
    /\ preStep' = "push"
    /\ UNCHANGED <<newDemodType, demodTypeChanged, modemSettingsChanged, newFrequency,
                   frequencyChanged, outside, inputRate, newSampleRate, currentSampleRate,
                   tuning, current, skipped, queues, working, output>>

NothingChanged ==
    /\ preStep = "command" /\ ~demodTypeChanged
    /\ ~(HasModem /\ FiltersChanged)
    /\ preStep' = "use"
    /\ UNCHANGED <<requests, outside, rates, tuning, current, command, skipped, queues,
                   working, output>>

\* Mutant: the push does not wait for room.
PushCommandWhenFull ==
    /\ preStep = "push"
    /\ workerQueue' = Append(workerQueue, command)
    /\ command' = NoCommand
    /\ preStep' = "use"
    /\ IF command.cmd = "make"
       THEN cModem' = NoModem /\ cModemKit' = NoKit /\ demodTypeChanged' = FALSE
       ELSE UNCHANGED <<cModem, cModemKit, demodTypeChanged>>
    /\ UNCHANGED <<newDemodType, bandwidthChanged, modemSettingsChanged, newFrequency,
                   frequencyChanged, outside, rates, tuning, demodType, skipped,
                   workerResults, working, output>>

\* The push waits for room.
PushCommand ==
    /\ preStep = "push" /\ Len(workerQueue) < WorkerMax
    /\ workerQueue' = Append(workerQueue, command)
    /\ command' = NoCommand
    /\ preStep' = "use"
    /\ IF command.cmd = "make"
       THEN cModem' = NoModem /\ cModemKit' = NoKit /\ demodTypeChanged' = FALSE
       ELSE UNCHANGED <<cModem, cModemKit, demodTypeChanged>>
    /\ UNCHANGED <<newDemodType, bandwidthChanged, modemSettingsChanged, newFrequency,
                   frequencyChanged, outside, rates, tuning, demodType, skipped,
                   workerResults, working, output>>

\* Mutant: a block that is skipped takes the retune with it.
SkipForgetsRetune ==
    /\ preStep = "use" /\ HasModem /\ skipped < MaxSkips
    /\ skipped' = skipped + 1
    /\ pendingRetune' = FALSE
    /\ preStep' = "pop"
    /\ UNCHANGED <<requests, outside, rates, currentFrequency, current, command, queues,
                   working, output>>

\* The block is too far from the frequency: on to the next one, without a look at
\* the worker's results.
Skip ==
    /\ preStep = "use" /\ HasModem /\ skipped < MaxSkips
    /\ skipped' = skipped + 1
    /\ preStep' = "pop"
    /\ UNCHANGED <<requests, outside, rates, tuning, current, command, queues, working,
                   output>>

Usable == HasModem /\ inputRate = currentSampleRate

\* The push waits for room.
Emit ==
    /\ preStep = "use" /\ Usable /\ Len(iqOutputQueue) < OutMax
    /\ iqOutputQueue' = Append(iqOutputQueue,
           [modem |-> cModem, kit |-> cModemKit, retuned |-> pendingRetune,
            freq |-> currentFrequency])
    /\ pendingRetune' = FALSE
    /\ skipped' = 0
    /\ preStep' = "results"
    /\ UNCHANGED <<requests, outside, rates, currentFrequency, current, command, queues,
                   working, demod, heard>>

Pass ==
    /\ preStep = "use" /\ ~Usable
    /\ skipped' = 0
    /\ preStep' = "results"
    /\ UNCHANGED <<requests, outside, rates, tuning, current, command, queues, working,
                   output>>

\* Mutant: a modem is only taken when there is none.
TakeResultKeepsModem ==
    /\ preStep = "results" /\ workerResults # << >>
    /\ LET result == Head(workerResults) IN
        /\ cModem' = IF cModem = NoModem THEN result.modem ELSE cModem
        /\ cModemKit' = IF cModem = NoModem THEN result.kit ELSE cModemKit
        /\ demodType' = result.modem.type
        /\ currentSampleRate' = result.rate
    /\ workerResults' = Tail(workerResults)
    /\ demodTypeChanged' = FALSE
    /\ UNCHANGED <<newDemodType, bandwidthChanged, modemSettingsChanged, newFrequency,
                   frequencyChanged, outside, preStep, inputRate, newSampleRate,
                   sampleRateChanged, tuning, command, skipped, workerQueue, working, output>>

\* Mutant: one result per block.
TakeResultOnce ==
    /\ preStep = "results" /\ workerResults # << >>
    /\ LET result == Head(workerResults) IN
        /\ cModem' = result.modem /\ cModemKit' = result.kit
        /\ demodType' = result.modem.type
        /\ currentSampleRate' = result.rate
    /\ workerResults' = Tail(workerResults)
    /\ demodTypeChanged' = FALSE
    /\ preStep' = "pop"
    /\ UNCHANGED <<newDemodType, bandwidthChanged, modemSettingsChanged, newFrequency,
                   frequencyChanged, outside, inputRate, newSampleRate,
                   sampleRateChanged, tuning, command, skipped, workerQueue, working, output>>

TakeResult ==
    /\ preStep = "results" /\ workerResults # << >>
    /\ LET result == Head(workerResults) IN
        /\ cModem' = result.modem /\ cModemKit' = result.kit
        /\ demodType' = result.modem.type
        /\ currentSampleRate' = result.rate
    /\ workerResults' = Tail(workerResults)
    /\ demodTypeChanged' = FALSE
    /\ UNCHANGED <<newDemodType, bandwidthChanged, modemSettingsChanged, newFrequency,
                   frequencyChanged, outside, preStep, inputRate, newSampleRate,
                   sampleRateChanged, tuning, command, skipped, workerQueue, working, output>>

\* The end of the loop: settings are written to the modem, which may want a new kit.
EndBlock ==
    /\ preStep = "results" /\ workerResults = << >>
    /\ preStep' = "pop"
    /\ IF cModem # NoModem /\ modemSettingsChanged
       THEN modemSettingsChanged' = FALSE /\ rebuild' \in {rebuild, rebuild \cup {cModem.id}}
       ELSE UNCHANGED <<modemSettingsChanged, rebuild>>
    /\ UNCHANGED <<newDemodType, demodTypeChanged, bandwidthChanged, newFrequency,
                   frequencyChanged, outside, rates, tuning, current, command, skipped,
                   queues, worker, made, output>>

Pre ==
    \/ TakeBlock \/ Retune
    \/ PrepareMake \/ PrepareBuild \/ NothingChanged \/ PushCommand
    \/ Skip \/ Emit \/ Pass
    \/ TakeResult \/ EndBlock

-----------------------------------------------------------------------------
(* DemodulatorWorkerThread.                                                *)

\* The last command of each kind counts.
TakeCommand ==
    /\ worker.step = "take" /\ workerQueue # << >>
    /\ LET taken == Head(workerQueue) IN
        worker' = [worker EXCEPT
            !.step = "more",
            !.batch = IF taken.cmd = "make" THEN [@ EXCEPT !.make = taken]
                      ELSE [@ EXCEPT !.filter = taken]]
    /\ workerQueue' = Tail(workerQueue)
    /\ UNCHANGED <<requests, outside, pre, workerResults, rebuild, made, output>>

EndBatch ==
    /\ worker.step = "more"
    /\ worker' = [worker EXCEPT !.step = IF workerQueue = << >> THEN "build" ELSE "take"]
    /\ UNCHANGED <<requests, outside, pre, queues, rebuild, made, output>>

\* Mutant: a new modem is given the old one's kit.
BuildKeepsKit ==
    /\ worker.step = "build" /\ Len(workerResults) < ResultsMax
    /\ LET makes == worker.batch.make # NoCommand
           from == IF makes THEN worker.batch.make ELSE worker.batch.filter
           modem == IF makes THEN [id |-> made.modems + 1, type |-> from.type]
                    ELSE worker.modem
           kit == IF makes /\ worker.kit # NoKit THEN worker.kit
                  ELSE [id |-> made.kits + 1, modem |-> modem.id] IN
        /\ worker' = [step |-> "take", batch |-> NoBatch, modem |-> modem, kit |-> kit]
        /\ workerResults' = Append(workerResults,
                                   [modem |-> modem, kit |-> kit, rate |-> from.rate])
        /\ rebuild' = rebuild \ {modem.id}
        /\ made' = [modems |-> modem.id, kits |-> kit.id]
    /\ UNCHANGED <<requests, outside, pre, workerQueue, output>>

\* The push of the result waits for room.
Build ==
    /\ worker.step = "build" /\ Len(workerResults) < ResultsMax
    /\ LET makes == worker.batch.make # NoCommand
           from == IF makes THEN worker.batch.make ELSE worker.batch.filter
           modem == IF makes THEN [id |-> made.modems + 1, type |-> from.type]
                    ELSE worker.modem
           kit == [id |-> made.kits + 1, modem |-> modem.id] IN
        /\ worker' = [step |-> "take", batch |-> NoBatch, modem |-> modem, kit |-> kit]
        /\ workerResults' = Append(workerResults,
                                   [modem |-> modem, kit |-> kit, rate |-> from.rate])
        /\ rebuild' = rebuild \ {modem.id}
        /\ made' = [modems |-> modem.id, kits |-> kit.id]
    /\ UNCHANGED <<requests, outside, pre, workerQueue, output>>

Worker == TakeCommand \/ EndBatch \/ Build

-----------------------------------------------------------------------------
(* DemodulatorThread.                                                      *)

\* Mutant: the comparison is the wrong way round, and a kit that stays is disposed of.
DemodulateDisposes ==
    /\ iqOutputQueue # << >>
    /\ iqOutputQueue' = Tail(iqOutputQueue)
    /\ LET block == Head(iqOutputQueue) IN
        demod' = [modem |-> block.modem,
                  kit |-> IF block.kit = demod.kit THEN NoKit ELSE block.kit]
    /\ heard' = [freq |-> Head(iqOutputQueue).freq, missed |-> FALSE]
    /\ UNCHANGED <<requests, outside, pre, queues, working>>

\* A block brings its modem and kit, and those before them are deleted.
Demodulate ==
    /\ iqOutputQueue # << >>
    /\ iqOutputQueue' = Tail(iqOutputQueue)
    /\ demod' = [modem |-> Head(iqOutputQueue).modem, kit |-> Head(iqOutputQueue).kit]
    /\ heard' = [freq |-> Head(iqOutputQueue).freq, missed |-> FALSE]
    /\ UNCHANGED <<requests, outside, pre, queues, working>>

\* Of a block too short to give a sample nothing is looked at, not even the mark.
DropEmpty ==
    /\ iqOutputQueue # << >>
    /\ iqOutputQueue' = Tail(iqOutputQueue)
    /\ heard' = [heard EXCEPT !.missed = @ \/ Head(iqOutputQueue).retuned]
    /\ UNCHANGED <<requests, outside, pre, queues, working, demod>>

-----------------------------------------------------------------------------
Gui ==
    \/ \E type \in Types : SetDemodType(type)
    \/ \E frequency \in Frequencies : SetFrequency(frequency)
    \/ StoreFlag \/ SetBandwidth \/ WriteModemSetting

Next ==
    \/ Gui
    \/ \E rate \in SampleRates : ChangeStreamRate(rate)
    \/ Pre \/ Worker
    \/ Demodulate \/ DropEmpty

Spec == Init /\ [][Next]_vars

\* Every thread is scheduled, and a setter that has begun returns.  The worker goes on
\* taking commands until it finds the queue empty; commands come at the pace of blocks,
\* and one that was empty after a command does not always fill before that look.
FairSpec ==
    /\ Spec
    /\ SF_vars(EndBatch /\ workerQueue = << >>)
    /\ WF_vars(Pre) /\ WF_vars(Worker) /\ WF_vars(Demodulate \/ DropEmpty) /\ WF_vars(StoreFlag)

-----------------------------------------------------------------------------
(* Properties.                                                             *)

Modems == {NoModem} \cup [id : Nat \ {0}, type : Types]
Kits == {NoKit} \cup [id : Nat \ {0}, modem : Nat \ {0}]
Commands ==
    {NoCommand} \cup [cmd : {"make"}, type : Types, rate : SampleRates]
                \cup [cmd : {"build"}, rate : SampleRates]
Results == [modem : Modems \ {NoModem}, kit : Kits \ {NoKit}, rate : SampleRates]
OutBlocks ==
    [modem : Modems \ {NoModem}, kit : Kits \ {NoKit}, retuned : BOOLEAN, freq : Frequencies \cup {0}]
Workers ==
    [step : {"take", "more", "build"}, batch : [make : Commands, filter : Commands],
     modem : Modems, kit : Kits]

\* Every variable keeps its type, and the queues keep to their maximum.
TypeOK ==
    /\ newDemodType \in Types /\ newFrequency \in Frequencies
    /\ {demodTypeChanged, bandwidthChanged, modemSettingsChanged, frequencyChanged,
        sampleRateChanged, pendingRetune} \subseteq BOOLEAN
    /\ streamRate \in SampleRates
    /\ gui \in {"idle", "type", "frequency"} /\ changes \in 0 .. MaxChanges
    /\ preStep \in {"pop", "retune", "command", "push", "use", "results"}
    /\ {inputRate, newSampleRate, currentSampleRate} \subseteq SampleRates \cup {0}
    /\ currentFrequency \in Frequencies \cup {0}
    /\ demodType \in Types \cup {""} /\ cModem \in Modems /\ cModemKit \in Kits
    /\ command \in Commands /\ skipped \in 0 .. MaxSkips
    /\ workerQueue \in Seq(Commands \ {NoCommand}) /\ Len(workerQueue) <= WorkerMax
    /\ workerResults \in Seq(Results) /\ Len(workerResults) <= ResultsMax
    /\ worker \in Workers
    /\ rebuild \subseteq Nat
    /\ made \in [modems : Nat, kits : Nat]
    /\ iqOutputQueue \in Seq(OutBlocks) /\ Len(iqOutputQueue) <= OutMax
    /\ demod \in [modem : Modems, kit : Kits]
    /\ heard \in [freq : Frequencies \cup {0}, missed : BOOLEAN]

Belongs(pair) == pair.kit.modem = pair.modem.id

\* A modem only ever works with a kit it has built itself, whoever holds the two: kits
\* of different modems have different layouts, and demodulate casts without a test.
KitBelongsToModem ==
    /\ Belongs(worker) /\ Belongs(demod)
    /\ cModemKit.modem = cModem.id
    /\ \A i \in DOMAIN workerResults : Belongs(workerResults[i])
    /\ \A i \in DOMAIN iqOutputQueue : Belongs(iqOutputQueue[i])

\* What the worker makes last of all it has been told, or has made already.
IsOrdered(type) ==
    LET makes == {i \in DOMAIN workerQueue : workerQueue[i].cmd = "make"}
    IN \/ \E i \in makes : workerQueue[i].type = type /\ \A j \in makes : j <= i
       \/ makes = {} /\ worker.batch.make # NoCommand /\ worker.batch.make.type = type
       \/ /\ makes = {} /\ worker.batch.make = NoCommand
          /\ worker.modem # NoModem /\ worker.modem.type = type

\* While a choice of the type is pending the GUI is told that choice (getDemodType), and so
\* is ahead of the modem.  Once none is, it is told the type of the modem that runs, or, when
\* there is none, of the one that is being made: also after the type was changed while an
\* older result was on its way, and when a choice was lost (DemodulatorPreThread.cpp:149, 269).
ShownTypeRuns ==
    ~demodTypeChanged =>
        IF cModem # NoModem THEN cModem.type = getDemodType ELSE IsOrdered(getDemodType)

\* The GUI is told the modem that runs or comes, and it runs with the kit made for it.
RightModemRuns == KitBelongsToModem /\ ShownTypeRuns

\* The modems and kits that a thread or a queue still points to.
HeldModems ==
    {worker.modem, cModem} \cup {workerResults[i].modem : i \in DOMAIN workerResults}
        \cup {iqOutputQueue[i].modem : i \in DOMAIN iqOutputQueue}
HeldKits ==
    {worker.kit, cModemKit} \cup {workerResults[i].kit : i \in DOMAIN workerResults}
        \cup {iqOutputQueue[i].kit : i \in DOMAIN iqOutputQueue}

\* What DemodulatorThread deletes, no other thread points to, and no queue will bring
\* it back: neither of the two other threads is told of a deletion.
DeletedIsForgotten ==
    [][/\ demod'.modem # demod.modem /\ demod.modem # NoModem
            => demod.modem \notin HeldModems'
       /\ demod'.kit # demod.kit /\ demod.kit # NoKit
            => demod.kit \notin HeldKits']_vars

\* DemodulatorPreThread and its worker push to each other, and each waits for room.
EachWaitsForTheOther ==
    /\ preStep = "push" /\ Len(workerQueue) = WorkerMax
    /\ worker.step = "build" /\ Len(workerResults) = ResultsMax

\* The two end up waiting for each other only when as many blocks in a row as the queue of
\* results has room for were out of range: of those the results are not looked at, and each
\* may have ordered one (DemodulatorPreThread.cpp:178-181).
OnlySkippingBlocks == EachWaitsForTheOther => skipped >= ResultsMax

\* The first block demodulated on another frequency than the one demodulated before says
\* so, however often the frequency changed in between and however many blocks were skipped,
\* unless a block that said so was dropped since, for having no sample
\* (DemodulatorThread.cpp:109-113): pendingRetune is cleared when it is queued.
RetuneAnnounced ==
    [][heard'.freq # heard.freq => Head(iqOutputQueue).retuned \/ heard.missed]_vars

\* The worker takes commands faster than blocks bring new ones.
KeepsUp == []<>(workerQueue = << >>)

\* Whatever was changed, and in which order: in the end there is a modem, fed at the
\* rate of the stream, ...
Recovers == KeepsUp => <>[](HasModem /\ currentSampleRate = streamRate)

\* ... and tuned to the last frequency asked for, unless the two wait for each other: then
\* no block is taken any more.
LastFrequencyWins ==
    <>[](currentFrequency = newFrequency) \/ <>[]EachWaitsForTheOther
=============================================================================
