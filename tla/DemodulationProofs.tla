-------------------------- MODULE DemodulationProofs --------------------------
(***************************************************************************)
(* Theorems about Demodulation for all types, rates and frequencies, and   *)
(* for every size of its queues.                                           *)
(***************************************************************************)
EXTENDS Demodulation, SequenceTheorems, TLAPS

-----------------------------------------------------------------------------
(* DemodulatorPreThread.                                                   *)

\* A command is only kept while its push waits for room, and says what was then known.
CommandIsPending ==
    /\ command # NoCommand <=> preStep = "push"
    /\ command.cmd = "make" => demodType = command.type /\ demodTypeChanged
    /\ command.cmd = "build" => cModem # NoModem
    /\ cModem = NoModem <=> cModemKit = NoKit

\* A rate is known from the first block on, before anything can be asked for it.
RateIsKnown ==
    newSampleRate = 0 => preStep = "pop" /\ currentSampleRate = 0

\* The frequency of the block before the i-th that is queued, if none was dropped.
FrequencyBefore(i) == IF i = 1 THEN heard.freq ELSE iqOutputQueue[i - 1].freq

\* Every block on another frequency than the one before is marked, or is the first after a
\* marked one that was dropped, and so is the next block going to be.
RetuneIsPending ==
    /\ \A i \in 1 .. Len(iqOutputQueue) :
        iqOutputQueue[i].freq # FrequencyBefore(i)
            => iqOutputQueue[i].retuned \/ (i = 1 /\ heard.missed)
    /\ currentFrequency # FrequencyBefore(Len(iqOutputQueue) + 1)
        => pendingRetune \/ (Len(iqOutputQueue) = 0 /\ heard.missed)

-----------------------------------------------------------------------------
(* DemodulatorWorkerThread.                                                *)

IsMake(c) == c.cmd = "make"
IsBuild(c) == c.cmd = "build"

\* What the worker has taken: one command of either kind, and at least one when it builds.
BatchIsSorted ==
    /\ worker.batch.make # NoCommand => IsMake(worker.batch.make)
    /\ worker.batch.filter # NoCommand => IsBuild(worker.batch.filter)
    /\ worker.step # "take" => worker.batch # NoBatch

\* A new kit is asked for, or a modem held, only once the worker has made one.
BuildsHaveAModem ==
    worker.modem = NoModem =>
        /\ cModem = NoModem
        /\ command.cmd # "build" /\ worker.batch.filter = NoCommand
        /\ \A i \in 1 .. Len(workerQueue) : workerQueue[i].cmd # "build"

-----------------------------------------------------------------------------
(* What goes round: the worker's modem and kit, the results, what          *)
(* DemodulatorPreThread holds, the blocks, and what DemodulatorThread has. *)

Current == [modem |-> cModem, kit |-> cModemKit]

\* Neither the modem nor the kit of p was made after that of q.
Before(p, q) ==
    /\ p.modem.id < q.modem.id \/ p.modem = q.modem
    /\ p.kit.id < q.kit.id \/ p.kit = q.kit

\* Who comes later on the way holds nothing newer.
MadeInOrder ==
    /\ made = [modems |-> worker.modem.id, kits |-> worker.kit.id]
    /\ Before(demod, worker)
    /\ cModem # NoModem => Before(demod, Current) /\ Before(Current, worker)
    /\ \A i \in 1 .. Len(workerResults) :
        /\ Before(workerResults[i], worker)
        /\ Before(demod, workerResults[i])
        /\ cModem # NoModem => Before(Current, workerResults[i])
        /\ \A j \in i .. Len(workerResults) : Before(workerResults[i], workerResults[j])
    /\ \A i \in 1 .. Len(iqOutputQueue) :
        /\ Before(demod, iqOutputQueue[i])
        /\ Before(iqOutputQueue[i], worker)
        /\ cModem # NoModem => Before(iqOutputQueue[i], Current)
        /\ \A j \in 1 .. Len(workerResults) : Before(iqOutputQueue[i], workerResults[j])
        /\ \A j \in i .. Len(iqOutputQueue) : Before(iqOutputQueue[i], iqOutputQueue[j])

-----------------------------------------------------------------------------
(* Room for the results.                                                   *)

\* How many results can still come: one for each there is, one that the worker builds,
\* one for all the commands it takes next, and one for the command about to be pushed.
Built == IF worker.step = "build" THEN 1 ELSE 0
Waiting ==
    IF workerQueue # << >> \/ (worker.step # "build" /\ worker.batch # NoBatch) THEN 1 ELSE 0
Pushing == IF preStep = "push" THEN 1 ELSE 0
Outstanding == Len(workerResults) + Built + Waiting + Pushing

\* A block adds one, and only a block that is not skipped takes the results away.
Budget ==
    CASE preStep \in {"pop", "retune", "command"} -> skipped + 2
      [] preStep \in {"push", "use"} -> skipped + 3
      [] preStep = "results" -> MaxSkips + 3

RoomIsLeft == Outstanding <= Budget

IInv ==
    /\ TypeOK
    /\ CommandIsPending /\ RateIsKnown /\ RetuneIsPending
    /\ BatchIsSorted /\ BuildsHaveAModem
    /\ KitBelongsToModem /\ ShownTypeRuns
    /\ MadeInOrder
    /\ RoomIsLeft

-----------------------------------------------------------------------------
(* Modems, kits and commands.                                              *)

LEMMA ModemIds ==
    ASSUME NEW m \in Modems
    PROVE  m.id \in Nat /\ (m.id = 0 <=> m = NoModem) /\ (m # NoModem => m.type \in Types)
  BY DEF Modems, NoModem

LEMMA KitIds ==
    ASSUME NEW k \in Kits
    PROVE  k.id \in Nat /\ (k.id = 0 <=> k = NoKit) /\ k.modem \in Nat
  BY DEF Kits, NoKit

LEMMA CommandKinds ==
    ASSUME NEW c \in Commands
    PROVE  /\ IsMake(c) => c.type \in Types /\ c.rate \in SampleRates /\ c # NoCommand
           /\ IsBuild(c) => c.rate \in SampleRates /\ c # NoCommand
           /\ c # NoCommand => IsMake(c) \/ IsBuild(c)
           /\ ~(IsMake(c) /\ IsBuild(c))
  BY DEF Commands, NoCommand, IsMake, IsBuild

LEMMA NothingIsMade == NoModem \in Modems /\ NoKit \in Kits /\ NoCommand \in Commands
  BY DEF Modems, Kits, Commands

\* What comes next in order, and what is the same.
LEMMA BeforeItself == ASSUME NEW p PROVE Before(p, p)
  BY DEF Before

LEMMA BeforeSame ==
    ASSUME NEW p, NEW q, NEW r, q.modem = r.modem, q.kit = r.kit
    PROVE  (Before(p, q) <=> Before(p, r)) /\ (Before(q, p) <=> Before(r, p))
  BY DEF Before

LEMMA BeforeTransitive ==
    ASSUME NEW p, NEW q, NEW r, Before(p, q), Before(q, r),
           p.modem \in Modems, q.modem \in Modems, r.modem \in Modems,
           p.kit \in Kits, q.kit \in Kits, r.kit \in Kits
    PROVE  Before(p, r)
  <1>1. /\ p.modem.id \in Nat /\ q.modem.id \in Nat /\ r.modem.id \in Nat
        /\ p.kit.id \in Nat /\ q.kit.id \in Nat /\ r.kit.id \in Nat
    BY ModemIds, KitIds
  <1>2. QED
    BY <1>1 DEF Before

\* What is not the newest any more does not come back.
LEMMA BeforeForgets ==
    ASSUME NEW p, NEW q, NEW r, Before(p, q), Before(q, r),
           p.modem \in Modems, q.modem \in Modems, r.modem \in Modems,
           p.kit \in Kits, q.kit \in Kits, r.kit \in Kits
    PROVE  /\ p.modem # q.modem => p.modem # r.modem
           /\ p.kit # q.kit => p.kit # r.kit
  <1>1. /\ p.modem.id \in Nat /\ q.modem.id \in Nat /\ r.modem.id \in Nat
        /\ p.kit.id \in Nat /\ q.kit.id \in Nat /\ r.kit.id \in Nat
    BY ModemIds, KitIds
  <1>2. QED
    BY <1>1 DEF Before

\* A queue after a push and after a pop.
LEMMA Appended ==
    ASSUME NEW S, NEW q \in Seq(S), NEW e \in S, NEW r, r = Append(q, e)
    PROVE  /\ r \in Seq(S) /\ Len(r) = Len(q) + 1 /\ Len(q) \in Nat /\ r # << >>
           /\ \A i \in 1 .. Len(q) : r[i] = q[i]
           /\ r[Len(r)] = e
  BY AppendProperties, LenProperties, EmptySeq

LEMMA Popped ==
    ASSUME NEW S, NEW q \in Seq(S), q # << >>, NEW r, r = Tail(q)
    PROVE  /\ r \in Seq(S) /\ Len(r) = Len(q) - 1 /\ Len(q) \in Nat \ {0}
           /\ Head(q) = q[1] /\ q[1] \in S
           /\ \A i \in 1 .. Len(r) : r[i] = q[i + 1] /\ i + 1 \in 1 .. Len(q)
  <1>1. Len(q) \in Nat \ {0} /\ 1 \in 1 .. Len(q)
    BY LenProperties, EmptySeq
  <1>2. /\ r \in Seq(S) /\ Len(r) = Len(q) - 1 /\ Head(q) = q[1]
        /\ \A i \in 1 .. Len(q) - 1 : r[i] = q[i + 1]
    BY HeadTailProperties
  <1>3. QED
    BY <1>1, <1>2, ElementOfSeq

LEMMA Elements ==
    ASSUME NEW S, NEW q \in Seq(S), NEW i \in 1 .. Len(q)
    PROVE  q[i] \in S
  BY ElementOfSeq

-----------------------------------------------------------------------------
(* Types.                                                                  *)

\* Fields of what the threads hold.
LEMMA HeldTypes ==
    ASSUME TypeOK
    PROVE  /\ worker.step \in {"take", "more", "build"}
           /\ worker.batch \in [make : Commands, filter : Commands]
           /\ worker.batch.make \in Commands /\ worker.batch.filter \in Commands
           /\ worker.modem \in Modems /\ worker.kit \in Kits
           /\ demod.modem \in Modems /\ demod.kit \in Kits
           /\ made.modems \in Nat /\ made.kits \in Nat
           /\ Current.modem \in Modems /\ Current.kit \in Kits
           /\ command \in Commands
  BY DEF TypeOK, Workers, Current

LEMMA ResultTypes ==
    ASSUME NEW r \in Results
    PROVE  /\ r.modem \in Modems /\ r.modem # NoModem /\ r.modem.type \in Types
           /\ r.kit \in Kits /\ r.kit # NoKit
           /\ r.rate \in SampleRates
  <1>1. /\ r.modem \in Modems /\ r.modem # NoModem /\ r.kit \in Kits /\ r.kit # NoKit
        /\ r.rate \in SampleRates
    BY DEF Results
  <1>2. QED
    BY <1>1, ModemIds

LEMMA OutBlockTypes ==
    ASSUME NEW b \in OutBlocks
    PROVE  /\ b.modem \in Modems /\ b.modem # NoModem /\ b.kit \in Kits /\ b.kit # NoKit
           /\ b.retuned \in BOOLEAN /\ b.freq \in Frequencies \cup {0}
  BY DEF OutBlocks

LEMMA Bounds ==
    /\ WorkerMax \in Nat \ {0} /\ ResultsMax \in Nat \ {0} /\ OutMax \in Nat \ {0}
    /\ MaxSkips \in Nat /\ MaxChanges \in Nat
  BY DemodulationAssumption

\* Numbers and queues.
LEMMA SizeTypes ==
    ASSUME TypeOK
    PROVE  /\ changes \in 0 .. MaxChanges /\ skipped \in 0 .. MaxSkips
           /\ workerQueue \in Seq(Commands \ {NoCommand}) /\ Len(workerQueue) <= WorkerMax
           /\ workerResults \in Seq(Results) /\ Len(workerResults) <= ResultsMax
           /\ iqOutputQueue \in Seq(OutBlocks) /\ Len(iqOutputQueue) <= OutMax
           /\ Len(workerQueue) \in Nat /\ Len(workerResults) \in Nat /\ Len(iqOutputQueue) \in Nat
  <1>1. /\ changes \in 0 .. MaxChanges /\ skipped \in 0 .. MaxSkips
        /\ workerQueue \in Seq(Commands \ {NoCommand}) /\ Len(workerQueue) <= WorkerMax
        /\ workerResults \in Seq(Results) /\ Len(workerResults) <= ResultsMax
        /\ iqOutputQueue \in Seq(OutBlocks) /\ Len(iqOutputQueue) <= OutMax
    BY DEF TypeOK
  <1>2. QED
    BY <1>1, LenProperties

LEMMA GuiKeepsTypes ==
    ASSUME TypeOK, Gui \/ \E rate \in SampleRates : ChangeStreamRate(rate)
    PROVE  TypeOK'
  <1>1. Change => changes' \in 0 .. MaxChanges
    BY Bounds, SizeTypes DEF Change
  <1>2. CASE \E type \in Types : SetDemodType(type)
    BY <1>1, <1>2
       DEF TypeOK, SetDemodType, Change, pre, rates, tuning, current, queues, working, output
  <1>3. CASE \E frequency \in Frequencies : SetFrequency(frequency)
    BY <1>1, <1>3
       DEF TypeOK, SetFrequency, Change, pre, rates, tuning, current, queues, working, output
  <1>4. CASE StoreFlag
    BY <1>4 DEF TypeOK, StoreFlag, pre, rates, tuning, current, queues, working, output
  <1>5. CASE SetBandwidth \/ WriteModemSetting
    BY <1>1, <1>5 DEF TypeOK, SetBandwidth, WriteModemSetting, Change, pre, rates, tuning, current,
                queues, working, output
  <1>6. CASE \E rate \in SampleRates : ChangeStreamRate(rate)
    BY <1>1, <1>6 DEF TypeOK, ChangeStreamRate, Change, requests, pre, rates, tuning, current,
                queues, working, output
  <1>7. QED
    BY <1>2, <1>3, <1>4, <1>5, <1>6 DEF Gui

LEMMA PreKeepsTypes ==
    ASSUME TypeOK, RateIsKnown, CommandIsPending, Pre
    PROVE  TypeOK'
  <1>1. CASE TakeBlock
    BY <1>1 DEF TypeOK, TakeBlock, outside, tuning, current, queues, working, output
  <1>2. CASE Retune
    BY <1>2 DEF TypeOK, Retune, requests, outside, rates, current, queues, working, output
  <1>3. CASE PrepareMake
    <2>1. command' \in Commands
      <3>1. newDemodType \in Types /\ newSampleRate \in SampleRates
        BY <1>3 DEF TypeOK, PrepareMake, RateIsKnown
      <3>2. QED
        BY <1>3, <3>1 DEF PrepareMake, Commands
    <2>2. QED
      BY <1>3, <2>1 DEF TypeOK, PrepareMake, outside, tuning, queues, working, output
  <1>4. CASE PrepareBuild
    <2>1. command' \in Commands
      <3>1. newSampleRate \in SampleRates
        BY <1>4 DEF TypeOK, PrepareBuild, RateIsKnown
      <3>2. QED
        BY <1>4, <3>1 DEF PrepareBuild, Commands
    <2>2. QED
      BY <1>4, <2>1 DEF TypeOK, PrepareBuild, outside, tuning, current, queues, working, output
  <1>5. CASE NothingChanged
    BY <1>5 DEF TypeOK, NothingChanged, requests, outside, rates, tuning, current, queues,
                working, output
  <1>6. CASE PushCommand
    <2>1. workerQueue' \in Seq(Commands \ {NoCommand}) /\ Len(workerQueue') <= WorkerMax
      <3>1. /\ workerQueue \in Seq(Commands \ {NoCommand}) /\ command \in Commands \ {NoCommand}
            /\ workerQueue' = Append(workerQueue, command) /\ Len(workerQueue) < WorkerMax
        BY <1>6 DEF TypeOK, CommandIsPending, PushCommand
      <3>2. /\ workerQueue' \in Seq(Commands \ {NoCommand})
            /\ Len(workerQueue') = Len(workerQueue) + 1 /\ Len(workerQueue) \in Nat
        BY <3>1, Appended
      <3>3. QED
        BY <3>1, <3>2, DemodulationAssumption
    <2>2. /\ cModem' \in Modems /\ cModemKit' \in Kits /\ command' \in Commands
          /\ demodTypeChanged' \in BOOLEAN
      BY <1>6, NothingIsMade DEF TypeOK, PushCommand
    <2>3. preStep' = "use"
      BY <1>6 DEF PushCommand
    <2>4. UNCHANGED <<newDemodType, bandwidthChanged, modemSettingsChanged, newFrequency,
                      frequencyChanged, outside, rates, tuning, demodType, skipped,
                      workerResults, working, output>>
      BY <1>6 DEF PushCommand
    <2>5. QED
      BY <2>1, <2>2, <2>3, <2>4 DEF TypeOK, outside, rates, tuning, working, output
  <1>7. CASE Skip \/ Pass
    <2>1. skipped' \in 0 .. MaxSkips
      BY <1>7, Bounds, SizeTypes DEF Skip, Pass
    <2>2. QED
      BY <1>7, <2>1
         DEF TypeOK, Skip, Pass, requests, outside, rates, tuning, current, queues, working, output
  <1>8. CASE Emit
    <2>1. iqOutputQueue' \in Seq(OutBlocks) /\ Len(iqOutputQueue') <= OutMax
      <3> DEFINE block == [modem |-> cModem, kit |-> cModemKit, retuned |-> pendingRetune,
                           freq |-> currentFrequency]
      <3>1. /\ iqOutputQueue \in Seq(OutBlocks) /\ block \in OutBlocks
            /\ iqOutputQueue' = Append(iqOutputQueue, block) /\ Len(iqOutputQueue) < OutMax
        BY <1>8 DEF TypeOK, Emit, Usable, HasModem, OutBlocks
      <3> HIDE DEF block
      <3>2. /\ iqOutputQueue' \in Seq(OutBlocks)
            /\ Len(iqOutputQueue') = Len(iqOutputQueue) + 1 /\ Len(iqOutputQueue) \in Nat
        BY <3>1, Appended
      <3>3. QED
        BY <3>1, <3>2, DemodulationAssumption
    <2>2. /\ pendingRetune' = FALSE /\ skipped' = 0
          /\ preStep' = "results" /\ 0 \in 0 .. MaxSkips
      BY <1>8, DemodulationAssumption DEF Emit
    <2>3. UNCHANGED <<requests, outside, rates, currentFrequency, current, command, queues,
                      working, demod, heard>>
      BY <1>8 DEF Emit
    <2>4. QED
      BY <2>1, <2>2, <2>3 DEF TypeOK, requests, outside, rates, current, queues, working
  <1>9. CASE TakeResult
    <2>1. /\ workerResults' \in Seq(Results) /\ Len(workerResults') = Len(workerResults) - 1
          /\ Len(workerResults) \in Nat /\ Head(workerResults) \in Results
      BY <1>9, SizeTypes, Popped DEF TakeResult
    <2>2. /\ cModem' \in Modems /\ cModemKit' \in Kits /\ demodType' \in Types
          /\ currentSampleRate' \in SampleRates
      BY <1>9, <2>1, ResultTypes DEF TakeResult
    <2>3. Len(workerResults') <= ResultsMax
      BY <2>1, Bounds, SizeTypes
    <2>4. /\ demodTypeChanged' = FALSE
          /\ UNCHANGED <<newDemodType, bandwidthChanged, modemSettingsChanged, newFrequency,
                         frequencyChanged, outside, preStep, inputRate, newSampleRate,
                         sampleRateChanged, tuning, command, skipped, workerQueue, working, output>>
      BY <1>9 DEF TakeResult
    <2>5. QED
      BY <2>1, <2>2, <2>3, <2>4 DEF TypeOK, outside, tuning, working, output
  <1>10. CASE EndBlock
    <2>1. modemSettingsChanged' \in BOOLEAN /\ rebuild' \subseteq Nat /\ preStep' = "pop"
      BY <1>10, ModemIds DEF TypeOK, EndBlock
    <2>2. UNCHANGED <<newDemodType, demodTypeChanged, bandwidthChanged, newFrequency,
                      frequencyChanged, outside, rates, tuning, current, command, skipped,
                      queues, worker, made, output>>
      BY <1>10 DEF EndBlock
    <2>3. QED
      BY <2>1, <2>2 DEF TypeOK, outside, rates, tuning, current, queues, output
  <1>11. QED
    BY <1>1, <1>2, <1>3, <1>4, <1>5, <1>6, <1>7, <1>8, <1>9, <1>10 DEF Pre

\* What the worker takes, and what it makes of what it has taken.
LEMMA TakeCommandTakes ==
    ASSUME TypeOK, TakeCommand
    PROVE  /\ workerQueue # << >> /\ workerQueue[1] \in Commands \ {NoCommand}
           /\ worker.step = "take" /\ worker'.step = "more"
           /\ workerQueue' \in Seq(Commands \ {NoCommand})
           /\ Len(workerQueue') = Len(workerQueue) - 1
           /\ \A i \in 1 .. Len(workerQueue') :
                workerQueue'[i] = workerQueue[i + 1] /\ i + 1 \in 1 .. Len(workerQueue)
           /\ worker' \in Workers
           /\ worker'.modem = worker.modem /\ worker'.kit = worker.kit
           /\ worker'.batch.make =
                IF IsMake(workerQueue[1]) THEN workerQueue[1] ELSE worker.batch.make
           /\ worker'.batch.filter =
                IF IsMake(workerQueue[1]) THEN worker.batch.filter ELSE workerQueue[1]
           /\ UNCHANGED <<requests, outside, pre, workerResults, rebuild, made, output>>
  <1> DEFINE taken == workerQueue[1]
  <1>1. /\ workerQueue # << >> /\ workerQueue' \in Seq(Commands \ {NoCommand})
        /\ Len(workerQueue') = Len(workerQueue) - 1
        /\ \A i \in 1 .. Len(workerQueue') :
             workerQueue'[i] = workerQueue[i + 1] /\ i + 1 \in 1 .. Len(workerQueue)
        /\ Head(workerQueue) = taken /\ taken \in Commands \ {NoCommand}
    BY SizeTypes, Popped DEF TakeCommand
  <1>2. /\ worker.step = "take"
        /\ worker' = [worker EXCEPT
              !.step = "more",
              !.batch = IF IsMake(taken) THEN [@ EXCEPT !.make = taken]
                        ELSE [@ EXCEPT !.filter = taken]]
        /\ UNCHANGED <<requests, outside, pre, workerResults, rebuild, made, output>>
    BY <1>1 DEF TakeCommand, IsMake
  <1> HIDE DEF taken
  <1>3. worker \in Workers
    BY DEF TypeOK
  <1>4. PICK batch \in [make : Commands, filter : Commands] :
            batch = IF IsMake(taken) THEN [worker.batch EXCEPT !.make = taken]
                    ELSE [worker.batch EXCEPT !.filter = taken]
    BY <1>1, HeldTypes
  <1>5. /\ batch.make = IF IsMake(taken) THEN taken ELSE worker.batch.make
        /\ batch.filter = IF IsMake(taken) THEN worker.batch.filter ELSE taken
    BY <1>4, HeldTypes
  <1>6. worker' = [worker EXCEPT !.step = "more", !.batch = batch]
    BY <1>2, <1>4
  <1>7. /\ worker' \in Workers /\ worker'.step = "more" /\ worker'.batch = batch
        /\ worker'.modem = worker.modem /\ worker'.kit = worker.kit
    BY <1>3, <1>6 DEF Workers
  <1>8. QED
    BY <1>1, <1>2, <1>5, <1>7 DEF taken

LEMMA EndBatchEnds ==
    ASSUME TypeOK, EndBatch
    PROVE  /\ worker.step = "more" /\ worker' \in Workers
           /\ worker'.step = IF workerQueue = << >> THEN "build" ELSE "take"
           /\ worker'.batch = worker.batch
           /\ worker'.modem = worker.modem /\ worker'.kit = worker.kit
           /\ UNCHANGED <<requests, outside, pre, queues, rebuild, made, output>>
  BY DEF TypeOK, EndBatch, Workers

LEMMA BuildMakes ==
    ASSUME TypeOK, BatchIsSorted, BuildsHaveAModem, made = [modems |-> worker.modem.id, kits |-> worker.kit.id],
           Build
    PROVE  /\ worker.step = "build" /\ Len(workerResults) < ResultsMax
           /\ worker' \in Workers /\ worker'.step = "take" /\ worker'.batch = NoBatch
           /\ worker'.modem # NoModem /\ worker'.kit # NoKit
           /\ worker'.kit.id > worker.kit.id /\ worker'.kit.modem = worker'.modem.id
           /\ worker'.modem = worker.modem \/ worker'.modem.id > worker.modem.id
           /\ made' = [modems |-> worker'.modem.id, kits |-> worker'.kit.id]
           /\ made' \in [modems : Nat, kits : Nat]
           /\ rebuild' \subseteq rebuild
           /\ \E result \in Results :
                /\ workerResults' = Append(workerResults, result)
                /\ result.modem = worker'.modem /\ result.kit = worker'.kit
           /\ UNCHANGED <<requests, outside, pre, workerQueue, output>>
  <1> DEFINE makes == worker.batch.make # NoCommand
             from == IF makes THEN worker.batch.make ELSE worker.batch.filter
             modem == IF makes THEN [id |-> made.modems + 1, type |-> from.type] ELSE worker.modem
             kit == [id |-> made.kits + 1, modem |-> modem.id]
             result == [modem |-> modem, kit |-> kit, rate |-> from.rate]
  <1>1. /\ worker.step = "build" /\ Len(workerResults) < ResultsMax
        /\ worker' = [step |-> "take", batch |-> NoBatch, modem |-> modem, kit |-> kit]
        /\ workerResults' = Append(workerResults, result)
        /\ rebuild' = rebuild \ {modem.id}
        /\ made' = [modems |-> modem.id, kits |-> kit.id]
        /\ UNCHANGED <<requests, outside, pre, workerQueue, output>>
    BY DEF Build
  <1>2. /\ made.modems = worker.modem.id /\ made.kits = worker.kit.id
        /\ worker.modem.id \in Nat /\ worker.kit.id \in Nat
    BY HeldTypes, ModemIds, KitIds
  <1>3. worker.batch # NoBatch
    BY <1>1 DEF BatchIsSorted
  <1>4. from.rate \in SampleRates /\ (makes => from.type \in Types)
        /\ (~makes => worker.modem # NoModem)
    <2>1. CASE makes
      <3>1. IsMake(worker.batch.make)
        BY <2>1 DEF BatchIsSorted
      <3>2. QED
        BY <2>1, <3>1, HeldTypes, CommandKinds
    <2>2. CASE ~makes
      <3>1. worker.batch.filter # NoCommand
        BY <1>3, <2>2, HeldTypes DEF NoBatch
      <3>2. IsBuild(worker.batch.filter) /\ worker.modem # NoModem
        BY <3>1 DEF BatchIsSorted, BuildsHaveAModem
      <3>3. QED
        BY <2>2, <3>2, HeldTypes, CommandKinds
    <2>3. QED
      BY <2>1, <2>2
  <1> HIDE DEF makes, from
  <1>5. modem \in Modems \ {NoModem} /\ modem.id \in Nat \ {0}
        /\ (modem = worker.modem \/ modem.id > worker.modem.id)
    <2>1. CASE makes
      <3>1. modem = [id |-> worker.modem.id + 1, type |-> from.type]
        BY <1>2, <2>1
      <3>2. modem \in [id : Nat \ {0}, type : Types] /\ modem.id = worker.modem.id + 1
        BY <1>2, <1>4, <2>1, <3>1
      <3>3. QED
        BY <1>2, <3>2 DEF Modems, NoModem
    <2>2. CASE ~makes
      BY <1>4, <2>2, HeldTypes, ModemIds
    <2>3. QED
      BY <2>1, <2>2
  <1> HIDE DEF modem
  <1>6. kit \in Kits \ {NoKit} /\ kit.id = worker.kit.id + 1 /\ kit.modem = modem.id
    BY <1>2, <1>5 DEF Kits, NoKit
  <1> HIDE DEF kit
  <1>7. result \in Results /\ result.modem = modem /\ result.kit = kit
    BY <1>4, <1>5, <1>6 DEF Results
  <1>8. /\ worker' \in Workers /\ worker'.step = "take" /\ worker'.batch = NoBatch
        /\ worker'.modem = modem /\ worker'.kit = kit
    <2>1. NoBatch \in [make : Commands, filter : Commands]
      BY NothingIsMade DEF NoBatch
    <2>2. QED
      BY <1>1, <1>5, <1>6, <2>1 DEF Workers
  <1> HIDE DEF result
  <1>9. kit.id \in Nat /\ kit.id > worker.kit.id
    BY <1>2, <1>6
  <1>10. QED
    BY <1>1, <1>5, <1>6, <1>7, <1>8, <1>9

LEMMA WorkerKeepsTypes ==
    ASSUME TypeOK, BatchIsSorted, BuildsHaveAModem,
           made = [modems |-> worker.modem.id, kits |-> worker.kit.id], Worker
    PROVE  TypeOK'
  <1>1. CASE TakeCommand
    <2>1. /\ worker' \in Workers /\ workerQueue' \in Seq(Commands \ {NoCommand})
          /\ Len(workerQueue') <= WorkerMax
      BY <1>1, TakeCommandTakes, SizeTypes, Bounds
    <2>2. UNCHANGED <<requests, outside, pre, workerResults, rebuild, made, output>>
      BY <1>1 DEF TakeCommand
    <2>3. QED
      BY <2>1, <2>2 DEF TypeOK, requests, outside, pre, rates, tuning, current, output
  <1>2. CASE EndBatch
    <2>1. worker' \in Workers
      BY <1>2, EndBatchEnds
    <2>2. UNCHANGED <<requests, outside, pre, queues, rebuild, made, output>>
      BY <1>2 DEF EndBatch
    <2>3. QED
      BY <2>1, <2>2 DEF TypeOK, requests, outside, pre, rates, tuning, current, queues, output
  <1>3. CASE Build
    <2>1. PICK result \in Results : workerResults' = Append(workerResults, result)
      BY <1>3, BuildMakes
    <2>2. workerResults' \in Seq(Results) /\ Len(workerResults') = Len(workerResults) + 1
      BY <2>1, SizeTypes, Appended
    <2>3. Len(workerResults') <= ResultsMax
      BY <1>3, <2>2, SizeTypes, Bounds DEF Build
    <2>4. worker' \in Workers /\ made' \in [modems : Nat, kits : Nat] /\ rebuild' \subseteq rebuild
      BY <1>3, BuildMakes
    <2>5. UNCHANGED <<requests, outside, pre, workerQueue, output>>
      BY <1>3 DEF Build
    <2>6. QED
      BY <2>2, <2>3, <2>4, <2>5
         DEF TypeOK, requests, outside, pre, rates, tuning, current, output
  <1>4. QED
    BY <1>1, <1>2, <1>3 DEF Worker

\* A block that DemodulatorThread takes, whether it looks at it or not.
LEMMA BlockIsTaken ==
    ASSUME TypeOK, Demodulate \/ DropEmpty
    PROVE  /\ iqOutputQueue # << >> /\ iqOutputQueue[1] \in OutBlocks
           /\ 1 \in 1 .. Len(iqOutputQueue)
           /\ iqOutputQueue' \in Seq(OutBlocks) /\ Len(iqOutputQueue') = Len(iqOutputQueue) - 1
           /\ \A i \in 1 .. Len(iqOutputQueue') :
                iqOutputQueue'[i] = iqOutputQueue[i + 1] /\ i + 1 \in 1 .. Len(iqOutputQueue)
           /\ demod' \in [modem : Modems, kit : Kits]
           /\ Demodulate => /\ demod'.modem = iqOutputQueue[1].modem
                            /\ demod'.kit = iqOutputQueue[1].kit
           /\ DropEmpty => demod' = demod
           /\ heard' \in [freq : Frequencies \cup {0}, missed : BOOLEAN]
           /\ Demodulate => heard'.freq = iqOutputQueue[1].freq /\ heard'.missed = FALSE
           /\ DropEmpty => /\ heard'.freq = heard.freq
                           /\ heard'.missed = (heard.missed \/ iqOutputQueue[1].retuned)
           /\ UNCHANGED <<requests, outside, pre, queues, working>>
  <1>1. /\ iqOutputQueue # << >> /\ iqOutputQueue' = Tail(iqOutputQueue)
        /\ UNCHANGED <<requests, outside, pre, queues, working>>
    BY DEF Demodulate, DropEmpty
  <1>2. /\ iqOutputQueue' \in Seq(OutBlocks) /\ Len(iqOutputQueue') = Len(iqOutputQueue) - 1
        /\ Len(iqOutputQueue) \in Nat \ {0}
        /\ Head(iqOutputQueue) = iqOutputQueue[1] /\ iqOutputQueue[1] \in OutBlocks
        /\ \A i \in 1 .. Len(iqOutputQueue') :
             iqOutputQueue'[i] = iqOutputQueue[i + 1] /\ i + 1 \in 1 .. Len(iqOutputQueue)
    BY <1>1, SizeTypes, Popped
  <1>3. 1 \in 1 .. Len(iqOutputQueue)
    BY <1>2
  <1>4. Demodulate => demod' = [modem |-> iqOutputQueue[1].modem, kit |-> iqOutputQueue[1].kit]
    BY <1>2 DEF Demodulate
  <1>5. DropEmpty => demod' = demod
    BY DEF DropEmpty
  <1>6. demod \in [modem : Modems, kit : Kits]
    BY DEF TypeOK
  <1>7. demod' \in [modem : Modems, kit : Kits]
    BY <1>2, <1>4, <1>5, <1>6, OutBlockTypes
  <1>8. Demodulate => demod'.modem = iqOutputQueue[1].modem /\ demod'.kit = iqOutputQueue[1].kit
    BY <1>4
  <1>9. iqOutputQueue[1].freq \in Frequencies \cup {0} /\ iqOutputQueue[1].retuned \in BOOLEAN
    BY <1>2, OutBlockTypes
  <1>10. heard \in [freq : Frequencies \cup {0}, missed : BOOLEAN]
    BY DEF TypeOK
  <1>11. /\ heard' \in [freq : Frequencies \cup {0}, missed : BOOLEAN]
         /\ Demodulate => heard'.freq = iqOutputQueue[1].freq /\ heard'.missed = FALSE
         /\ DropEmpty => /\ heard'.freq = heard.freq
                         /\ heard'.missed = (heard.missed \/ iqOutputQueue[1].retuned)
    <2>1. ASSUME Demodulate
          PROVE  /\ heard' \in [freq : Frequencies \cup {0}, missed : BOOLEAN]
                 /\ heard'.freq = iqOutputQueue[1].freq /\ heard'.missed = FALSE
      BY <1>2, <1>9, <2>1 DEF Demodulate
    <2>2. ASSUME DropEmpty
          PROVE  /\ heard' \in [freq : Frequencies \cup {0}, missed : BOOLEAN]
                 /\ heard'.freq = heard.freq
                 /\ heard'.missed = (heard.missed \/ iqOutputQueue[1].retuned)
      BY <1>2, <1>9, <1>10, <2>2 DEF DropEmpty
    <2>3. heard' \in [freq : Frequencies \cup {0}, missed : BOOLEAN]
      BY <2>1, <2>2
    <2>4. QED
      BY <2>1, <2>2, <2>3
  <1>12. QED
    BY <1>1, <1>2, <1>3, <1>5, <1>7, <1>8, <1>11

LEMMA DemodKeepsTypes ==
    ASSUME TypeOK, Demodulate \/ DropEmpty
    PROVE  TypeOK'
  <1>1. /\ iqOutputQueue' \in Seq(OutBlocks) /\ Len(iqOutputQueue') <= OutMax
        /\ demod' \in [modem : Modems, kit : Kits]
        /\ heard' \in [freq : Frequencies \cup {0}, missed : BOOLEAN]
    <2>1. /\ iqOutputQueue' \in Seq(OutBlocks) /\ Len(iqOutputQueue') = Len(iqOutputQueue) - 1
          /\ demod' \in [modem : Modems, kit : Kits]
          /\ heard' \in [freq : Frequencies \cup {0}, missed : BOOLEAN]
      BY BlockIsTaken
    <2>2. QED
      BY <2>1, SizeTypes, Bounds
  <1>2. UNCHANGED <<requests, outside, pre, queues, working>>
    BY BlockIsTaken
  <1>3. QED
    BY <1>1, <1>2 DEF TypeOK, requests, outside, pre, rates, tuning, current, queues, working

-----------------------------------------------------------------------------
(* Commands, rates and the retune.                                         *)

Others == Gui \/ \E rate \in SampleRates : ChangeStreamRate(rate)

LEMMA NextCases == Next <=> Others \/ Pre \/ Worker \/ (Demodulate \/ DropEmpty)
  BY DEF Next, Others

LEMMA OthersChangeRequests == Others => UNCHANGED <<pre, queues, working, output>>
  BY DEF Others, Gui, SetDemodType, SetFrequency, StoreFlag, SetBandwidth, WriteModemSetting,
         ChangeStreamRate, Change

\* The steps of DemodulatorPreThread that neither push nor pop anything.
LEMMA QuietPreSteps ==
    ASSUME Pre
    PROVE  \/ PushCommand \/ Emit \/ TakeResult
           \/ UNCHANGED <<cModem, cModemKit, queues, worker, made, output>>
  BY DEF Pre, TakeBlock, Retune, PrepareMake, PrepareBuild, NothingChanged, Skip, Pass, EndBlock,
         current, working, output

LEMMA WorkerLeavesPre == Worker \/ Demodulate \/ DropEmpty => UNCHANGED <<requests, pre>>
  BY DEF Worker, TakeCommand, EndBatch, Build, Demodulate, DropEmpty

LEMMA PreKeepsPending ==
    ASSUME TypeOK, CommandIsPending, RateIsKnown, Pre
    PROVE  CommandIsPending' /\ RateIsKnown'
  <1>1. CASE TakeBlock
    <2>1. newSampleRate' # 0
      <3>1. streamRate # 0
        BY DemodulationAssumption DEF TypeOK
      <3>2. QED
        BY <1>1, <3>1 DEF TakeBlock, RateIsKnown
    <2>2. /\ preStep = "pop" /\ preStep' \in {"retune", "command"}
          /\ UNCHANGED <<demodTypeChanged, current, command>>
      BY <1>1 DEF TakeBlock
    <2>3. QED
      BY <2>1, <2>2 DEF CommandIsPending, RateIsKnown, current
  <1>2. CASE Retune
    BY <1>2 DEF Retune, requests, rates, current, CommandIsPending, RateIsKnown
  <1>3. CASE PrepareMake
    BY <1>3 DEF PrepareMake, NoCommand, CommandIsPending, RateIsKnown
  <1>4. CASE PrepareBuild
    BY <1>4 DEF PrepareBuild, HasModem, current, NoCommand, CommandIsPending, RateIsKnown
  <1>5. CASE NothingChanged \/ Skip \/ Pass
    BY <1>5 DEF NothingChanged, Skip, Pass, requests, rates, current, CommandIsPending, RateIsKnown
  <1>6. CASE PushCommand
    <2>1. command.cmd # "make" => command.cmd = "build"
      BY <1>6, HeldTypes, CommandKinds DEF PushCommand, CommandIsPending, IsMake, IsBuild
    <2>2. \/ cModem' = NoModem /\ cModemKit' = NoKit
          \/ command.cmd = "build" /\ UNCHANGED <<cModem, cModemKit>>
      BY <1>6, <2>1 DEF PushCommand
    <2>3. /\ preStep' = "use" /\ preStep = "push" /\ command' = NoCommand
          /\ UNCHANGED <<newSampleRate, currentSampleRate>>
      BY <1>6 DEF PushCommand, rates
    <2>4. CommandIsPending'
      BY <2>2, <2>3 DEF CommandIsPending, NoCommand
    <2>5. QED
      BY <2>3, <2>4 DEF RateIsKnown
  <1>7. CASE Emit
    BY <1>7 DEF Emit, requests, rates, current, CommandIsPending, RateIsKnown
  <1>8. CASE TakeResult
    <2>1. Head(workerResults) \in Results
      BY <1>8, SizeTypes, Popped DEF TakeResult
    <2>2. cModem' # NoModem /\ cModemKit' # NoKit
      BY <1>8, <2>1, ResultTypes DEF TakeResult
    <2>3. /\ preStep = "results" /\ UNCHANGED <<preStep, newSampleRate, command>>
      BY <1>8 DEF TakeResult
    <2>4. command = NoCommand
      BY <2>3 DEF CommandIsPending
    <2>5. QED
      BY <2>2, <2>3, <2>4 DEF NoCommand, CommandIsPending, RateIsKnown
  <1>9. CASE EndBlock
    BY <1>9 DEF EndBlock, rates, current, CommandIsPending, RateIsKnown
  <1>10. QED
    BY <1>1, <1>2, <1>3, <1>4, <1>5, <1>6, <1>7, <1>8, <1>9 DEF Pre

\* The GUI raises the flag of the type and never clears it.
LEMMA OthersRaiseFlags ==
    ASSUME TypeOK, Others
    PROVE  demodTypeChanged => demodTypeChanged'
  BY DEF TypeOK, Others, Gui, SetDemodType, SetFrequency, StoreFlag, SetBandwidth, WriteModemSetting,
         ChangeStreamRate, requests

LEMMA PendingKeeps ==
    ASSUME IInv, Next
    PROVE  CommandIsPending' /\ RateIsKnown'
  <1>1. CASE Pre
    BY <1>1, PreKeepsPending DEF IInv
  <1>2. CASE ~Pre
    <2>1. UNCHANGED pre /\ (demodTypeChanged => demodTypeChanged')
      BY <1>2, NextCases, OthersChangeRequests, OthersRaiseFlags, WorkerLeavesPre DEF IInv, requests
    <2>2. QED
      BY <2>1 DEF IInv, pre, rates, current, CommandIsPending, RateIsKnown
  <1>3. QED
    BY <1>1, <1>2

\* What the worker takes is sorted by kind.
LEMMA BatchKeeps ==
    ASSUME IInv, Next
    PROVE  BatchIsSorted'
  <1>1. TypeOK /\ BatchIsSorted
    BY DEF IInv
  <1>2. CASE TakeCommand
    <2>1. workerQueue[1] # NoCommand /\ (IsMake(workerQueue[1]) \/ IsBuild(workerQueue[1]))
      BY <1>1, <1>2, TakeCommandTakes, CommandKinds
    <2>2. worker'.batch # NoBatch
      BY <1>1, <1>2, <2>1, TakeCommandTakes DEF NoBatch
    <2>3. QED
      BY <1>1, <1>2, <2>1, <2>2, TakeCommandTakes DEF BatchIsSorted
  <1>3. CASE EndBatch
    BY <1>1, <1>3, EndBatchEnds DEF BatchIsSorted
  <1>4. CASE Build
    <2>1. worker'.step = "take" /\ worker'.batch = NoBatch
      BY <1>4 DEF Build
    <2>2. QED
      BY <2>1 DEF BatchIsSorted, NoBatch
  <1>5. CASE ~Worker
    <2>1. UNCHANGED worker
      <3>1. CASE Pre
        BY <3>1, QuietPreSteps DEF PushCommand, Emit, TakeResult, working
      <3>2. CASE ~Pre
        BY <1>5, <3>2, NextCases, OthersChangeRequests DEF Demodulate, DropEmpty, working
      <3>3. QED
        BY <3>1, <3>2
    <2>2. QED
      BY <1>1, <2>1 DEF BatchIsSorted
  <1>6. QED
    BY <1>2, <1>3, <1>4, <1>5 DEF Worker

\* Whoever holds a modem got it from the worker.
LEMMA HeldIsMade ==
    ASSUME TypeOK, MadeInOrder
    PROVE  /\ workerResults # << >> => worker.modem # NoModem
           /\ cModem # NoModem => worker.modem # NoModem
  <1>1. ASSUME workerResults # << >> PROVE worker.modem # NoModem
    <2>1. 1 \in 1 .. Len(workerResults) /\ workerResults[1] \in Results
      BY <1>1, SizeTypes, EmptySeq, Elements
    <2>2. Before(workerResults[1], worker) /\ workerResults[1].modem # NoModem
      BY <2>1, ResultTypes DEF MadeInOrder
    <2>3. workerResults[1].modem.id \in Nat \ {0} /\ worker.modem.id \in Nat
      BY <2>1, <2>2, ResultTypes, ModemIds, HeldTypes
    <2>4. QED
      BY <2>2, <2>3 DEF Before, NoModem
  <1>2. ASSUME cModem # NoModem PROVE worker.modem # NoModem
    <2>1. Before(Current, worker)
      BY <1>2 DEF MadeInOrder
    <2>2. cModem.id \in Nat \ {0} /\ worker.modem.id \in Nat /\ Current.modem = cModem
      BY <1>2, ModemIds, HeldTypes DEF Current, TypeOK
    <2>3. QED
      BY <1>2, <2>1, <2>2 DEF Before, NoModem
  <1>3. QED
    BY <1>1, <1>2

LEMMA BuildsKeep ==
    ASSUME IInv, Next
    PROVE  BuildsHaveAModem'
  <1>1. TypeOK /\ BuildsHaveAModem /\ MadeInOrder
    BY DEF IInv
  <1>2. CASE PrepareBuild
    BY <1>1, <1>2, HeldIsMade DEF BuildsHaveAModem, PrepareBuild, HasModem, current, queues, working
  <1>3. CASE PushCommand
    <2>1. /\ workerQueue \in Seq(Commands \ {NoCommand}) /\ command \in Commands \ {NoCommand}
          /\ workerQueue' = Append(workerQueue, command)
      BY <1>1, <1>3 DEF IInv, TypeOK, CommandIsPending, PushCommand
    <2>2. /\ Len(workerQueue') = Len(workerQueue) + 1 /\ Len(workerQueue) \in Nat
          /\ \A i \in 1 .. Len(workerQueue) : workerQueue'[i] = workerQueue[i]
          /\ workerQueue'[Len(workerQueue')] = command
      BY <2>1, Appended
    <2>3. UNCHANGED worker /\ command' = NoCommand /\ cModem' \in {cModem, NoModem}
      BY <1>3 DEF PushCommand, working
    <2>4. ASSUME NEW i \in 1 .. Len(workerQueue'), worker.modem = NoModem
          PROVE  workerQueue'[i].cmd # "build"
      BY <1>1, <2>2, <2>4 DEF BuildsHaveAModem
    <2>5. QED
      BY <1>1, <2>3, <2>4 DEF BuildsHaveAModem, NoCommand
  <1>4. CASE TakeResult
    BY <1>1, <1>4, HeldIsMade DEF BuildsHaveAModem, TakeResult, working
  <1>5. CASE TakeCommand
    <2>1. worker.modem = NoModem => ~IsBuild(workerQueue[1])
      <3>1. 1 \in 1 .. Len(workerQueue)
        BY <1>1, <1>5, TakeCommandTakes, SizeTypes, EmptySeq
      <3>2. QED
        BY <1>1, <3>1 DEF BuildsHaveAModem, IsBuild
    <2>2. worker.modem = NoModem => IsMake(workerQueue[1])
      BY <1>1, <1>5, <2>1, TakeCommandTakes, CommandKinds
    <2>3. UNCHANGED <<command, cModem>>
      BY <1>5 DEF TakeCommand, pre, current
    <2>4. QED
      BY <1>1, <1>5, <2>2, <2>3, TakeCommandTakes DEF BuildsHaveAModem
  <1>6. CASE EndBatch
    BY <1>1, <1>6, EndBatchEnds DEF BuildsHaveAModem, pre, current, queues
  <1>7. CASE Build
    <2>1. worker'.modem # NoModem
      BY <1>7, BuildMakes DEF IInv, MadeInOrder
    <2>2. QED
      BY <2>1 DEF BuildsHaveAModem
  <1>8. CASE Pre /\ ~(PrepareBuild \/ PushCommand \/ TakeResult)
    BY <1>1, <1>8
       DEF BuildsHaveAModem, Pre, TakeBlock, Retune, PrepareMake, NothingChanged, Skip, Emit, Pass,
           EndBlock, current, queues, working
  <1>9. CASE Others \/ Demodulate \/ DropEmpty
    <2>1. UNCHANGED <<pre, queues, working>>
      BY <1>9, OthersChangeRequests DEF Demodulate, DropEmpty
    <2>2. QED
      BY <1>1, <2>1 DEF BuildsHaveAModem, pre, current, queues, working
  <1>10. QED
    BY <1>2, <1>3, <1>4, <1>5, <1>6, <1>7, <1>8, <1>9, NextCases DEF Worker
-----------------------------------------------------------------------------
(* What goes round.                                                        *)

LEMMA Domains ==
    ASSUME NEW S, NEW q \in Seq(S)
    PROVE  DOMAIN q = 1 .. Len(q)
  BY LenProperties

LEMMA EmitAppends ==
    ASSUME TypeOK, Emit
    PROVE  \E block \in OutBlocks :
             /\ block.modem = cModem /\ block.kit = cModemKit /\ block.retuned = pendingRetune
             /\ block.freq = currentFrequency /\ cModem # NoModem
             /\ iqOutputQueue' \in Seq(OutBlocks) /\ Len(iqOutputQueue') = Len(iqOutputQueue) + 1
             /\ \A i \in 1 .. Len(iqOutputQueue) : iqOutputQueue'[i] = iqOutputQueue[i]
             /\ iqOutputQueue'[Len(iqOutputQueue')] = block
             /\ UNCHANGED <<cModem, cModemKit, queues, working, demod, heard>>
  <1> DEFINE block == [modem |-> cModem, kit |-> cModemKit, retuned |-> pendingRetune,
                       freq |-> currentFrequency]
  <1>1. /\ iqOutputQueue \in Seq(OutBlocks) /\ block \in OutBlocks
        /\ iqOutputQueue' = Append(iqOutputQueue, block)
    BY DEF TypeOK, Emit, Usable, HasModem, OutBlocks
  <1>2. /\ block.modem = cModem /\ block.kit = cModemKit /\ block.retuned = pendingRetune
        /\ block.freq = currentFrequency /\ cModem # NoModem
        /\ UNCHANGED <<cModem, cModemKit, queues, working, demod, heard>>
    BY DEF Emit, Usable, HasModem, current
  <1> HIDE DEF block
  <1>3. /\ iqOutputQueue' \in Seq(OutBlocks) /\ Len(iqOutputQueue') = Len(iqOutputQueue) + 1
        /\ \A i \in 1 .. Len(iqOutputQueue) : iqOutputQueue'[i] = iqOutputQueue[i]
        /\ iqOutputQueue'[Len(iqOutputQueue')] = block
    BY <1>1, Appended
  <1>4. QED
    BY <1>1, <1>2, <1>3

\* A retune is kept, or told, or dropped with the block that told it.
LEMMA RetuneKeeps ==
    ASSUME IInv, Next
    PROVE  RetuneIsPending'
  <1> DEFINE q == iqOutputQueue
  <1>0. PICK n : n = Len(q)
    OBVIOUS
  <1>1. TypeOK /\ n = Len(q) /\ n \in Nat /\ RetuneIsPending
    BY <1>0, SizeTypes DEF IInv
  <1>2. CASE Retune
    <2>1. /\ pendingRetune' = (pendingRetune \/ newFrequency # currentFrequency)
          /\ currentFrequency' = newFrequency /\ UNCHANGED <<iqOutputQueue, heard>>
      BY <1>2 DEF Retune, output
    <2>2. QED
      BY <1>1, <2>1 DEF RetuneIsPending, FrequencyBefore
  <1>3. CASE Emit
    <2>1. /\ Len(q') = n + 1
          /\ \A i \in 1 .. n : q'[i] = q[i]
          /\ q'[n + 1].freq = currentFrequency /\ q'[n + 1].retuned = pendingRetune
          /\ UNCHANGED heard
      BY <1>1, <1>3, EmitAppends
    <2>2. currentFrequency' = currentFrequency
      BY <1>3 DEF Emit
    <2>3. \A i \in 1 .. n + 1 : FrequencyBefore(i)' = FrequencyBefore(i)
      BY <1>1, <2>1 DEF FrequencyBefore
    <2>4. FrequencyBefore(n + 2)' = currentFrequency
      <3>1. n + 2 # 1 /\ n + 2 - 1 = n + 1
        BY <1>1
      <3>2. FrequencyBefore(n + 2)' = iqOutputQueue'[n + 2 - 1].freq
        BY <1>1, <3>1 DEF FrequencyBefore
      <3>3. QED
        BY <2>1, <3>1, <3>2
    <2>5. ASSUME NEW i \in 1 .. n + 1, q'[i].freq # FrequencyBefore(i)'
          PROVE  q'[i].retuned \/ (i = 1 /\ heard'.missed)
      <3>1. CASE i = n + 1
        BY <1>1, <2>1, <2>3, <2>5, <3>1 DEF RetuneIsPending
      <3>2. CASE i \in 1 .. n
        BY <1>1, <2>1, <2>3, <2>5, <3>2 DEF RetuneIsPending
      <3>3. QED
        BY <1>1, <3>1, <3>2
    <2>6. n + 1 + 1 = n + 2 /\ Len(q') = n + 1
      BY <1>1, <2>1
    <2>7. QED
      BY <2>2, <2>4, <2>5, <2>6 DEF RetuneIsPending, FrequencyBefore
  <1>4. CASE Demodulate \/ DropEmpty
    <2>1. /\ n > 0 /\ Len(q') = n - 1 /\ q[1] \in OutBlocks
          /\ \A i \in 1 .. n - 1 : q'[i] = q[i + 1]
          /\ UNCHANGED <<currentFrequency, pendingRetune>>
      <3>1. UNCHANGED <<currentFrequency, pendingRetune>>
        BY <1>4, WorkerLeavesPre DEF pre, tuning
      <3>2. /\ 1 \in 1 .. n /\ Len(q') = n - 1 /\ q[1] \in OutBlocks
            /\ \A i \in 1 .. Len(q') : q'[i] = q[i + 1]
        BY <1>1, <1>4, BlockIsTaken
      <3>3. QED
        BY <1>1, <3>1, <3>2
    <2>2. /\ Demodulate => heard'.freq = q[1].freq /\ heard'.missed = FALSE
          /\ DropEmpty => heard'.freq = heard.freq /\ heard'.missed = (heard.missed \/ q[1].retuned)
      BY <1>1, <1>4, BlockIsTaken
    <2>3. \A i \in 2 .. n : FrequencyBefore(i)' = FrequencyBefore(i + 1)
      BY <1>1, <2>1 DEF FrequencyBefore
    <2>4. FrequencyBefore(1)' = FrequencyBefore(2) \/ heard'.missed
      <3>1. FrequencyBefore(1)' = heard'.freq /\ FrequencyBefore(2) = q[1].freq
            /\ FrequencyBefore(1) = heard.freq
        BY DEF FrequencyBefore
      <3>2. CASE Demodulate
        BY <2>2, <3>1, <3>2
      <3>3. CASE DropEmpty
        <4>1. ASSUME ~heard.missed, ~q[1].retuned
              PROVE  q[1].freq = heard.freq
          BY <1>1, <2>1, <3>1, <4>1 DEF RetuneIsPending
        <4>2. q[1].retuned \in BOOLEAN /\ heard.missed \in BOOLEAN
          BY <1>1, <2>1, OutBlockTypes DEF TypeOK
        <4>3. QED
          BY <2>2, <3>1, <3>3, <4>1, <4>2
      <3>4. QED
        BY <1>4, <3>2, <3>3
    <2>5. ASSUME NEW i \in 1 .. n - 1, q'[i].freq # FrequencyBefore(i)'
          PROVE  q'[i].retuned \/ (i = 1 /\ heard'.missed)
      <3>1. /\ i \in Nat /\ i + 1 \in 1 .. n /\ i + 1 # 1 /\ q'[i] = q[i + 1]
            /\ (i = 1 \/ i \in 2 .. n)
        BY <1>1, <2>1
      <3>2. (i = 1 /\ heard'.missed) \/ FrequencyBefore(i)' = FrequencyBefore(i + 1)
        BY <2>3, <2>4, <3>1
      <3>3. QED
        BY <1>1, <2>5, <3>1, <3>2 DEF RetuneIsPending
    <2>6. ASSUME currentFrequency # FrequencyBefore(n)'
          PROVE  pendingRetune \/ (n - 1 = 0 /\ heard'.missed)
      <3>1. (n = 1 /\ heard'.missed) \/ FrequencyBefore(n)' = FrequencyBefore(n + 1)
        BY <1>1, <2>1, <2>3, <2>4
      <3>2. n # 0 /\ (n = 1 => n - 1 = 0)
        BY <1>1, <2>1
      <3>3. QED
        BY <1>1, <2>6, <3>1, <3>2 DEF RetuneIsPending
    <2>7. Len(q') = n - 1 /\ n - 1 + 1 = n
      BY <1>1, <2>1
    <2>8. QED
      BY <2>1, <2>5, <2>6, <2>7 DEF RetuneIsPending, FrequencyBefore
  <1>5. CASE Others \/ Worker \/ (Pre /\ ~Retune /\ ~Emit)
    <2>1. UNCHANGED <<iqOutputQueue, heard, tuning>>
      <3>1. CASE Others
        BY <3>1, OthersChangeRequests DEF pre, output
      <3>2. CASE Worker
        BY <3>2, WorkerLeavesPre DEF Worker, TakeCommand, EndBatch, Build, pre, output
      <3>3. CASE Pre /\ ~Retune /\ ~Emit
        BY <3>3 DEF Pre, TakeBlock, PrepareMake, PrepareBuild, NothingChanged, PushCommand, Skip,
                    Pass, TakeResult, EndBlock, output
      <3>4. QED
        BY <1>5, <3>1, <3>2, <3>3
    <2>2. QED
      BY <1>1, <2>1 DEF RetuneIsPending, FrequencyBefore, tuning
  <1>6. QED
    BY <1>2, <1>3, <1>4, <1>5, NextCases

-----------------------------------------------------------------------------
(* The type that is shown.                                                 *)

\* The commands that ask for a modem.
Makes == {i \in DOMAIN workerQueue : workerQueue[i].cmd = "make"}

LEMMA PushedIsOrdered ==
    ASSUME IInv, PushCommand, IsMake(command), NEW t, t = command.type
    PROVE  IsOrdered(t)'
  <1> DEFINE n == Len(workerQueue)
  <1>1. /\ workerQueue \in Seq(Commands \ {NoCommand}) /\ command \in Commands \ {NoCommand}
        /\ workerQueue' = Append(workerQueue, command)
    BY DEF IInv, TypeOK, CommandIsPending, PushCommand
  <1>2. /\ workerQueue' \in Seq(Commands \ {NoCommand}) /\ Len(workerQueue') = n + 1 /\ n \in Nat
        /\ workerQueue'[n + 1] = command
    BY <1>1, Appended
  <1>3. DOMAIN workerQueue' = 1 .. n + 1
    BY <1>2
  <1>4. n + 1 \in Makes' /\ \A j \in Makes' : j <= n + 1
    BY <1>2, <1>3 DEF Makes, IsMake
  <1>5. workerQueue'[n + 1].type = t
    BY <1>2
  <1> HIDE DEF n
  <1>6. QED
    BY <1>4, <1>5 DEF IsOrdered, Makes

LEMMA TakenIsOrdered ==
    ASSUME IInv, TakeCommand, NEW t, IsOrdered(t)
    PROVE  IsOrdered(t)'
  <1> DEFINE n == Len(workerQueue)
  <1>1. TypeOK /\ n \in Nat /\ n # 0 /\ workerQueue \in Seq(Commands \ {NoCommand})
    BY SizeTypes, TakeCommandTakes, EmptySeq DEF IInv
  <1>2. /\ workerQueue' \in Seq(Commands \ {NoCommand}) /\ Len(workerQueue') = n - 1
        /\ workerQueue[1] # NoCommand
        /\ \A i \in 1 .. n - 1 : workerQueue'[i] = workerQueue[i + 1]
        /\ worker'.modem = worker.modem
        /\ worker'.batch.make =
                IF IsMake(workerQueue[1]) THEN workerQueue[1] ELSE worker.batch.make
    BY <1>1, TakeCommandTakes
  <1>3. DOMAIN workerQueue = 1 .. n /\ DOMAIN workerQueue' = 1 .. n - 1
    BY <1>1, <1>2
  <1>4. \A i \in 1 .. n - 1 : i \in Makes' <=> i + 1 \in Makes
    BY <1>1, <1>2, <1>3 DEF Makes
  <1>5. Makes \subseteq 1 .. n /\ Makes' \subseteq 1 .. n - 1
        /\ (1 \in Makes <=> IsMake(workerQueue[1]))
    BY <1>1, <1>3 DEF Makes, IsMake
  <1>6. ASSUME NEW i \in Makes, workerQueue[i].type = t, \A j \in Makes : j <= i
        PROVE  IsOrdered(t)'
    <2>1. CASE i = 1
      <3>1. Makes' = {}
        BY <1>1, <1>4, <1>5, <1>6, <2>1
      <3>2. worker'.batch.make # NoCommand /\ worker'.batch.make.type = t
        BY <1>2, <1>5, <1>6, <2>1
      <3>3. QED
        BY <3>1, <3>2 DEF IsOrdered, Makes
    <2>2. CASE i # 1
      <3>1. i - 1 \in 1 .. n - 1 /\ i - 1 + 1 = i
        BY <1>1, <1>5, <2>2
      <3>2. i - 1 \in Makes' /\ workerQueue'[i - 1].type = t
        BY <1>2, <1>4, <1>6, <3>1
      <3>3. \A j \in Makes' : j <= i - 1
        BY <1>1, <1>4, <1>5, <1>6, <3>1
      <3>4. QED
        BY <3>2, <3>3 DEF IsOrdered, Makes
    <2>3. QED
      BY <2>1, <2>2
  <1>7. ASSUME Makes = {}
        PROVE  Makes' = {} /\ worker'.batch.make = worker.batch.make
    BY <1>1, <1>2, <1>4, <1>5, <1>7
  <1>8. \/ \E i \in Makes : workerQueue[i].type = t /\ \A j \in Makes : j <= i
        \/ Makes = {} /\ worker.batch.make # NoCommand /\ worker.batch.make.type = t
        \/ Makes = {} /\ worker.batch.make = NoCommand /\ worker.modem # NoModem /\ worker.modem.type = t
    BY DEF IsOrdered, Makes
  <1> HIDE DEF n
  <1>9. CASE Makes = {}
    BY <1>2, <1>7, <1>8, <1>9 DEF IsOrdered, Makes
  <1>10. QED
    BY <1>6, <1>8, <1>9

LEMMA BuiltIsOrdered ==
    ASSUME IInv, Build, NEW t, IsOrdered(t)
    PROVE  IsOrdered(t)'
  <1>1. /\ TypeOK /\ BatchIsSorted /\ BuildsHaveAModem
        /\ made = [modems |-> worker.modem.id, kits |-> worker.kit.id]
    BY DEF IInv, MadeInOrder
  <1>2. /\ UNCHANGED workerQueue /\ worker'.batch = NoBatch /\ worker'.modem # NoModem
    BY <1>1, BuildMakes
  <1>3. worker'.batch.make = NoCommand
    BY <1>2 DEF NoBatch
  <1>4. ASSUME worker.batch.make # NoCommand
        PROVE  worker'.modem.type = worker.batch.make.type
    BY <1>4 DEF Build
  <1>5. ASSUME worker.batch.make = NoCommand
        PROVE  worker'.modem = worker.modem
    BY <1>5 DEF Build
  <1>6. QED
    BY <1>2, <1>3, <1>4, <1>5 DEF IsOrdered

\* What the GUI is told comes with the modem, or is what the worker was told last.
LEMMA TypeKeeps ==
    ASSUME IInv, Next
    PROVE  ShownTypeRuns'
  <1>1. TypeOK /\ ShownTypeRuns /\ CommandIsPending
    BY DEF IInv
  <1>2. CASE PushCommand
    <2>1. CASE command.cmd = "make"
      <3>1. /\ cModem' = NoModem /\ demodTypeChanged' = FALSE /\ demodType' = demodType
            /\ demodType = command.type
        BY <1>1, <1>2, <2>1 DEF PushCommand, CommandIsPending
      <3>2. PICK t : t = command.type
        OBVIOUS
      <3>3. IsOrdered(t)'
        BY <1>2, <2>1, <3>2, PushedIsOrdered DEF IsMake
      <3>4. QED
        BY <3>1, <3>2, <3>3 DEF ShownTypeRuns, getDemodType, IsOrdered
    <2>2. CASE command.cmd # "make"
      <3>1. command.cmd = "build"
        BY <1>1, <1>2, <2>2, HeldTypes, CommandKinds DEF PushCommand, CommandIsPending, IsMake, IsBuild
      <3>2. UNCHANGED <<cModem, demodTypeChanged, demodType, newDemodType>> /\ cModem # NoModem
        BY <1>1, <1>2, <2>2, <3>1 DEF PushCommand, CommandIsPending
      <3>3. QED
        BY <1>1, <3>2 DEF ShownTypeRuns, getDemodType
    <2>3. QED
      BY <2>1, <2>2
  <1>3. CASE TakeResult
    <2>1. Head(workerResults) \in Results
      BY <1>1, <1>3, SizeTypes, Popped DEF TakeResult
    <2>2. cModem' # NoModem /\ cModem'.type = demodType' /\ demodTypeChanged' = FALSE
      BY <1>3, <2>1, ResultTypes DEF TakeResult
    <2>3. QED
      BY <2>2 DEF ShownTypeRuns, getDemodType
  <1>4. CASE PrepareMake
    BY <1>4 DEF PrepareMake, ShownTypeRuns
  <1>5. CASE Worker
    <2>1. UNCHANGED <<cModem, demodTypeChanged, demodType>>
      BY <1>5, WorkerLeavesPre DEF requests, pre, current
    <2>2. PICK t : t = demodType
      OBVIOUS
    <2>3. ASSUME IsOrdered(t) PROVE IsOrdered(t)'
      <3>1. CASE EndBatch
        <4>1. UNCHANGED workerQueue /\ worker'.batch = worker.batch /\ worker'.modem = worker.modem
          BY <1>1, <3>1, EndBatchEnds DEF queues
        <4>2. QED
          BY <2>3, <4>1 DEF IsOrdered
      <3>2. QED
        BY <1>5, <2>3, <3>1, TakenIsOrdered, BuiltIsOrdered DEF Worker
    <2>4. ASSUME ~demodTypeChanged
          PROVE  IF cModem # NoModem THEN cModem.type = t ELSE IsOrdered(t)
      BY <1>1, <2>2, <2>4 DEF ShownTypeRuns, getDemodType, IsOrdered
    <2>5. ASSUME ~demodTypeChanged'
          PROVE  IF cModem' # NoModem THEN cModem'.type = t ELSE IsOrdered(t)'
      BY <2>1, <2>3, <2>4, <2>5
    <2>6. t = demodType'
      BY <2>1, <2>2
    <2>7. QED
      BY <2>5, <2>6 DEF ShownTypeRuns, getDemodType, IsOrdered
  <1>6. CASE Others \/ Demodulate \/ DropEmpty \/ (Pre /\ ~PushCommand /\ ~TakeResult /\ ~PrepareMake)
    <2>1. /\ UNCHANGED <<cModem, demodType, workerQueue, worker>>
          /\ demodTypeChanged => demodTypeChanged'
      <3>1. CASE Others
        BY <1>1, <3>1, OthersChangeRequests, OthersRaiseFlags DEF pre, current, queues, working
      <3>2. CASE Demodulate \/ DropEmpty
        BY <3>2 DEF Demodulate, DropEmpty, requests, pre, current, queues, working
      <3>3. CASE Pre /\ ~PushCommand /\ ~TakeResult /\ ~PrepareMake
        BY <3>3 DEF Pre, TakeBlock, Retune, PrepareBuild, NothingChanged, Skip, Emit, Pass, EndBlock,
                    requests, current, queues, working
      <3>4. QED
        BY <1>6, <3>1, <3>2, <3>3
    <2>2. QED
      BY <1>1, <2>1 DEF ShownTypeRuns, getDemodType, IsOrdered
  <1>7. QED
    BY <1>2, <1>3, <1>4, <1>5, <1>6, NextCases

LEMMA ResultIsTaken ==
    ASSUME TypeOK, TakeResult
    PROVE  /\ workerResults # << >> /\ workerResults[1] \in Results
           /\ 1 \in 1 .. Len(workerResults)
           /\ cModem' = workerResults[1].modem /\ cModemKit' = workerResults[1].kit
           /\ workerResults' \in Seq(Results) /\ Len(workerResults') = Len(workerResults) - 1
           /\ \A i \in 1 .. Len(workerResults') :
                workerResults'[i] = workerResults[i + 1] /\ i + 1 \in 1 .. Len(workerResults)
           /\ UNCHANGED <<workerQueue, working, output>>
  <1>1. /\ workerResults # << >> /\ workerResults' = Tail(workerResults)
        /\ cModem' = Head(workerResults).modem /\ cModemKit' = Head(workerResults).kit
        /\ UNCHANGED <<workerQueue, working, output>>
    BY DEF TakeResult
  <1>2. /\ workerResults' \in Seq(Results) /\ Len(workerResults') = Len(workerResults) - 1
        /\ Len(workerResults) \in Nat \ {0}
        /\ Head(workerResults) = workerResults[1] /\ workerResults[1] \in Results
        /\ \A i \in 1 .. Len(workerResults') :
             workerResults'[i] = workerResults[i + 1] /\ i + 1 \in 1 .. Len(workerResults)
    BY <1>1, SizeTypes, Popped
  <1>3. 1 \in 1 .. Len(workerResults)
    BY <1>2
  <1>4. QED
    BY <1>1, <1>2, <1>3

LEMMA ResultIsBuilt ==
    ASSUME IInv, Build
    PROVE  \E result \in Results :
             /\ result.modem = worker'.modem /\ result.kit = worker'.kit
             /\ workerResults' \in Seq(Results) /\ Len(workerResults') = Len(workerResults) + 1
             /\ \A i \in 1 .. Len(workerResults) : workerResults'[i] = workerResults[i]
             /\ workerResults'[Len(workerResults')] = result
  <1>1. PICK result \in Results :
            /\ workerResults' = Append(workerResults, result)
            /\ result.modem = worker'.modem /\ result.kit = worker'.kit
    BY BuildMakes DEF IInv, MadeInOrder
  <1>2. QED
    BY <1>1, SizeTypes, Appended DEF IInv

LEMMA KitBelongs ==
    ASSUME IInv, TypeOK', Next
    PROVE  KitBelongsToModem'
  <1>1. /\ TypeOK /\ Belongs(worker) /\ Belongs(demod) /\ cModemKit.modem = cModem.id
        /\ \A i \in 1 .. Len(workerResults) : Belongs(workerResults[i])
        /\ \A i \in 1 .. Len(iqOutputQueue) : Belongs(iqOutputQueue[i])
    BY SizeTypes, Domains DEF IInv, KitBelongsToModem
  <1>2. SUFFICES /\ Belongs(worker') /\ Belongs(demod') /\ cModemKit'.modem = cModem'.id
                 /\ \A i \in 1 .. Len(workerResults') : Belongs(workerResults'[i])
                 /\ \A i \in 1 .. Len(iqOutputQueue') : Belongs(iqOutputQueue'[i])
    <2>1. workerResults' \in Seq(Results) /\ iqOutputQueue' \in Seq(OutBlocks)
      BY DEF TypeOK
    <2>2. DOMAIN workerResults' = 1 .. Len(workerResults')
          /\ DOMAIN iqOutputQueue' = 1 .. Len(iqOutputQueue')
      BY <2>1, Domains
    <2>3. QED
      BY <1>2, <2>2 DEF KitBelongsToModem
  <1>3. CASE PushCommand
    <2>1. UNCHANGED <<workerResults, working, output>>
      BY <1>3 DEF PushCommand
    <2>2. cModemKit'.modem = cModem'.id
      BY <1>1, <1>3 DEF PushCommand, NoModem, NoKit
    <2>3. QED
      BY <1>1, <2>1, <2>2 DEF working, output
  <1>4. CASE Emit
    <2>1. PICK block \in OutBlocks :
             /\ block.modem = cModem /\ block.kit = cModemKit
             /\ Len(iqOutputQueue') = Len(iqOutputQueue) + 1
             /\ \A i \in 1 .. Len(iqOutputQueue) : iqOutputQueue'[i] = iqOutputQueue[i]
             /\ iqOutputQueue'[Len(iqOutputQueue')] = block
             /\ UNCHANGED <<cModem, cModemKit, queues, working, demod>>
      BY <1>1, <1>4, EmitAppends
    <2>2. Belongs(block)
      BY <1>1, <2>1 DEF Belongs
    <2>3. \A i \in 1 .. Len(iqOutputQueue') : Belongs(iqOutputQueue'[i])
      BY <1>1, <2>1, <2>2, SizeTypes
    <2>4. QED
      BY <1>1, <2>1, <2>3 DEF queues, working
  <1>5. CASE TakeResult
    <2>1. cModemKit'.modem = cModem'.id
      BY <1>1, <1>5, ResultIsTaken DEF Belongs
    <2>2. \A i \in 1 .. Len(workerResults') : Belongs(workerResults'[i])
      BY <1>1, <1>5, ResultIsTaken
    <2>3. UNCHANGED <<workerQueue, working, output>>
      BY <1>1, <1>5, ResultIsTaken
    <2>4. QED
      BY <1>1, <2>1, <2>2, <2>3 DEF working, output
  <1>6. CASE Build
    <2>1. PICK result \in Results :
            /\ result.modem = worker'.modem /\ result.kit = worker'.kit
            /\ Len(workerResults') = Len(workerResults) + 1
            /\ \A i \in 1 .. Len(workerResults) : workerResults'[i] = workerResults[i]
            /\ workerResults'[Len(workerResults')] = result
      BY <1>6, ResultIsBuilt
    <2>2. worker'.kit.modem = worker'.modem.id /\ UNCHANGED <<pre, output>>
      BY <1>6, BuildMakes DEF IInv, MadeInOrder
    <2>3. Belongs(result) /\ Belongs(worker')
      BY <2>1, <2>2 DEF Belongs
    <2>4. \A i \in 1 .. Len(workerResults') : Belongs(workerResults'[i])
      BY <1>1, <2>1, <2>3, SizeTypes
    <2>5. QED
      BY <1>1, <2>2, <2>3, <2>4 DEF pre, current, output
  <1>7. CASE TakeCommand \/ EndBatch
    <2>1. /\ worker'.modem = worker.modem /\ worker'.kit = worker.kit
          /\ UNCHANGED <<pre, workerResults, output>>
      BY <1>1, <1>7, TakeCommandTakes, EndBatchEnds DEF queues
    <2>2. QED
      BY <1>1, <2>1 DEF Belongs, pre, current, output
  <1>8. CASE Demodulate \/ DropEmpty
    <2>1. \A i \in 1 .. Len(iqOutputQueue') : Belongs(iqOutputQueue'[i])
      BY <1>1, <1>8, BlockIsTaken
    <2>2. Belongs(demod')
      BY <1>1, <1>8, BlockIsTaken DEF Belongs
    <2>3. UNCHANGED <<pre, queues, working>>
      BY <1>1, <1>8, BlockIsTaken
    <2>4. QED
      BY <1>1, <2>1, <2>2, <2>3 DEF pre, current, queues, working
  <1>9. CASE UNCHANGED <<cModem, cModemKit, queues, worker, made, output>>
    BY <1>1, <1>9 DEF queues, output
  <1>10. CASE Others
    BY <1>9, <1>10, OthersChangeRequests DEF pre, current, working
  <1>11. QED
    BY <1>3, <1>4, <1>5, <1>6, <1>7, <1>8, <1>9, <1>10, NextCases, QuietPreSteps DEF Worker
-----------------------------------------------------------------------------
(* The order of what was made.                                             *)

\* The order says the same of Current as of what it was taken from.
LEMMA PushKeepsOrder ==
    ASSUME MadeInOrder, PushCommand
    PROVE  MadeInOrder'
  <1>1. /\ cModem' = NoModem \/ UNCHANGED <<cModem, cModemKit>>
        /\ UNCHANGED <<workerResults, working, output>>
    BY DEF PushCommand
  <1>2. cModem' # NoModem => cModem # NoModem /\ Current' = Current
    BY <1>1 DEF Current
  <1>3. UNCHANGED <<workerResults, worker, made, iqOutputQueue, demod>>
    BY <1>1 DEF working, output
  <1>4. QED
    BY <1>2, <1>3 DEF MadeInOrder

LEMMA EmitKeepsOrder ==
    ASSUME TypeOK, MadeInOrder, Emit
    PROVE  MadeInOrder'
  <1>1. PICK block \in OutBlocks :
             /\ block.modem = cModem /\ block.kit = cModemKit /\ cModem # NoModem
             /\ Len(iqOutputQueue') = Len(iqOutputQueue) + 1
             /\ \A i \in 1 .. Len(iqOutputQueue) : iqOutputQueue'[i] = iqOutputQueue[i]
             /\ iqOutputQueue'[Len(iqOutputQueue')] = block
             /\ UNCHANGED <<cModem, cModemKit, queues, working, demod>>
    BY EmitAppends
  <1>2. UNCHANGED <<cModem, Current, workerResults, worker, made, demod>>
    BY <1>1 DEF Current, queues, working
  <1>3. Current.modem = block.modem /\ Current.kit = block.kit
    BY <1>1 DEF Current
  <1>4. \A e : (Before(e, block) <=> Before(e, Current)) /\ (Before(block, e) <=> Before(Current, e))
    BY <1>3 DEF Before
  <1>5. /\ Before(demod, block) /\ Before(block, worker) /\ Before(block, Current)
        /\ Before(block, block)
        /\ \A j \in 1 .. Len(workerResults) : Before(block, workerResults[j])
        /\ \A i \in 1 .. Len(iqOutputQueue) : Before(iqOutputQueue[i], block)
    BY <1>1, <1>4, BeforeItself DEF MadeInOrder
  <1>6. ASSUME NEW i \in 1 .. Len(iqOutputQueue')
        PROVE  /\ Before(demod, iqOutputQueue'[i]) /\ Before(iqOutputQueue'[i], worker)
               /\ Before(iqOutputQueue'[i], Current)
               /\ \A j \in 1 .. Len(workerResults) : Before(iqOutputQueue'[i], workerResults[j])
               /\ \A j \in i .. Len(iqOutputQueue') : Before(iqOutputQueue'[i], iqOutputQueue'[j])
    <2>1. CASE i = Len(iqOutputQueue')
      <3>1. \A j \in i .. Len(iqOutputQueue') : j = i
        BY <1>1, <2>1, SizeTypes
      <3>2. QED
        BY <1>1, <1>5, <2>1, <3>1
    <2>2. CASE i # Len(iqOutputQueue')
      <3>1. i \in 1 .. Len(iqOutputQueue) /\ iqOutputQueue'[i] = iqOutputQueue[i]
        BY <1>1, <2>2, SizeTypes
      <3>2. ASSUME NEW j \in i .. Len(iqOutputQueue')
            PROVE  Before(iqOutputQueue[i], iqOutputQueue'[j])
        <4>1. CASE j = Len(iqOutputQueue')
          BY <1>1, <1>5, <3>1, <4>1
        <4>2. CASE j # Len(iqOutputQueue')
          <5>1. j \in i .. Len(iqOutputQueue) /\ j \in 1 .. Len(iqOutputQueue)
            BY <1>1, <3>1, <4>2, SizeTypes
          <5>2. QED
            BY <1>1, <3>1, <5>1 DEF MadeInOrder
        <4>3. QED
          BY <4>1, <4>2
      <3>3. /\ Before(demod, iqOutputQueue[i]) /\ Before(iqOutputQueue[i], worker)
            /\ Before(iqOutputQueue[i], Current)
            /\ \A j \in 1 .. Len(workerResults) : Before(iqOutputQueue[i], workerResults[j])
        BY <1>1, <3>1 DEF MadeInOrder
      <3>4. QED
        BY <3>1, <3>2, <3>3
    <2>3. QED
      BY <2>1, <2>2
  <1>7. QED
    BY <1>2, <1>6 DEF MadeInOrder

LEMMA ResultKeepsOrder ==
    ASSUME TypeOK, MadeInOrder, TakeResult
    PROVE  MadeInOrder'
  <1>1. /\ 1 \in 1 .. Len(workerResults) /\ Len(workerResults') = Len(workerResults) - 1
        /\ cModem' = workerResults[1].modem /\ cModemKit' = workerResults[1].kit
        /\ \A i \in 1 .. Len(workerResults') :
             workerResults'[i] = workerResults[i + 1] /\ i + 1 \in 1 .. Len(workerResults)
        /\ UNCHANGED <<workerQueue, working, output>>
    BY ResultIsTaken
  <1>2. UNCHANGED <<worker, made, iqOutputQueue, demod>>
    BY <1>1 DEF working, output
  <1>3. Current'.modem = workerResults[1].modem /\ Current'.kit = workerResults[1].kit
    BY <1>1 DEF Current
  <1>4. \A e : /\ Before(e, Current') <=> Before(e, workerResults[1])
               /\ Before(Current', e) <=> Before(workerResults[1], e)
    BY <1>3 DEF Before
  <1>5. Before(demod, Current') /\ Before(Current', worker)
    BY <1>1, <1>4 DEF MadeInOrder
  <1>6. ASSUME NEW i \in 1 .. Len(workerResults')
        PROVE  /\ Before(workerResults'[i], worker) /\ Before(demod, workerResults'[i])
               /\ Before(Current', workerResults'[i])
               /\ \A j \in i .. Len(workerResults') : Before(workerResults'[i], workerResults'[j])
    <2>1. i + 1 \in 1 .. Len(workerResults) /\ workerResults'[i] = workerResults[i + 1]
          /\ i + 1 \in 1 .. Len(workerResults)
      BY <1>1
    <2>2. ASSUME NEW j \in i .. Len(workerResults')
          PROVE  Before(workerResults[i + 1], workerResults'[j])
      <3>1. j \in 1 .. Len(workerResults') /\ j + 1 \in i + 1 .. Len(workerResults)
        BY <1>1, SizeTypes
      <3>2. workerResults'[j] = workerResults[j + 1]
        BY <1>1, <3>1
      <3>3. QED
        BY <2>1, <3>1, <3>2 DEF MadeInOrder
    <2>3. Before(workerResults[1], workerResults[i + 1])
      BY <1>1, <2>1 DEF MadeInOrder
    <2>4. Before(workerResults[i + 1], worker) /\ Before(demod, workerResults[i + 1])
      BY <2>1 DEF MadeInOrder
    <2>5. QED
      BY <1>4, <2>1, <2>2, <2>3, <2>4
  <1>7. ASSUME NEW i \in 1 .. Len(iqOutputQueue)
        PROVE  /\ Before(iqOutputQueue[i], Current')
               /\ \A j \in 1 .. Len(workerResults') : Before(iqOutputQueue[i], workerResults'[j])
    BY <1>1, <1>4 DEF MadeInOrder
  <1>8. QED
    BY <1>2, <1>5, <1>6, <1>7 DEF MadeInOrder

LEMMA BuildKeepsOrder ==
    ASSUME IInv, Build
    PROVE  MadeInOrder'
  <1>1. PICK result \in Results :
            /\ result.modem = worker'.modem /\ result.kit = worker'.kit
            /\ Len(workerResults') = Len(workerResults) + 1
            /\ \A i \in 1 .. Len(workerResults) : workerResults'[i] = workerResults[i]
            /\ workerResults'[Len(workerResults')] = result
    BY ResultIsBuilt
  <1>2. /\ worker'.kit.id > worker.kit.id
        /\ worker'.modem = worker.modem \/ worker'.modem.id > worker.modem.id
        /\ made' = [modems |-> worker'.modem.id, kits |-> worker'.kit.id]
        /\ UNCHANGED <<pre, output>>
    BY BuildMakes DEF IInv, MadeInOrder
  <1>3. TypeOK /\ MadeInOrder
    BY DEF IInv
  <1>4. UNCHANGED <<cModem, Current, iqOutputQueue, demod>>
    BY <1>2 DEF pre, current, output, Current
  <1>5. \A e : Before(e, result) <=> Before(e, worker')
    BY <1>1 DEF Before
  <1>6. ASSUME NEW e, e.modem \in Modems, e.kit \in Kits, Before(e, worker)
        PROVE  Before(e, worker') /\ Before(e, result)
    <2>1. Before(worker, worker') /\ worker'.modem \in Modems /\ worker'.kit \in Kits
      <3>1. result.modem \in Modems /\ result.kit \in Kits
        BY ResultTypes
      <3>2. worker.modem.id \in Nat /\ worker'.modem.id \in Nat /\ worker.kit.id \in Nat
            /\ worker'.kit.id \in Nat
        BY <1>1, <1>3, <3>1, HeldTypes, ModemIds, KitIds
      <3>3. QED
        BY <1>1, <1>2, <3>1, <3>2 DEF Before
    <2>2. QED
      BY <1>3, <1>5, <1>6, <2>1, HeldTypes, BeforeTransitive
  <1>7. /\ Before(demod, worker') /\ Before(demod, result)
        /\ cModem # NoModem => Before(Current, worker') /\ Before(Current, result)
    BY <1>3, <1>6, HeldTypes DEF MadeInOrder
  <1>8. ASSUME NEW i \in 1 .. Len(workerResults)
        PROVE  Before(workerResults[i], worker') /\ Before(workerResults[i], result)
    <2>1. workerResults[i].modem \in Modems /\ workerResults[i].kit \in Kits
      BY <1>3, SizeTypes, Elements, ResultTypes
    <2>2. Before(workerResults[i], worker)
      BY <1>3 DEF MadeInOrder
    <2>3. QED
      BY <1>6, <2>1, <2>2
  <1>9. ASSUME NEW i \in 1 .. Len(iqOutputQueue)
        PROVE  Before(iqOutputQueue[i], worker') /\ Before(iqOutputQueue[i], result)
    <2>1. iqOutputQueue[i].modem \in Modems /\ iqOutputQueue[i].kit \in Kits
      BY <1>3, SizeTypes, Elements, OutBlockTypes
    <2>2. Before(iqOutputQueue[i], worker)
      BY <1>3 DEF MadeInOrder
    <2>3. QED
      BY <1>6, <2>1, <2>2
  <1>10. Before(result, worker') /\ Before(result, result)
    BY <1>5, BeforeItself
  <1>11. ASSUME NEW i \in 1 .. Len(workerResults')
         PROVE  /\ Before(workerResults'[i], worker') /\ Before(demod, workerResults'[i])
                /\ cModem # NoModem => Before(Current, workerResults'[i])
                /\ \A j \in i .. Len(workerResults') : Before(workerResults'[i], workerResults'[j])
    <2>1. CASE i = Len(workerResults')
      <3>1. \A j \in i .. Len(workerResults') : j = i
        BY <1>1, <1>3, <2>1, SizeTypes
      <3>2. QED
        BY <1>1, <1>7, <1>10, <2>1, <3>1
    <2>2. CASE i # Len(workerResults')
      <3>1. i \in 1 .. Len(workerResults) /\ workerResults'[i] = workerResults[i]
        BY <1>1, <1>3, <2>2, SizeTypes
      <3>2. ASSUME NEW j \in i .. Len(workerResults')
            PROVE  Before(workerResults[i], workerResults'[j])
        <4>1. CASE j = Len(workerResults')
          BY <1>1, <1>8, <3>1, <4>1
        <4>2. CASE j # Len(workerResults')
          <5>1. j \in i .. Len(workerResults) /\ j \in 1 .. Len(workerResults)
            BY <1>1, <1>3, <3>1, <4>2, SizeTypes
          <5>2. QED
            BY <1>1, <1>3, <3>1, <5>1 DEF MadeInOrder
        <4>3. QED
          BY <4>1, <4>2
      <3>3. /\ Before(demod, workerResults[i])
            /\ cModem # NoModem => Before(Current, workerResults[i])
        BY <1>3, <3>1 DEF MadeInOrder
      <3>4. QED
        BY <1>8, <3>1, <3>2, <3>3
    <2>3. QED
      BY <2>1, <2>2
  <1>12. ASSUME NEW i \in 1 .. Len(iqOutputQueue), NEW j \in 1 .. Len(workerResults')
         PROVE  Before(iqOutputQueue[i], workerResults'[j])
    <2>1. CASE j = Len(workerResults')
      BY <1>1, <1>9, <2>1
    <2>2. CASE j # Len(workerResults')
      <3>1. j \in 1 .. Len(workerResults)
        BY <1>1, <1>3, <2>2, SizeTypes
      <3>2. QED
        BY <1>1, <1>3, <3>1 DEF MadeInOrder
    <2>3. QED
      BY <2>1, <2>2
  <1>13. QED
    BY <1>2, <1>3, <1>4, <1>7, <1>9, <1>11, <1>12 DEF MadeInOrder

LEMMA DemodKeepsOrder ==
    ASSUME TypeOK, MadeInOrder, Demodulate \/ DropEmpty
    PROVE  MadeInOrder'
  <1>1. /\ 1 \in 1 .. Len(iqOutputQueue) /\ Len(iqOutputQueue') = Len(iqOutputQueue) - 1
        /\ \A i \in 1 .. Len(iqOutputQueue') :
             iqOutputQueue'[i] = iqOutputQueue[i + 1] /\ i + 1 \in 1 .. Len(iqOutputQueue)
        /\ \/ /\ demod'.modem = iqOutputQueue[1].modem
              /\ demod'.kit = iqOutputQueue[1].kit
           \/ demod' = demod
        /\ UNCHANGED <<pre, queues, working>>
    BY BlockIsTaken
  <1>2. UNCHANGED <<cModem, Current, workerResults, worker, made>>
    BY <1>1 DEF pre, current, queues, working, Current
  <1>3. (\A e : Before(demod', e) <=> Before(iqOutputQueue[1], e)) \/ demod' = demod
    BY <1>1 DEF Before
  <1>4. /\ Before(demod', worker)
        /\ cModem # NoModem => Before(demod', Current)
        /\ \A i \in 1 .. Len(workerResults) : Before(demod', workerResults[i])
        /\ \A i \in 1 .. Len(iqOutputQueue) : Before(demod', iqOutputQueue[i])
    BY <1>1, <1>3 DEF MadeInOrder
  <1>5. ASSUME NEW i \in 1 .. Len(iqOutputQueue')
        PROVE  /\ Before(demod', iqOutputQueue'[i]) /\ Before(iqOutputQueue'[i], worker)
               /\ cModem # NoModem => Before(iqOutputQueue'[i], Current)
               /\ \A j \in 1 .. Len(workerResults) : Before(iqOutputQueue'[i], workerResults[j])
               /\ \A j \in i .. Len(iqOutputQueue') : Before(iqOutputQueue'[i], iqOutputQueue'[j])
    <2>1. i + 1 \in 1 .. Len(iqOutputQueue) /\ iqOutputQueue'[i] = iqOutputQueue[i + 1]
      BY <1>1
    <2>2. ASSUME NEW j \in i .. Len(iqOutputQueue')
          PROVE  Before(iqOutputQueue[i + 1], iqOutputQueue'[j])
      <3>1. j \in 1 .. Len(iqOutputQueue') /\ j + 1 \in i + 1 .. Len(iqOutputQueue)
        BY <1>1, SizeTypes
      <3>2. iqOutputQueue'[j] = iqOutputQueue[j + 1]
        BY <1>1, <3>1
      <3>3. QED
        BY <2>1, <3>1, <3>2 DEF MadeInOrder
    <2>3. /\ Before(iqOutputQueue[i + 1], worker)
          /\ cModem # NoModem => Before(iqOutputQueue[i + 1], Current)
          /\ \A j \in 1 .. Len(workerResults) : Before(iqOutputQueue[i + 1], workerResults[j])
      BY <2>1 DEF MadeInOrder
    <2>4. QED
      BY <1>4, <2>1, <2>2, <2>3
  <1>6. QED
    BY <1>2, <1>4, <1>5 DEF MadeInOrder

LEMMA OrderKeeps ==
    ASSUME IInv, Next
    PROVE  MadeInOrder'
  <1>1. TypeOK /\ MadeInOrder
    BY DEF IInv
  <1>2. CASE TakeCommand \/ EndBatch
    <2>1. /\ worker'.modem = worker.modem /\ worker'.kit = worker.kit
          /\ UNCHANGED <<pre, workerResults, made, output>>
      BY <1>1, <1>2, TakeCommandTakes, EndBatchEnds DEF queues
    <2>2. \A e : Before(e, worker') <=> Before(e, worker)
      BY <2>1 DEF Before
    <2>3. UNCHANGED <<cModem, Current, workerResults, made, iqOutputQueue, demod>>
      BY <2>1 DEF pre, current, Current, output
    <2>4. QED
      BY <1>1, <2>1, <2>2, <2>3 DEF MadeInOrder
  <1>3. CASE UNCHANGED <<cModem, cModemKit, queues, worker, made, output>>
    <2>1. UNCHANGED <<cModem, Current, workerResults, worker, made, iqOutputQueue, demod>>
      BY <1>3 DEF queues, output, Current
    <2>2. QED
      BY <1>1, <2>1 DEF MadeInOrder
  <1>4. CASE Others
    BY <1>3, <1>4, OthersChangeRequests DEF pre, current, working
  <1>5. QED
    BY <1>1, <1>2, <1>3, <1>4, NextCases, QuietPreSteps, PushKeepsOrder, EmitKeepsOrder,
       ResultKeepsOrder, BuildKeepsOrder, DemodKeepsOrder DEF Worker
-----------------------------------------------------------------------------
(* Room.                                                                   *)

LEMMA Terms ==
    ASSUME TypeOK
    PROVE  /\ Built \in 0 .. 1 /\ Waiting \in 0 .. 1 /\ Pushing \in 0 .. 1
           /\ Len(workerResults) \in Nat
           /\ Budget \in Nat /\ Budget <= MaxSkips + 3
           /\ skipped \in Nat /\ skipped <= MaxSkips /\ MaxSkips \in Nat
  <1>1. skipped \in 0 .. MaxSkips /\ MaxSkips \in Nat /\ Len(workerResults) \in Nat
    BY SizeTypes, Bounds
  <1>2. Built \in 0 .. 1 /\ Waiting \in 0 .. 1 /\ Pushing \in 0 .. 1
    BY DEF Built, Waiting, Pushing
  <1>3. preStep \in {"pop", "retune", "command", "push", "use", "results"}
    BY DEF TypeOK
  <1>4. Budget \in {skipped + 2, skipped + 3, MaxSkips + 3}
    BY <1>3 DEF Budget
  <1>5. QED
    BY <1>1, <1>2, <1>4

LEMMA NextTerms ==
    ASSUME TypeOK'
    PROVE  /\ Built' \in 0 .. 1 /\ Waiting' \in 0 .. 1 /\ Pushing' \in 0 .. 1
           /\ Len(workerResults') \in Nat /\ Budget' \in Nat
  <1>1. /\ skipped' \in 0 .. MaxSkips /\ workerResults' \in Seq(Results)
        /\ preStep' \in {"pop", "retune", "command", "push", "use", "results"}
    BY DEF TypeOK
  <1>2. Built' \in 0 .. 1 /\ Waiting' \in 0 .. 1 /\ Pushing' \in 0 .. 1
    BY DEF Built, Waiting, Pushing
  <1>3. Budget' \in {skipped' + 2, skipped' + 3, MaxSkips + 3}
    BY <1>1 DEF Budget
  <1>4. Len(workerResults') \in Nat
    BY <1>1, LenProperties
  <1>5. skipped' + 2 \in Nat /\ skipped' + 3 \in Nat /\ MaxSkips + 3 \in Nat
    <2>1. skipped' \in 0 .. MaxSkips /\ MaxSkips \in Nat
      BY <1>1, Bounds
    <2>2. PICK n \in 0 .. MaxSkips : n = skipped'
      BY <2>1
    <2>3. n + 2 \in Nat /\ n + 3 \in Nat /\ MaxSkips + 3 \in Nat
      BY <2>1
    <2>4. QED
      BY <2>2, <2>3
  <1>6. QED
    BY <1>2, <1>3, <1>4, <1>5

LEMMA PreKeepsRoom ==
    ASSUME IInv, TypeOK', Pre
    PROVE  RoomIsLeft'
  <1>1. TypeOK /\ TypeOK' /\ RoomIsLeft
    BY DEF IInv
  <1>2. /\ Built' \in 0 .. 1 /\ Waiting' \in 0 .. 1 /\ Pushing' \in 0 .. 1
        /\ Len(workerResults') \in Nat /\ Budget' \in Nat
    BY <1>1, NextTerms
  <1>3. CASE TakeBlock \/ Retune \/ NothingChanged \/ Pass \/ Emit \/ Skip
    <2>1. UNCHANGED <<workerQueue, workerResults, worker>>
      BY <1>3 DEF TakeBlock, Retune, NothingChanged, Pass, Emit, Skip, queues, working
    <2>2. \/ /\ preStep \in {"pop", "retune"} /\ preStep' \in {"retune", "command"}
             /\ skipped' = skipped
          \/ preStep = "command" /\ preStep' = "use" /\ skipped' = skipped
          \/ preStep = "use" /\ preStep' = "results"
          \/ preStep = "use" /\ preStep' = "pop" /\ skipped' = skipped + 1
      BY <1>3 DEF TakeBlock, Retune, NothingChanged, Pass, Emit, Skip
    <2>3. Pushing = 0 /\ Pushing' = 0
      BY <2>2 DEF Pushing
    <2>4. Budget <= Budget'
      BY <1>1, <2>2, Terms DEF Budget
    <2>5. Built' = Built /\ Waiting' = Waiting
      BY <2>1 DEF Built, Waiting
    <2>6. QED
      BY <1>1, <1>2, <2>1, <2>3, <2>4, <2>5, Terms DEF RoomIsLeft, Outstanding
  <1>4. CASE PrepareMake \/ PrepareBuild
    <2>1. /\ UNCHANGED <<workerQueue, workerResults, worker, skipped>>
          /\ preStep = "command" /\ preStep' = "push"
      BY <1>4 DEF PrepareMake, PrepareBuild, queues, working
    <2>2. Pushing = 0 /\ Pushing' = 1 /\ Built' = Built /\ Waiting' = Waiting
      BY <2>1 DEF Pushing, Built, Waiting
    <2>3. Budget' = Budget + 1
      BY <1>1, <2>1, Terms DEF Budget
    <2>4. QED
      BY <1>1, <1>2, <2>1, <2>2, <2>3, Terms DEF RoomIsLeft, Outstanding
  <1>5. CASE PushCommand
    <2>1. /\ UNCHANGED <<workerResults, worker, skipped>>
          /\ preStep = "push" /\ preStep' = "use"
      BY <1>5 DEF PushCommand, working
    <2>2. Pushing = 1 /\ Pushing' = 0 /\ Built' = Built
      BY <2>1 DEF Pushing, Built
    <2>3. Budget' = Budget
      BY <2>1 DEF Budget
    <2>4. QED
      BY <1>1, <1>2, <2>1, <2>2, <2>3, Terms DEF RoomIsLeft, Outstanding
  <1>6. CASE TakeResult
    <2>1. /\ UNCHANGED <<workerQueue, worker, skipped, preStep>>
          /\ Len(workerResults') = Len(workerResults) - 1
      BY <1>1, <1>6, ResultIsTaken DEF TakeResult, working
    <2>2. Pushing' = Pushing /\ Built' = Built /\ Waiting' = Waiting /\ Budget' = Budget
      BY <2>1 DEF Pushing, Built, Waiting, Budget
    <2>3. QED
      BY <1>1, <1>2, <2>1, <2>2, Terms DEF RoomIsLeft, Outstanding
  <1>7. CASE EndBlock
    <2>1. preStep' = "pop" /\ workerResults' = << >> /\ skipped' = skipped
      BY <1>7 DEF EndBlock, queues
    <2>2. Pushing' = 0 /\ Len(workerResults') = 0 /\ Budget' = skipped + 2
      BY <2>1, EmptySeq DEF Pushing, Budget
    <2>3. QED
      BY <1>1, <1>2, <2>2, Terms DEF RoomIsLeft, Outstanding
  <1>8. QED
    BY <1>3, <1>4, <1>5, <1>6, <1>7 DEF Pre

\* Whatever the worker takes, it answers with one result.
LEMMA WorkerKeepsRoom ==
    ASSUME IInv, TypeOK', Worker
    PROVE  RoomIsLeft'
  <1>1. TypeOK /\ TypeOK' /\ RoomIsLeft
    BY DEF IInv
  <1>2. Budget' = Budget /\ Pushing' = Pushing
    BY WorkerLeavesPre DEF pre, Budget, Pushing
  <1>3. /\ Built' \in 0 .. 1 /\ Waiting' \in 0 .. 1 /\ Len(workerResults') \in Nat
    BY <1>1, NextTerms
  <1>4. Len(workerResults') + Built' + Waiting' <= Len(workerResults) + Built + Waiting
    <2>1. CASE TakeCommand
      <3>1. /\ workerQueue # << >> /\ worker.step = "take" /\ worker'.step = "more"
            /\ UNCHANGED workerResults
        BY <1>1, <2>1, TakeCommandTakes
      <3>2. Built = 0 /\ Built' = 0 /\ Waiting = 1
        BY <3>1 DEF Built, Waiting
      <3>3. QED
        BY <1>1, <1>3, <3>1, <3>2, Terms
    <2>2. CASE EndBatch
      <3>1. /\ worker.step = "more" /\ worker.batch # NoBatch /\ worker'.batch = worker.batch
            /\ worker'.step = IF workerQueue = << >> THEN "build" ELSE "take"
            /\ UNCHANGED <<workerQueue, workerResults>>
        BY <1>1, <2>2, EndBatchEnds DEF IInv, BatchIsSorted, queues
      <3>2. Built = 0 /\ Waiting = 1
        BY <3>1 DEF Built, Waiting
      <3>3. Built' = 0 \/ Waiting' = 0
        BY <3>1 DEF Built, Waiting
      <3>4. QED
        BY <1>1, <1>3, <3>1, <3>2, <3>3, Terms
    <2>3. CASE Build
      <3>1. /\ worker.step = "build" /\ worker'.step = "take" /\ worker'.batch = NoBatch
            /\ UNCHANGED workerQueue
        BY <2>3 DEF Build
      <3>2. Len(workerResults') = Len(workerResults) + 1
        BY <2>3, ResultIsBuilt
      <3>3. Built = 1 /\ Built' = 0 /\ Waiting' = Waiting
        BY <3>1 DEF Built, Waiting
      <3>4. QED
        BY <1>1, <3>2, <3>3, Terms
    <2>4. QED
      BY <2>1, <2>2, <2>3 DEF Worker
  <1>5. QED
    BY <1>1, <1>2, <1>3, <1>4, Terms DEF RoomIsLeft, Outstanding

LEMMA RoomKeeps ==
    ASSUME IInv, TypeOK', Next
    PROVE  RoomIsLeft'
  <1>1. CASE Others \/ Demodulate \/ DropEmpty
    <2>1. UNCHANGED <<pre, queues, working>>
      BY <1>1, OthersChangeRequests DEF Demodulate, DropEmpty
    <2>2. QED
      BY <2>1 DEF IInv, RoomIsLeft, Outstanding, Built, Waiting, Pushing, Budget, pre, queues, working
  <1>2. QED
    BY <1>1, NextCases, PreKeepsRoom, WorkerKeepsRoom

-----------------------------------------------------------------------------
(* The theorems.                                                           *)

LEMMA InitInvariant == Init => IInv
  <1> SUFFICES ASSUME Init PROVE IInv
    OBVIOUS
  <1>1. /\ workerQueue = << >> /\ workerResults = << >> /\ iqOutputQueue = << >>
        /\ Len(workerQueue) = 0 /\ Len(workerResults) = 0 /\ Len(iqOutputQueue) = 0
        /\ workerQueue \in Seq(Commands \ {NoCommand}) /\ workerResults \in Seq(Results)
        /\ iqOutputQueue \in Seq(OutBlocks)
        /\ workerResults \in Seq(Results) /\ iqOutputQueue \in Seq(OutBlocks)
    BY EmptySeq DEF Init
  <1>2. NoBatch \in [make : Commands, filter : Commands]
    BY NothingIsMade DEF NoBatch
  <1>3. worker \in Workers /\ demod \in [modem : Modems, kit : Kits]
        /\ heard \in [freq : Frequencies \cup {0}, missed : BOOLEAN]
        /\ made \in [modems : Nat, kits : Nat]
    BY <1>2, NothingIsMade DEF Init, Workers
  <1>4. TypeOK
    <2>1. 0 \in 0 .. MaxChanges /\ 0 \in 0 .. MaxSkips
          /\ 0 <= WorkerMax /\ 0 <= ResultsMax /\ 0 <= OutMax
      BY Bounds
    <2>2. /\ newDemodType \in Types /\ newFrequency \in Frequencies /\ streamRate \in SampleRates
          /\ {demodTypeChanged, bandwidthChanged, modemSettingsChanged, frequencyChanged,
              sampleRateChanged, pendingRetune} \subseteq BOOLEAN
          /\ cModem \in Modems /\ cModemKit \in Kits /\ command \in Commands
      BY NothingIsMade DEF Init
    <2>3. /\ gui = "idle" /\ changes = 0 /\ preStep = "pop"
          /\ inputRate = 0 /\ newSampleRate = 0 /\ currentSampleRate = 0
          /\ currentFrequency = 0 /\ demodType = "" /\ skipped = 0
          /\ rebuild = {}
      BY DEF Init
    <2>4. QED
      BY <1>1, <1>3, <2>1, <2>2, <2>3 DEF TypeOK
  <1>5. CommandIsPending /\ RateIsKnown /\ RetuneIsPending /\ ShownTypeRuns
    <2>1. CommandIsPending /\ RateIsKnown /\ ShownTypeRuns
      BY DEF Init, CommandIsPending, RateIsKnown, ShownTypeRuns, NoCommand
    <2>2. currentFrequency = 0 /\ heard.freq = 0
      BY DEF Init
    <2>3. QED
      BY <1>1, <2>1, <2>2 DEF RetuneIsPending, FrequencyBefore
  <1>6. BatchIsSorted /\ BuildsHaveAModem
    <2>1. worker.step = "take" /\ worker.batch.make = NoCommand /\ worker.batch.filter = NoCommand
      BY DEF Init, NoBatch
    <2>2. cModem = NoModem /\ command.cmd = "none" /\ Len(workerQueue) = 0
      BY <1>1 DEF Init, NoCommand
    <2>3. QED
      BY <2>1, <2>2 DEF BatchIsSorted, BuildsHaveAModem
  <1>7. DOMAIN workerResults = 1 .. 0 /\ DOMAIN iqOutputQueue = 1 .. 0
    BY <1>1, Domains
  <1>8. KitBelongsToModem
    <2>1. /\ worker.modem = NoModem /\ worker.kit = NoKit /\ cModem = NoModem /\ cModemKit = NoKit
          /\ demod.modem = NoModem /\ demod.kit = NoKit /\ NoKit.modem = 0 /\ NoModem.id = 0
      BY DEF Init, NoModem, NoKit
    <2>2. QED
      BY <1>7, <2>1 DEF KitBelongsToModem, Belongs
  <1>9. MadeInOrder
    <2>1. /\ worker.modem = NoModem /\ worker.kit = NoKit /\ cModem = NoModem
          /\ demod.modem = NoModem /\ demod.kit = NoKit /\ NoModem.id = 0 /\ NoKit.id = 0
          /\ made = [modems |-> 0, kits |-> 0]
      BY DEF Init, NoModem, NoKit
    <2>2. Before(demod, worker)
      BY <2>1 DEF Before
    <2>3. made = [modems |-> worker.modem.id, kits |-> worker.kit.id]
      BY <2>1
    <2>4. 1 .. Len(workerResults) = {} /\ 1 .. Len(iqOutputQueue) = {}
      BY <1>1
    <2>5. QED
      BY <2>1, <2>2, <2>3, <2>4 DEF MadeInOrder
  <1>10. RoomIsLeft
    <2>1. preStep = "pop" /\ skipped = 0
      BY DEF Init
    <2>2. Budget = 2 /\ Pushing = 0
      BY <2>1 DEF Budget, Pushing
    <2>3. QED
      BY <1>1, <1>4, <2>2, Terms DEF RoomIsLeft, Outstanding
  <1>11. QED
    BY <1>4, <1>5, <1>6, <1>8, <1>9, <1>10 DEF IInv

LEMMA StepKeepsInvariant == IInv /\ [Next]_vars => IInv'
  <1> SUFFICES ASSUME IInv, [Next]_vars PROVE IInv'
    OBVIOUS
  <1>1. CASE Next
    <2>1. TypeOK'
      BY <1>1, NextCases, GuiKeepsTypes, PreKeepsTypes, WorkerKeepsTypes, DemodKeepsTypes
         DEF IInv, MadeInOrder, Others
    <2>2. QED
      BY <1>1, <2>1, PendingKeeps, RetuneKeeps, TypeKeeps, BatchKeeps, BuildsKeep, KitBelongs, OrderKeeps,
         RoomKeeps
         DEF IInv
  <1>2. CASE UNCHANGED vars
    <2>1. UNCHANGED <<requests, outside, pre, queues, working, output>>
      BY <1>2 DEF vars
    <2>2. UNCHANGED <<newDemodType, demodTypeChanged, bandwidthChanged, modemSettingsChanged,
                      newFrequency, frequencyChanged, streamRate, gui, changes, preStep, inputRate,
                      newSampleRate, currentSampleRate, sampleRateChanged, currentFrequency,
                      pendingRetune, demodType, cModem, cModemKit, command, skipped>>
      BY <2>1 DEF requests, outside, pre, rates, tuning, current
    <2>3. UNCHANGED <<workerQueue, workerResults, worker, rebuild, made, iqOutputQueue, demod,
                      heard>>
      BY <2>1 DEF queues, working, output
    <2>4. TypeOK'
      BY <2>2, <2>3 DEF IInv, TypeOK
    <2>5. /\ CommandIsPending' /\ RateIsKnown' /\ RetuneIsPending' /\ ShownTypeRuns'
          /\ BatchIsSorted' /\ BuildsHaveAModem'
      BY <2>2, <2>3 DEF IInv, CommandIsPending, RateIsKnown, RetuneIsPending, FrequencyBefore,
                        ShownTypeRuns, getDemodType, IsOrdered, BatchIsSorted, BuildsHaveAModem
    <2>6. KitBelongsToModem'
      BY <2>2, <2>3 DEF IInv, KitBelongsToModem
    <2>7. MadeInOrder' /\ RoomIsLeft'
      BY <2>2, <2>3 DEF IInv, MadeInOrder, Current, RoomIsLeft, Outstanding, Built, Waiting,
                        Pushing, Budget
    <2>8. QED
      BY <2>4, <2>5, <2>6, <2>7 DEF IInv
  <1>3. QED
    BY <1>1, <1>2

\* The three threads and the queues between them keep to the inductive invariant.
THEOREM Invariant == Spec => []IInv
  BY InitInvariant, StepKeepsInvariant, PTL DEF Spec

\* Types are kept, and no queue grows over its maximum, for any sizes of the queues.
THEOREM TypeCorrect == Spec => []TypeOK
  <1>1. IInv => TypeOK
    BY DEF IInv
  <1>2. QED
    BY <1>1, Invariant, PTL

\* The modem that runs is the one the GUI is told, with the kit made for it.
THEOREM RightModem == Spec => []RightModemRuns
  <1>1. IInv => RightModemRuns
    BY DEF IInv, RightModemRuns
  <1>2. QED
    BY <1>1, Invariant, PTL

\* However many blocks are out of range, and whatever the sizes of the queues:
\* DemodulatorPreThread and the worker wait for each other only once as many blocks in a row
\* were skipped as there is room for results.
THEOREM BothWaitOnlySkipping == Spec => []OnlySkippingBlocks
  <1>1. IInv => OnlySkippingBlocks
    <2> SUFFICES ASSUME IInv, EachWaitsForTheOther PROVE skipped >= ResultsMax
      BY DEF OnlySkippingBlocks
    <2>1. TypeOK /\ Outstanding <= Budget
      BY DEF IInv, RoomIsLeft
    <2>2. workerQueue # << >>
      BY <2>1, EmptySeq, Bounds DEF EachWaitsForTheOther
    <2>3. Built = 1 /\ Waiting = 1 /\ Pushing = 1 /\ Budget = skipped + 3
      BY <2>2 DEF EachWaitsForTheOther, Built, Waiting, Pushing, Budget
    <2>4. QED
      BY <2>1, <2>3, SizeTypes, Bounds DEF Outstanding, EachWaitsForTheOther
  <1>2. QED
    BY <1>1, Invariant, PTL

\* A modem or kit that DemodulatorThread deletes is not pointed to by anyone any more, and
\* never comes again: those behind it on the way hold the ones that replaced it, or later.
THEOREM DeletedAreForgotten == Spec => DeletedIsForgotten
  <1> DEFINE Forgotten ==
        /\ demod'.modem # demod.modem /\ demod.modem # NoModem => demod.modem \notin HeldModems'
        /\ demod'.kit # demod.kit /\ demod.kit # NoKit => demod.kit \notin HeldKits'
  <1>1. ASSUME IInv, IInv', [Next]_vars PROVE [Forgotten]_vars
    <2> SUFFICES ASSUME Next PROVE Forgotten
      BY <1>1 DEF vars
    <2>1. CASE ~Demodulate
      <3>1. demod' = demod
        <4>1. CASE Others \/ Worker \/ DropEmpty
          BY <4>1, OthersChangeRequests
             DEF Worker, TakeCommand, EndBatch, Build, DropEmpty, output
        <4>2. CASE Pre
          BY <4>2 DEF Pre, TakeBlock, Retune, PrepareMake, PrepareBuild, NothingChanged,
                      PushCommand, Skip, Emit, Pass, TakeResult, EndBlock, output
        <4>3. QED
          BY <2>1, <4>1, <4>2, NextCases
      <3>2. QED
        BY <3>1
    <2>2. CASE Demodulate
      <3>1. TypeOK /\ TypeOK' /\ MadeInOrder /\ MadeInOrder'
        BY <1>1 DEF IInv
      <3>2. /\ 1 \in 1 .. Len(iqOutputQueue)
            /\ demod'.modem = iqOutputQueue[1].modem /\ demod'.kit = iqOutputQueue[1].kit
        BY <2>2, <3>1, BlockIsTaken
      <3>3. Before(demod, demod')
        <4>1. Before(demod, iqOutputQueue[1])
          BY <3>1, <3>2 DEF MadeInOrder
        <4>2. QED
          BY <3>2, <4>1 DEF Before
      <3>4. /\ demod.modem \in Modems /\ demod.kit \in Kits
            /\ demod'.modem \in Modems /\ demod'.kit \in Kits
        <4>1. /\ demod \in [modem : Modems, kit : Kits]
              /\ demod' \in [modem : Modems, kit : Kits]
          BY <3>1 DEF TypeOK
        <4>2. QED
          BY <4>1
      <3>5. ASSUME NEW e, e.modem \in Modems, e.kit \in Kits, Before(demod', e)
            PROVE  /\ demod.modem # demod'.modem => demod.modem # e.modem
                   /\ demod.kit # demod'.kit => demod.kit # e.kit
        BY <3>3, <3>4, <3>5, BeforeForgets
      <3>6. /\ demod.modem # demod'.modem => demod.modem # worker'.modem
            /\ demod.kit # demod'.kit => demod.kit # worker'.kit
        <4>1. worker'.modem \in Modems /\ worker'.kit \in Kits
          <5>1. worker' \in Workers
            BY <3>1 DEF TypeOK
          <5>2. QED
            BY <5>1 DEF Workers
        <4>2. QED
          BY <3>1, <3>5, <4>1 DEF MadeInOrder
      <3>7. /\ demod.modem # demod'.modem /\ demod.modem # NoModem => demod.modem # cModem'
            /\ demod.kit # demod'.kit /\ demod.kit # NoKit => demod.kit # cModemKit'
        <4>1. CASE cModem' = NoModem
          BY <1>1, <4>1 DEF IInv, CommandIsPending
        <4>2. CASE cModem' # NoModem
          <5>1. Current'.modem = cModem' /\ Current'.kit = cModemKit'
            BY DEF Current
          <5>2. Before(demod', Current') /\ cModem' \in Modems /\ cModemKit' \in Kits
            BY <3>1, <4>2 DEF MadeInOrder, TypeOK
          <5>3. QED
            BY <3>5, <5>1, <5>2
        <4>3. QED
          BY <4>1, <4>2
      <3>8. ASSUME NEW i \in DOMAIN workerResults'
            PROVE  /\ demod.modem # demod'.modem => demod.modem # workerResults'[i].modem
                   /\ demod.kit # demod'.kit => demod.kit # workerResults'[i].kit
        <4>1. workerResults' \in Seq(Results)
          BY <3>1 DEF TypeOK
        <4>2. i \in 1 .. Len(workerResults') /\ workerResults'[i] \in Results
          BY <4>1, Domains, Elements
        <4>3. Before(demod', workerResults'[i])
          BY <3>1, <4>2 DEF MadeInOrder
        <4>4. QED
          BY <3>5, <4>2, <4>3, ResultTypes
      <3>9. ASSUME NEW i \in DOMAIN iqOutputQueue'
            PROVE  /\ demod.modem # demod'.modem => demod.modem # iqOutputQueue'[i].modem
                   /\ demod.kit # demod'.kit => demod.kit # iqOutputQueue'[i].kit
        <4>1. iqOutputQueue' \in Seq(OutBlocks)
          BY <3>1 DEF TypeOK
        <4>2. i \in 1 .. Len(iqOutputQueue') /\ iqOutputQueue'[i] \in OutBlocks
          BY <4>1, Domains, Elements
        <4>3. Before(demod', iqOutputQueue'[i])
          BY <3>1, <4>2 DEF MadeInOrder
        <4>4. QED
          BY <3>5, <4>2, <4>3, OutBlockTypes
      <3>10. QED
        BY <3>6, <3>7, <3>8, <3>9 DEF HeldModems, HeldKits
    <2>3. QED
      BY <2>1, <2>2
  <1>2. QED
    BY <1>1, Invariant, PTL DEF Spec, DeletedIsForgotten

\* A block on another frequency than the one demodulated before is marked as retuned, or one
\* that was so marked was dropped since.
THEOREM RetunesAreAnnounced == Spec => RetuneAnnounced
  <1> DEFINE Announced == heard'.freq # heard.freq
                            => Head(iqOutputQueue).retuned \/ heard.missed
  <1>1. ASSUME IInv, [Next]_vars PROVE [Announced]_vars
    <2> SUFFICES ASSUME Next PROVE Announced
      BY <1>1 DEF vars
    <2>1. TypeOK
      BY <1>1 DEF IInv
    <2>2. CASE Demodulate
      <3>1. /\ heard'.freq = iqOutputQueue[1].freq /\ 1 \in 1 .. Len(iqOutputQueue)
            /\ Head(iqOutputQueue) = iqOutputQueue[1]
        BY <2>1, <2>2, BlockIsTaken, SizeTypes
      <3>2. QED
        BY <1>1, <3>1 DEF IInv, RetuneIsPending, FrequencyBefore
    <2>3. CASE ~Demodulate
      <3>1. heard'.freq = heard.freq
        <4>1. CASE Pre
          BY <4>1 DEF Pre, TakeBlock, Retune, PrepareMake, PrepareBuild, NothingChanged,
                      PushCommand, Skip, Emit, Pass, TakeResult, EndBlock, output
        <4>2. CASE DropEmpty
          BY <2>1, <4>2, BlockIsTaken
        <4>3. CASE Others \/ Worker
          BY <4>3, OthersChangeRequests DEF Worker, TakeCommand, EndBatch, Build, output
        <4>4. QED
          BY <2>3, <4>1, <4>2, <4>3, NextCases
      <3>2. QED
        BY <3>1
    <2>4. QED
      BY <2>2, <2>3
  <1>2. QED
    BY <1>1, Invariant, PTL DEF Spec, RetuneAnnounced
=============================================================================
