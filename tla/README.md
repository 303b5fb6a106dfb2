# A TLA+ model of CubicSDR

CubicSDR is a software-defined radio receiver: it reads IQ samples from a device, cuts the band
into channels, demodulates any number of them, and plays, records and draws the result. The
program is a graph of threads joined by queues that never wait on the real-time side, and most of
what can go wrong in it lies between threads. This directory models that part: what is passed from
thread to thread, in which order, what is lost when a queue is full, who may free what, and who
waits for whom. The signal processing itself is arithmetic on floating-point samples and is left out.

Source paths below are relative to `src/src/`.

## 1. Inventory

| Component | State it keeps | Operations | Hard part |
|---|---|---|---|
| **SDR input** `sdr/SoapySDRThread.cpp` | device, stream, overflow buffer, `pendingDiscontinuity`, `nextSequence`, one atomic value and one *changed* flag per setting | `readStream`, `updateSettings`, setters called by the GUI, `init`, `terminate` | partial reads; lost blocks; settings that change while they are being applied |
| **Distribution** `sdr/SDRPostThread.cpp` | channelizer and its leftover input, last sequence number, the list of demodulators to run | `runSingleCH`, `runPFBCH`, `runPFBCH2`, `updateActiveDemodulators`, `resetAllDemodulators` | gaps that reach some consumers and not others |
| **Demodulation** `demod/DemodulatorPreThread.cpp`, `DemodulatorWorkerThread.cpp`, `DemodulatorThread.cpp` | current modem and kit, *changed* flags, worker commands and results | retune, change of modem, rebuild of filters, demodulate, squelch | a modem made by one thread, used by two others, deleted by the last |
| **Demodulator life cycle** `demod/DemodulatorInstance.cpp`, `DemodulatorMgr.cpp` | four threads and their pipes; lists, active and current modem | `run`, `terminate`, `setActive`, `newThread`, `deleteThread` | the GUI, the post thread and the audio thread act on one instance at once |
| **Output and mixing** `audio/AudioThread.cpp` | one controller per device, bound threads, mix slots, hazards, `m_mutex`, `m_device_mutex` | `bindThread`, `removeThread`, `setActive`, `setupDevice`, `setSampleRate`, `audioCallback` | a callback without locks; locks taken in several orders |
| **Playout** `audio/AudioMixer.cpp` (`AudioMixState`) | cushion, jitter margin, rate trim, interpolation window | `queue`, `render`, `clear` | start and restart after silence; flushes at any moment |
| **Audio ring** `audio/AudioMixer.cpp` (`AudioStereoRing`) | three atomic positions and the slots | `push`, `pop`, `discard`, `available`, `clear` | lock-free; flush applied later by the other side |
| **Blocking queue** `util/ThreadBlockingQueue.h` | a deque, its maximum, two condition variables | `push`, `try_push`, `pop`, `try_pop`, `flush`, `set_max_num_items` | lost wakeups; a stop that must reach a sleeper |
| **Thread base** `IOThread.cpp`, `IOThread.h` | `stopping`, `terminated`, the pool of reused buffers | `threadMain`, `terminate`, `isTerminated`, `getBuffer` | a stop that comes before the start |
| **Recording** `audio/AudioSinkFileThread.cpp`, `AudioFileWAV.cpp` | open file, its size and sequence number, time limit, squelch state | write a block, split, close | the split in the middle of a block |
| **Visual pipeline** `process/*` | waterfall and spectrum input queues, the FFT distributor's ring of lines, pooled frames | distribute, accumulate, drop | may drop anything, should not join across a gap |
| **Squelch, RDS, accumulator** `dsp/*` | gate and pre-roll, hypotheses and groups of RDS, leftover samples | open and close, decode, accumulate | boundaries of blocks; many readers of one transmission |
| **Rig control** `rig/RigThread.cpp` | frequency and *changed* flag shared with the GUI | poll, set | no lock; two directions of control at once |
| **Application** `CubicSDR.cpp`, `sdr/SDREnumerator.cpp` | the device and all of the above | scan, start, change device, stop, exit | a thread or a scan that does not end in time |
| **Configuration, sessions, bookmarks** `AppConfig.cpp`, `SessionMgr.cpp`, `BookmarkMgr.cpp`, `util/DataTree.cpp` | trees of settings, four XML files | save, load, edit | values typed by what they look like; a torn write |
| **User interface** `AppFrame.cpp`, `visual/`, `panel/`, `forms/` | widgets, the mouse, what is hovered | handlers, the idle pass, the timers | a press is applied later, to something that may have changed |

How they interact:

```
device -> SDRThread -> [queue] -> SDRPostThread -> [queue] -> DemodulatorPreThread -> [queue] -> DemodulatorThread
                                     |                          ^    |                              |
                                     v (visual queues)          |    v commands                     v
                              FFT distributor, spectra      DemodulatorWorkerThread            [queue] AudioThread
                                                                                                    |
                                                              sound card callback <- mix slots <- AudioMixState / AudioStereoRing
```

Every `[queue]` is a `ThreadBlockingQueue`. Upstream of the demodulators pushes never wait and drop
instead; downstream of them they wait. The GUI thread reaches into every box: it sets atomics with a
*changed* flag next to them, takes the mutexes of the audio threads and of the demodulator manager,
and starts, stops and deletes threads.

What makes each component correct, and is stated as a property: the ring is a queue and never races;
playout starts, keeps a cushion and falls silent for a reason; the callback never uses what a removal
has freed, and a removal always ends; no wakeup is lost and a stopped producer ends; no block joins
samples from both sides of a gap and every demodulator knows of each gap; no thread uses a deleted
modem, and the demodulator always runs again after a change; a frame is recorded in order and at most
once; nothing heard has a seam that is neither told nor faded; threads wait in a circle in known cases
only; a device in use has its handle; a setting that is not raced reaches the device; what is selected
exists; a line of the waterfall is one stretch of what the distributor took, at one frequency; the
radio, the receiver and the modem come to rest on one frequency; a saved setting, bookmark or session
returns; the tree shows the lists; a press reaches the modem it was made for; a character of RDS text
was received. Where the code does not keep to this, the property names the exception, or a run of its
own shows it (section 5): frames between two files, gaps inside a line, gaps at a full visual queue, two
deadlocks.

## 2. Modules

| Module | Models | Source |
|---|---|---|
| `FrameQueue` | abstract specification: a bounded FIFO with a deferred flush | what `AudioMixState` needs of its ring |
| `AudioRing` | `AudioStereoRing`, one action per atomic access; implements `FrameQueue` | `audio/AudioMixer.cpp:64-139` |
| `AudioRingProofs` | theorems of `AudioRing` | |
| `AudioPlayout` | `AudioMixState`: `queue`, `clear`, `render`, `startPlayout`, `updateRateTrim` | `audio/AudioMixer.cpp:147-373` |
| `AudioPlayoutProofs` | theorems of `AudioPlayout` | |
| `MixSources`, `MixSourcesMC` | slots, hazards, `bindThread`, `removeThread`, and everyone who calls them | `audio/AudioThread.cpp`, `demod/DemodulatorMgr.cpp`, `demod/DemodulatorInstance.cpp` |
| `MixSourcesProofs` | theorems of `MixSources` | |
| `BlockingQueue` | `ThreadBlockingQueue`, with the loops of its users and `terminate()` | `util/ThreadBlockingQueue.h`, `demod/DemodulatorPreThread.cpp:349-357` |
| `QueueProofs` | theorems of `BlockingQueue` and `Visuals`, one section each | |
| `IQStream`, `IQStreamMC` | the stream from the device through blocks, queues and channelizer to each demodulator | `sdr/SoapySDRThread.cpp`, `sdr/SDRPostThread.cpp`, `demod/DemodulatorPreThread.cpp:80-93` |
| `IQStreamProofs` | theorems of `IQStream` | |
| `Demodulation` | one demodulator: how its modem is made, rebuilt, used and deleted | `demod/DemodulatorPreThread.cpp`, `demod/DemodulatorWorkerThread.cpp`, `demod/DemodulatorThread.cpp:102-135` |
| `DemodulationProofs` | theorems of `Demodulation` | |
| `SquelchGate` | the squelch, the gate with its pre-roll, muting, solo mode, the push of audio | `demod/DemodulatorThread.cpp`, `dsp/SquelchProcessor.cpp` |
| `Recording`, `RecordingMC` | start and stop of a recording, the sink's queue, files and headers | `audio/AudioSinkThread.cpp`, `AudioSinkFileThread.cpp`, `AudioFileWAV.cpp`, `demod/DemodulatorInstance.cpp` |
| `LockOrder` | every operation that holds one mutex and takes another, also those that take them the other way round | `audio/AudioThread.cpp`, `demod/*`, `BookmarkMgr.cpp` |
| `Receiver` | scans, the dialog of devices, start, stop, change and exit | `CubicSDR.cpp`, `sdr/SDREnumerator.cpp`, `SDRDeviceInfo.cpp`, `forms/SDRDevices/` |
| `DeviceSettings` | the setters and `updateSettings` | `sdr/SoapySDRThread.cpp`, `CubicSDR.cpp` |
| `Tuning` | the modems, their and the receiver's frequency, the selection | `demod/DemodulatorMgr.cpp`, `visual/*Canvas.cpp`, `sdr/SDRPostThread.cpp:47-138` |
| `Visuals` | from the post thread to the canvases: queues, lines, frames, pooled buffers | `process/*`, `dsp/SampleFrameAccumulator.h`, `IOThread.h:63-144` |
| `RigControl` | the thread that polls the radio, and those who ask it for a frequency | `rig/RigThread.cpp` |
| `DataTree` | what becomes of a value in the XML files (operators) | `util/DataTree.cpp` |
| `Configuration` | the settings over several sessions; uses `DataTree` | `AppConfig.cpp`, `AppFrame.cpp` |
| `Bookmarks` | bookmarks, recents, ranges, session files, torn writes; uses `DataTree` | `BookmarkMgr.cpp`, `SessionMgr.cpp` |
| `BookmarkTree` | the tree that shows the bookmarks and its panel | `forms/Bookmark/BookmarkView.cpp` |
| `TunerDigits` | the digits of the tuner, the frequency dialog and its texts, the two meters it sets | `visual/TuningCanvas.cpp`, `FrequencyDialog.cpp`, `CubicSDR.cpp:76-137`, `visual/MeterCanvas.cpp` |
| `ModemPanel` | the panel of the current modem, the idle pass, the keys | `AppFrame.cpp`, `visual/ModeSelectorCanvas.cpp`, `MeterCanvas.cpp` |
| `RDSDecoder` | timing hypotheses, sync, cells of text, the status | `dsp/RDSDecoder.cpp`, `RDSDecoder.h` |
| `Parts` | the modules from `SquelchGate` on but `LockOrder`, one per behaviour | |
| `ReceiverProofs` | theorems of `Tuning`, `LockOrder`, `Receiver`, `DeviceSettings` and `RigControl`, one section each | |
| `PartsProofs` | theorems of `Recording`, `SquelchGate`, `ModemPanel` and `BookmarkTree`, one section each | |

`Parts` extends thirteen modules that share no variable. Its `Init` picks a `part` and its `Next` is
that part's next-state relation, everything else unchanged; so one run explores each part by itself, never
their product. `PartView` leaves the variables of the other parts out of a state: they are constant. What
couples parts in the program is an input in each of them, chosen from a small set of the values the other can
give (the current modem in `ModemPanel`, the frequency in `RigControl`, an overflow in `Visuals`). What only
shows when two parts run together is not explored.

Variables and actions keep the names of the source. What stands for what:

- **AudioRing.** `writePosition`, `readPosition` and `discardBefore` are the three atomics, `samples`
  the slots, and the program counters `producerPc` and `consumerPc` separate the loads and stores of a
  call. Positions grow without bound, as `size_t` counters do for any practical run time. There is one
  producer at a time because `queue` and `clear` hold `producerMutex`. Interleaving the accesses is
  enough: each is an acquire load or a release store, and no step relies on an order between two
  threads' *different* stores.
- **AudioPlayout** uses the ring as `FrameQueue` describes it: a count, of which `stale` frames are
  flushed, a call that opens in one step and takes in another. `step` is where the callback is in
  `render`. One thread controls (`SetActive`, `clear`), one produces. A callback asks for at most one
  chunk. All durations are in frames.
- **MixSources.** An operation (`op`) is a task with a step; the steps `own` to `erase` are the ones
  under the controller's mutex. The callback goes through load, announce, recheck, test, render and
  release for each slot. The model is of one device whose controller exists for the whole run. Any
  caller may activate or deactivate any listed demodulator at any time, which includes what
  `DemodulatorInstance::setActive` refuses because the state is already as asked.
- **BlockingQueue.** Each call is one step under the mutex up to its wait; a notified thread takes the
  mutex again in a step of its own. Items are left out.
- **IQStream.** A sample is its position in the receiver's stream, so a gap is a jump of positions.
  `SDRThread` is in one of three steps: `settings`, `read`, `push`. `SDRPostThread` handles one block
  per step, because no other thread touches what it keeps; which demodulators it serves is any set,
  since that changes with tuning. A sample rate is named by the number of channels chosen for it. A
  device that loses samples says so with an overflow, a corruption or a stream error; a timeout loses
  nothing. `Restart` is a stop and a start of the thread, which flushes its queue.
- **Demodulation** picks up where `IQStream` leaves a block. `preStep` is where
  `DemodulatorPreThread::run` is with its block; the parts between two accesses to what another thread
  writes are one step each (the frequency flag and the frequency are two, the test of the *changed*
  flags and the push of the command are two). The n-th modem and the n-th kit are n, so "the same pointer" is
  "the same number". A result is taken whole. `rebuild` holds the modems whose settings have asked for
  a new kit. A setter of the GUI is two steps where it has two stores whose order matters. The values of
  the bandwidth and of the settings, and the audio sample rate, are left out; a block can be out of
  range, or without a sample, at any time, the former at most `MaxSkips` times in a row, which is a bound of
  the runs only: no theorem assumes anything of it. `getDemodType` is what the GUI is told. `heard` is a
  variable of a property: what the last block demodulated was tuned to, and whether a block was dropped since.

- **SquelchGate** numbers audio frames; a level or a quality is kept as far as the squelch tells it
  apart. **Recording** numbers frames too; a file is the sequence of what was written to it.
- **LockOrder.** A thread runs a `program`, the sequence of locks and unlocks of an operation with its
  calls; `owner` and `depth` are the (recursive) mutexes. Locks under which no other is taken are left out.
  All operations are in, among them the two that deadlock; `Operations` says which of three are performed,
  all of them in the run; the theorems hold for any choice.
- **Receiver, DeviceSettings.** What a driver answers is a choice, and so is whether a thread ends before
  `isTerminated`'s time limit. `updateSettings` is one step per flag it looks at and one per flag it clears.
- **Tuning.** A GUI handler is one step, except between two stores that another thread may look between.
  `post` is the copy of the list `SDRPostThread` goes through; `ghosts` are the modems that it held there
  when the GUI deleted them.
- **Visuals.** A sample is its number and the frequency it was received at. Two ways exist, the direct
  one to the spectrum and the one through the distributor to the waterfall; `Init` picks. A line leaves the
  distributor in a buffer that says *discontinuity* from its construction (`demod/DemodDefs.h:31`), so that
  the waterfall's processor begins each frame anew, whether or not there was a gap. `told` and `accepted`
  are variables of the properties: where gaps were marked, and what the distributor took.
- **RigControl.** `dial` is the radio, `rigStep` where the thread is between two calls to it.
- **Configuration, Bookmarks.** A file is the tree in it, or a torn one, or none; a text is its shape, since
  `decodeXMLText` types a value by its looks. A session of the program is started, used, and ended or killed.
- **BookmarkTree.** An item is what it was made for; the lists and the tree are separate variables and a
  *rebuild* flag per branch couples them, as in the code.
- **TunerDigits.** Frequencies are real ones in Hz, because rounding, units and the carry are the matter.
  A meter is what it was set to and what was used of it last, and `OnIdle` compares the two. Which numbers of
  lines the single-precision root makes larger is a constant (`GrowingRates`), computed for the run.
- **ModemPanel.** A modem lives at an address (`slots`), since the panel recognises it by that; what was
  pressed for whom is a variable of the property (`meantFor`). A modem's threads are the commands that
  wait for its worker (`jobs`), which answers some of them at once.
- **RDSDecoder.** Two kinds of hypotheses, fixed and adaptive, read one transmission; a block is clean,
  corrected (perhaps wrongly), noise, or noise that looks like block A. A cell of text holds the words of
  one block. Time is counted in blocks.

## 3. Runs

| Run | Question | Bounds, and why they are enough |
|---|---|---|
| `AudioRing` | Is the ring race-free, and a FIFO with a deferred flush? | 3 slots, requests up to 4 frames, 8 frames: more than two laps, requests above the capacity, a flush at every point of every call |
| `AudioPlayout` | Does playout that starts survive two callbacks? Does silence end? | a ring of 4, the smallest in which the margin can grow to its cap and the cushion still fits; windows of 2 callbacks |
| `AudioPlayoutPrime` | Is the first output the first buffered frame? **No** (section 5) | as above |
| `MixSourcesSafety` | Does the callback ever use a state that is removed or freed? | two threads, two slots, one caller, each thread acting on itself too: a slot reused, a removal during each step of the callback |
| `MixSourcesRemoval` | Does `removeThread` always end? | one thread, two callers, two slots: a state bound again, by another caller, while it is being removed |
| `MixSourcesDangling` | Is a deleted thread still referred to? **Yes** (section 5) | one thread, two callers |
| `BlockingQueue` | Is a wakeup lost? Does a stopped producer end? | two producers, two consumers, up to 3 items: several sleepers on each side, `notify_all` against several |
| `IQStream` | Are gaps kept out of blocks and known to demodulators? | two demodulators behind queues of one, blocks of 2, chunks of up to 3, 5 samples: an overflow, an incomplete group, a loss and a drop at each queue in one behaviour. Six samples were checked as well, in longer than a routine run allows |
| `Demodulation` | Is a deleted modem used? Does a kit meet a foreign modem? Is the type that the GUI is told the one that runs? Is a retune announced in what is demodulated? When do the two threads wait for each other for good, and does the demodulator otherwise always run again, at the right rate and on the last frequency? | two types, rates and frequencies, one change besides those the start brings by itself (type, rate, bandwidth and frequency are all *changed* then), so that a change falls on every step of another; a rate that changes and changes back was checked as well, with one type and one frequency. The queues are as small as they can be, so that they are often full: commands 1 for 2, blocks 1 for 8, results 2 for 100; up to four blocks in a row may be skipped, so that the deadlock is reached, and nothing else than skipped blocks leads to it |
| `LockOrder` | Which threads can wait for each other for good? | one demodulator: every operation that holds a lock and takes another, all at once, a change of the output rate and an opening in solo mode among them; both known deadlocks are reached |
| `Parts` | Thirteen questions, below | below |
| `RecordingSplit` | Is every frame written when a file is full? **No** (section 5) | a file that holds two blocks of two frames and a part of the third |

The parts of `Parts`, with the property each is checked for besides its types:

| Part | Property | Bounds, and why they are enough |
|---|---|---|
| recording | `RecordingIsSound`: frames in their order and once; a file that is closed says how long it is | 4 blocks of two frames, mono and stereo, a queue of one: a full queue, a change of format, a time limit and a split. The stereo split that loses frames is excepted, and shown by `RecordingSplit` |
| squelch gate | `NoAudibleSeam`: blocks join, or the seam is told or faded | a pre-roll of 3 frames against four blocks of 2: filled in part, full and wrapped, with an opening, a closing and a drop; blocks of 4, longer than the pre-roll, were checked as well |
| receiver | `ReceiverIsSafe`: a device in use has its handle; one scan at a time; a retry never starts a device that is stopping | two devices, three scans, seven clicks: a stop that takes too long, a refresh and a retry after it |
| device settings | `OnlyRacedSettingsAreLost` | two choices and a start, which sets every flag itself: two setters against every step of `updateSettings` |
| tuning | `SelectedModemsExist` | two modems, three clicks, `SDRPostThread` and solo mode at any moment; modems are made without a delta lock and may be given one, and the other way round was checked as well |
| visuals | `FramesAreWhole`: lines are stretches of what the distributor took, at one frequency, and no frame bridges two lines; no frame of the spectrum joins both sides of a gap that was told; a buffer is not used again while a canvas has it | frames of 2 and 4, a ring of 4 samples, three blocks of 3: a line across blocks, lines left out, a ring that wraps, a pool that reuses |
| rig | `RigSettles` | three touches of the dial, the receiver or the modes, then four quiet polls |
| configuration | `SettingsReturn` | two edits over two sessions; texts that look like a number, and an address that does |
| bookmarks | `BookmarksReturn`: the lists and the sessions come back; a torn save loses no file for good | four steps, each a whole edit, save or session |
| bookmark tree | `TreeIsTrue` | two modems, two groups, three clicks; timers and threads at any moment |
| tuner digits | `EntriesKeepTheRest` (a click turns one digit; a dialog confirmed as shown changes nothing shown) | four events; real frequencies next to each carry and unit; both halves of a digit; meters dragged to 0 and to an average rate of 0.05, also while the dialog is open |
| modem panel | `PressesReachTheirModem` | two addresses, three events with any number of idle passes between: a press, a change of modem and a reuse of the address |
| RDS | `TextIsEarned` | 13 blocks, two of them disturbed, names and texts of one cell: a confirmation, its replay and one transmission more |

`CHECK_DEADLOCK FALSE` is set where the system may stop: in `BlockingQueue` when all threads have
ended, in `IQStream` when the receiver has reached its bound, in `Parts` and `RecordingSplit` when the bounded
events are used up, and in `LockOrder` and `Demodulation` because
the program does deadlock, and which deadlocks there are is the question.

Each property also has mutants: plausible mistakes in the modelled code (a dropped guard, a missing
reset, a swapped order), written next to the definition they replace, with which the run fails.

**Fairness.** `MixSources`: the sound card calls back for as long as the stream runs, and a thread that
holds the mutex is scheduled; nobody is assumed to ever take the mutex. `AudioPlayout`: the callback
runs and a demodulator with an open squelch delivers audio, at no particular rate. `BlockingQueue`: the
producers' threads are scheduled and `terminate()` proceeds from its flag to its flush; consumers may
have stopped for good. `Demodulation`: the three threads are scheduled and a setter that has begun
returns; the GUI need never act. The worker takes commands until its queue is empty, and by scheduling
alone it might always find one more: `Recovers` is stated for behaviours in which the queue is empty again
and again (`KeepsUp`), and the worker's look at it must sometimes fall into such a moment, which is the
strong fairness of `EndBatch`. A block without a sample is taken and dropped by the same thread that
demodulates. Blocks take milliseconds and the look takes less than a microsecond. The
other specifications state safety only and need none; `RigSettles` counts polls instead of assuming any.

## 4. Theorems

`tlapm` checks them for every value of the constants under the assumptions named in the modules
(positive sizes; disjoint sets of actors).

- **AudioRingProofs.** `Invariant` is the inductive invariant: the four positions are ordered, the
  producer has a free slot from its check to its publication, a call takes a range between the read and
  the write position, and every slot between the two holds the frame of its position. The last part is
  what the run's properties lack to be inductive: a copied frame is right because a *held* frame is.
  From it `TypeCorrect`, `RaceFree`, `DifferencesExact` and `CopiesCurrent` follow. `Refinement` shows
  that every step of the ring is a step of `FrameQueue` or leaves the queue unchanged, so a user may
  think of a bounded FIFO with a deferred flush, as `AudioPlayout` does.
- **MixSourcesProofs.** `Invariant` says: the mutex holder is in a locked step and nobody else is; a
  bound slot has an owner; a state used by the callback is announced and either still in the slot it
  was read from or named by a hazard that a running removal has not passed; a scan has excluded the
  hazards below its index *for good*, because the slots were cleared first. That order, clear then
  scan, is what `RemovalIsSafe` and `UseIsSafe` rest on; they hold for any number of threads, callers
  and slots.
- **QueueProofs.**
  - `WakeupsAreKept` (blocking queue): `QueueInvariant` is the types with `NoLostWakeup`, which is inductive as it
    is: every step that ends the reason of a sleeper also notifies. `QueueTypeCorrect` bounds the queue. For any
    number of threads.
  - `FramesStayWhole` (visuals): samples have numbers, and what comes later has higher ones. `BlocksRise` says so of
    the waiting blocks and of what the distributor has taken; `RingIsGapless` that the ring holds the last samples
    taken, none of them left out, so that a line cut from it leaves none out either (`LinesAreGapless`);
    `HistoryRises` that the samples collected for a frame come before every waiting block, and that a gap that was
    told is still ahead, at the head of a marked block, or is behind all that is collected and waits. For the
    waterfall it says that what is collected is the end of one line, since each line is marked; so a frame is of
    one line, at one frequency, with at most every second sample left out. What the theorem does not say, since
    it is false (section 5), is that a line has no told gap inside it.
    `CanvasesHold` says that a buffer still holds what the canvas that has it was given: `getBuffer` hands out
    no buffer that someone holds.
    For any sizes of blocks, frames, rings and queues; the sizes of frames are finitely many, at least one, and
    there is a frequency to begin with. The proof carries the modular arithmetic of the ring (`SlotsApart`,
    `AppendedWorks`): positions less than a round apart are at different slots.
- **AudioPlayoutProofs.** `CushionOutlasts`: once playout has started and unless somebody clears, the first two
  callbacks find all the frames they ask for, for any sizes of the ring, of a callback and of the margins whose
  largest cushion fits the ring (`StartupFits`) and any window of two callbacks or more. The property counts
  callbacks; the invariant says for each step of `render` how many frames are left for it (`CushionLasts`), and
  that the rate is not trimmed before the second callback has asked for its frames (`TrimIsLate`), for which a
  window of one callback would be too short.
- **IQStreamProofs.** `NothingIsJoined` (no block holds samples from both sides of a gap) and `GapsAreTold` (what a
  demodulator takes follows what it took before, or a flag or a number says it does not), for any number of
  demodulators, sizes, rates and queues. The invariant follows one position through the pipeline: where the
  buffers of `readStream` end, where the block read next starts, each block in a queue against the one before
  it, the input that the channelizer kept, and each demodulator's last block against all of these. It is long
  because a loss may hide in any of these places before anything is told.
- **DemodulationProofs.** `RightModem`, `DeletedAreForgotten`, `RetunesAreAnnounced` and `BothWaitOnlySkipping`. The invariant
  orders modems and kits by age along the way they take, from the worker through results, commands and blocks
  to `DemodulatorThread` (`MadeInOrder`): a modem is deleted when a newer one arrives, and nothing behind it is
  older. `RightModem` is about `getDemodType`, what the GUI is told. `RetunesAreAnnounced` is about the blocks that
  are demodulated; the invariant says of each queued block, and of the next one to come, that it is marked if
  its frequency is another, or is the first after a marked one that was dropped (`RetuneIsPending`). For
  `BothWaitOnlySkipping` it counts the results that may still come against the blocks skipped in a row
  (`RoomIsLeft`). The theorem assumes no bound on these: it says that the deadlock takes as many of them as there
  is room for results, and the code reaches it (section 5).
- **ReceiverProofs.**
  - `SelectedExist` (tuning): every list and every place that names a modem names one that is listed or, as the
    exception, one that `SDRPostThread` still held when it was deleted; for any number of modems.
  - `DeadlocksAreKnown` (locks): every program takes its locks in the order bookmarks, demodulators, device,
    controller, bound threads or squelch, and gives them back, but for two that ask for an earlier one under a later
    one (`Against`): the controller that changes its rate, and a demodulator that opens in solo mode. `LockInv`
    says this of what each thread still has to do and what it holds (`Leads`). A thread that waits within the order
    waits for one of a higher rank, and a circle of such threads would have no highest; so in every deadlock a
    thread waits against it. No operation is assumed away: the theorem is about all of them, and for any number
    of demodulators.
  - `ReceiverSafe` (receiver): what the buttons, the scanning threads and the waiting calls of the GUI say of each
    other. `MaxScans` is at least 1: `OnInit` starts the first scan.
  - `OnlyRacedAreLost` (device settings): the property speaks of moments without a flag; the invariant says
    for each kind what is true while the flag is being looked at, applied and cleared, and for the frequency lock
    also what is held in between (`LockIsHeld`), without which it is not inductive. Sample rates are at least 2.
  - `RigComesToRest` (rig control): what each quiet poll adds. After the first, what the thread has read is what
    there is (`PollReads`); after the second, it knows the radio's frequency, and what it still asks for is where the
    radio is (`ThreadKnows`); after the third, radio, receiver and modem agree (`RadioAgrees`). A frequency that was
    chosen at rest is still to be followed, or is where the receiver went (`TouchLasts`). The invariant shows that
    three quiet polls are enough where `RigSettles` allows four; for any frequencies, modems and modes.
- **PartsProofs.**
  - `RecordingSound` (recording): a block on its way to a file is newer than every frame written
    (`BlocksComeInOrder`), and the open file's size is that of its frames (`FilesSound`). Names differ because
    `GetOutputFileName` tries more numbers than there are files.
  - `NoSeamIsHeard` (squelch gate): each slot of the ring holds the frame that its distance from the write position
    says, so that what is copied out joins the block that follows, and frames are kept only while the next block
    played will be marked; for any pre-roll, block size and fade.
  - `PressesReach` (modem panel): a widget that is pressed, or that shows another mode than the modem is to have, was
    pressed for the modem that the panel is loaded for, or shows what is no longer so (`WidgetsAreTold`). A pass that
    applies a press takes it back, so that nothing is applied twice; for any number of addresses, presses and modems.
  - `TreeStaysTrue` (bookmark tree): a branch of the tree that does not show what there is has its flag up, or its
    rebuild was missed (`ActiveIsDue`, `BookmarksAreDue`); what an item, the drag or an open prompt refers to is there
    or was there (`ShownRefer`, `HeldRefer`), since the tree is rebuilt by a timer and clicks come in between. A
    bookmark is never also a recent modem and the recents are ordered by age (`BookSound`), so that removing the
    first entry that is found removes it. For any modems, groups and ranges, and a list of recents of at least one.

The invariants were checked by TLC on the runs' instances before they were proved, and proving changed what they
and the models say: the exception for a raced frequency lock had to name the lock itself; `RecordedInOrder` is
stated of files and places, not of their concatenation, which the prover cannot unfold; the lines that
`Visuals` picks are sequences in order, not sorted sets, for the same reason; and the panel was found to
give a modem back, unasked, what it had been loaded with (section 5).

Only model-checked:

- `RemovalEnds`, `StartsPlaying`, `StopEnds`, `Recovers` and `LastFrequencyWins`: liveness under fairness.
- `TextIsEarned`, `SettingsReturn`, `BookmarksReturn` and `EntriesKeepTheRest`: they rest on what
  operators over texts, trees and digits compute (folds and functions by recursion), which needs an induction over
  data that the provers cannot do.
- `TypeOK` of `Parts`, which also speaks of the parts without theorems; each proved part has a theorem for its own.
- The runs that expect a violation: their counterexample is the result.

## 5. What the code does differently from what it says

Shown by a run of their own:

- `AudioPlayoutPrime`: `startPlayout` does not look at how many frames its `pop` returned. A `clear()`
  between `render`'s `available()` and that `pop` leaves the array it copies into the interpolation
  window uninitialised, against the comment three lines above it: *"the first output is exactly the
  first buffered frame."*
- `MixSourcesDangling`: `setActive(true)` binds a thread that has already unbound itself and is about to
  be deleted. The controller keeps a plain pointer to it, against `~DemodulatorInstance`'s *"we should
  enter here ONLY when it is no longer used by any piece of code, anywhere."*
- `RecordingSplit`: `getMaxWritableNumberOfSamples` counts frames, and `writeToFile`
  (`audio/AudioFileWAV.cpp:84-98`) passes that as the end of one payload, where it is divided by the channels
  again, and as the start of the next, where it is not. The stereo frames between are in neither file,
  against *"dump the rest of samples in it."*

Met while modelling. The properties except them by name, at the place given, so that everything else is
still checked:

- `LockOrder` (`AgainstTheOrder`): `setupDevice` (`audio/AudioThread.cpp:427`) takes the controller's mutex under
  the device mutex, and the controller, changing its rate (362-383), the device mutex under its own, although *"NOT
  PROTECTED by m_device_mutex on purpose, to prevent deadlocks"* (217); it also takes `demods_busy` there, against
  `deleteThread`. And in solo mode a demodulator that opens asks for `demods_busy` under the squelch lock
  (`demod/DemodulatorThread.cpp:227`), and `deleteThread` for the squelch lock under `demods_busy`.
- `DeviceSettings`: a rate, antenna or offset chosen between its application and the clearing of its flag is
  lost (`sdr/SoapySDRThread.cpp:554-717`). `RigControl`: so is a frequency asked for between
  `rig/RigThread.cpp:139` and 150. `Demodulation`: so is a bandwidth (`demod/DemodulatorPreThread.cpp:162`); and
  a type chosen while another is being made is never made, and the GUI is told the old one (149, 269).
- `Demodulation` (`RetuneAnnounced`): `pendingRetune` is cleared when a block is queued
  (`demod/DemodulatorPreThread.cpp:230`), and `DemodulatorThread` drops a block without samples before it looks
  at its mark (`demod/DemodulatorThread.cpp:109-113`); the next one is on the new frequency and does not say so.
- `BookmarkTree`: an update that a thread asks for while a rebuild ends is lost until the next
  (`forms/Bookmark/BookmarkView.cpp:176`).
- `Tuning`: `SDRPostThread` may focus a modem that was deleted while it held a copy of the list.
- `Visuals` (`FramesAreWhole`): *"must never join samples from opposite sides of a device/queue gap into one
  displayed frame"* (`process/SpectrumVisualProcessor.cpp:270`) is not so of the waterfall: `FFTDataDistributor`
  appends a block that is marked as a discontinuity behind what it has (`process/FFTDataDistributor.cpp:40-93`)
  and cuts a line across both. And it is not so of the spectrum when the gap is a block that found its queue
  full: `pushVisualData` (`sdr/SDRPostThread.cpp:251`) does not tell, and the processor looks at the mark alone.
  The model does both.
- `RigControl`: a radio that refuses a frequency asked for once
  is not asked again, and is taken to be there (`rig/RigThread.cpp:143-146`).
- `RDSDecoder`: *"a character from a corrected block is shown only once a later transmission repeats it"*
  (`dsp/RDSDecoder.h:46`); but the group a hypothesis replays when it is confirmed
  (`dsp/RDSDecoder.cpp:330`) may be one that another told half a group before, and counts as its repeat. And
  `resetSignal` keeps the station synchronised and starts the time-out anew, so that a station whose signal
  keeps failing for less than six seconds keeps an old status.
- `Configuration`: a text that looks like a number is read as one, and an antenna, a gain or an id that does
  throws at every start (`AppConfig.cpp:176-227`); the last remote device that was removed comes back
  (`AppConfig.cpp:876-889`); `-c name` takes effect after the configuration was loaded (`CubicSDR.cpp:211`).
- `Bookmarks`: two torn saves in a row lose the good backup (`BookmarkMgr.cpp:93`).
- `TunerDigits`: 1003 Hz, confirmed as the dialog shows it, becomes 1002 Hz; below 1 kHz the text has no unit
  and is taken for MHz (`CubicSDR.cpp:92-136`). The meters go below what the dialog takes: an average rate under
  0.1 (`AppFrame.cpp:2385-2394`) is raised to 0.1 by confirming it (`FrequencyDialog.cpp:195-197`), and 0 lines to 1.
  30 lines per second, which is the default, confirmed in the dialog become 31: the meter keeps the root in single
  precision (`AppFrame.cpp:3236`), and its square is rounded up (2412); so it is with 24 of the rates up to 100.
  A new session resets both behind their meters (`AppFrame.cpp:1449-1454`), which then take the number they had for
  no change; the reset is not modelled.
- `ModemPanel`: the panel knows its modem by its address only (`AppFrame.cpp:2547`), so that a press made
  while a modem is being built may reach the one shown before it, and the mode that is shown of a deleted
  modem may reach the next one at its address. It is loaded with the type that the modem tells
  (`AppFrame.cpp:2557`), which lags behind the type that was set: the pass after it may set the old one again.
  And loading a button does not take back its press (2562), which waits while a modem is dragged in the
  zoomed waterfall (2568).
- `Tuning`: a modem with a delta lock, made by dragging a range, gets its offset with the wrong sign
  (`visual/WaterfallCanvas.cpp:839`).

`OnlySkippingBlocks` says when the two threads of a demodulator block each other: not for few skipped
blocks in a row, as when a demodulator is deactivated with some blocks still queued. A demodulator that
is being tracked, and is not the current one, stays fed when the receiver is tuned away
(`sdr/SDRPostThread.cpp:79`). Its `DemodulatorPreThread` skips every block without taking results
(`demod/DemodulatorPreThread.cpp:178-181`), and if the sample rate changes then, each block brings a
command: after a hundred results the worker waits for room, and then the other thread does, until the
demodulator is deleted. The run reaches that state. Nothing in the repository promises the
opposite.

## 6. Plan

Written so far: everything section 2 lists. What is left, in this order:

1. **An abstract demodulator** that has one modem and replaces it, implemented by `Demodulation`.
2. **Output devices**: several controllers, a device that disappears, the rates each device offers.
3. **Stopping**: the time limits of `~DemodulatorInstance` and of `isTerminated`, whose expiry leaks a thread.

## 7. Not modelled

Samples and filters, the modems, resampling, spectra, averages and peaks, the noise estimate (numbers); the
scope processor; what a driver or Hamlib does inside a call; what is drawn, and menus that only set an
option; labels, sorting, the theme; the command line and the loading of modules; values that older versions
wrote into the XML files, and the vectors of a `DataElement`, which nobody stores. The C++ memory model below
sequential consistency of the atomics, allocation failure, and 64-bit wrap-around. Vendored code (`external/`)
and the generated dialogs (`*Base.cpp`) hold no state of the program's own.
