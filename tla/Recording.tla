----------------------------- MODULE Recording ------------------------------
(***************************************************************************)
(* Recording a demodulator to WAV files.                                   *)
(*                                                                         *)
(* startRecording gives the demodulator a sink thread with a queue of its  *)
(* own; stopRecording takes it away (src/demod/DemodulatorInstance.cpp).   *)
(* The sink (src/audio/AudioSinkThread.cpp, AudioSinkFileThread.cpp) starts *)
(* a new file when the format changes, when a time limit has passed and,   *)
(* inside AudioFileWAV (src/audio/AudioFileWAV.cpp), when a file would grow *)
(* past the size limit of the format.                                      *)
(*                                                                         *)
(* Frames are numbered in the order they are demodulated, a file is the    *)
(* sequence of the numbers written to it, and its header is the number of  *)
(* samples it says there are.  Sizes are in samples of two bytes.          *)
(***************************************************************************)
EXTENDS Integers, Sequences, SequencesExt

CONSTANTS
    AudioFormats,     \* channels and what else a block is labelled with
    SquelchOptions,   \* RECORD_SILENCE, SKIP_SILENCE, RECORD_ALWAYS
    TimeLimits,       \* whether files have a time limit
    BlockFrames,      \* frames in a block
    FileRoom,         \* samples a file takes (MAX_WAV_FILE_SIZE)
    SinkQueueMax,     \* of the sink's input queue
    MaxAudioBlocks,   \* bound: blocks demodulated
    MaxRecordings     \* bound: recordings started

ASSUME RecordingAssumption ==
    /\ \A f \in AudioFormats : f.channels \in {1, 2}
    /\ SquelchOptions \subseteq {"silence", "skip", "always"}
    /\ TimeLimits \subseteq BOOLEAN
    /\ {FileRoom, BlockFrames, SinkQueueMax} \subseteq Nat \ {0}
    /\ \A f \in AudioFormats : BlockFrames * f.channels =< FileRoom \div f.channels
    /\ {MaxAudioBlocks, MaxRecordings} \subseteq Nat

VARIABLES
    recording,    \* the GUI: off | on | unbound | terminated (waits in join)
    sinkQueue,    \* of blocks, for the sink of the recording with this number
    recordings,
    boundSink,    \* the recording whose queue the demodulator is given, or 0
    takenSink,    \* localAudioSinkOutputQueue
    audioBlocks,  \* blocks demodulated
    sink,         \* the thread: its step, stopping flag, options, inp and inputRef, and
                  \* when its duration was last restarted
    wav,          \* the AudioFileWAV: open, filenameBase, sequence number, size
    files,        \* all files, in the order they were opened
    seconds,      \* the clock, as far as file names show it
    asked         \* frames given to writeToFile (for the properties)

recordingVars == <<recording, sinkQueue, recordings, boundSink, takenSink, audioBlocks,
                   sink, wav, files, seconds, asked>>

NoFormat == [channels |-> 0]
NoWav == [open |-> FALSE, base |-> 0, sequence |-> 0, size |-> 0]
NoBlock == [number |-> 0, format |-> NoFormat, squelched |-> FALSE]
NoSink == [step |-> "none", stopping |-> FALSE, option |-> "always", limit |-> FALSE,
           inp |-> NoBlock, inputRef |-> NoFormat, since |-> 0]

RecordingInit ==
    /\ recording = "off" /\ recordings = 0
    /\ sinkQueue = << >> /\ boundSink = 0 /\ takenSink = 0 /\ audioBlocks = 0
    /\ sink = NoSink /\ wav = NoWav
    /\ files = << >> /\ seconds = 1 /\ asked = << >>

-----------------------------------------------------------------------------
(* AudioFileWAV, as functions of the handler w and the files fs.           *)

Frames(block) == [i \in 1 .. BlockFrames |-> (block.number - 1) * BlockFrames + i]

\* The first name that no file has: base, sequence number and index.
GetOutputFileName(w, fs) ==
    LET taken(i) == \E k \in DOMAIN fs : fs[k].name = <<w.base, w.sequence, i>>
    IN <<w.base, w.sequence, CHOOSE i \in 0 .. Len(fs) : ~taken(i) /\ \A j \in 0 .. i - 1 : taken(j)>>

OpenFile(w, fs, block) ==
    Append(fs, [name |-> GetOutputFileName(w, fs), format |-> block.format,
                frames |-> << >>, header |-> -1])

\* Frames from start on; end counts samples, of which a frame has one per channel.
Payload(block, start, end) ==
    SubSeq(Frames(block), start + 1, end \div block.format.channels)

WritePayload(fs, frames) ==
    [fs EXCEPT ![Len(fs)].frames = @ \o frames]

CloseFile(w, fs) ==
    IF w.open
    THEN [fs EXCEPT ![Len(fs)].header = Len(fs[Len(fs)].frames) * fs[Len(fs)].format.channels]
    ELSE fs

Closed(w) == [w EXCEPT !.open = FALSE, !.size = IF w.open THEN 0 ELSE @]

\* Mutant: the second file starts with the whole block.
DumpsAll(block, room) == Payload(block, 0, BlockFrames * block.format.channels)

\* What a full file did not take.
Dumped(block, room) == Payload(block, room, BlockFrames * block.format.channels)

SetOutputFileName(w, name) ==
    [w EXCEPT !.base = name, !.sequence = IF name # w.base THEN 0 ELSE @]

GetMaxWritableNumberOfSamples(w, block) == (FileRoom - w.size) \div block.format.channels

\* The result is the handler and the files.
WriteToFile(w, fs, block) ==
    LET channels == block.format.channels
        samples == BlockFrames * channels
        opened == IF w.open THEN fs ELSE OpenFile(w, fs, block)
        w1 == [w EXCEPT !.open = TRUE, !.size = IF w.open THEN @ ELSE 0]
        room == GetMaxWritableNumberOfSamples(w1, block)
        head == Payload(block, 0, IF room >= samples THEN samples ELSE room)
        w2 == [w1 EXCEPT !.size = @ + Len(head) * channels]
        full == WritePayload(opened, head)
        next == [w2 EXCEPT !.sequence = @ + 1, !.size = 0]
        rest == Dumped(block, room)
    IN  IF room >= samples
        THEN [wav |-> w2, files |-> full]
        ELSE [wav |-> [next EXCEPT !.size = Len(rest) * channels],
              files |-> WritePayload(OpenFile(next, CloseFile(w2, full), block), rest)]

-----------------------------------------------------------------------------
(* The demodulator thread, one block at a time.                            *)

TakeSinkQueue ==
    /\ takenSink = 0 /\ boundSink # 0
    /\ takenSink' = boundSink
    /\ UNCHANGED <<recording, sinkQueue, recordings, boundSink, audioBlocks, sink, wav, files,
                   seconds, asked>>

\* Mutant: the queue is not looked at.
PushWithoutLimit(format, squelched) ==
    /\ takenSink # 0 /\ audioBlocks < MaxAudioBlocks
    /\ audioBlocks' = audioBlocks + 1 /\ takenSink' = 0
    /\ sinkQueue' = Append(sinkQueue, [number |-> audioBlocks + 1, format |-> format,
                                       squelched |-> squelched])
    /\ UNCHANGED <<recording, recordings, boundSink, sink, wav, files, seconds, asked>>

\* A full queue drops the block; a queue whose sink is gone keeps it for nobody.
PushToSink(format, squelched) ==
    /\ takenSink # 0 /\ audioBlocks < MaxAudioBlocks
    /\ audioBlocks' = audioBlocks + 1
    /\ takenSink' = 0
    /\ sinkQueue' = IF takenSink = recordings /\ sink # NoSink /\ Len(sinkQueue) < SinkQueueMax
                    THEN Append(sinkQueue, [number |-> audioBlocks + 1, format |-> format,
                                            squelched |-> squelched])
                    ELSE sinkQueue
    /\ UNCHANGED <<recording, recordings, boundSink, sink, wav, files, seconds, asked>>

-----------------------------------------------------------------------------
(* The GUI.                                                                *)

StartRecording(option, limit) ==
    /\ recording = "off" /\ recordings < MaxRecordings
    /\ recording' = "on"
    /\ recordings' = recordings + 1
    /\ sink' = [NoSink EXCEPT !.step = "created", !.option = option, !.limit = limit,
                              !.since = seconds]
    /\ wav' = SetOutputFileName(NoWav, seconds)
    /\ boundSink' = recordings'
    /\ sinkQueue' = << >>
    /\ UNCHANGED <<takenSink, audioBlocks, files, seconds, asked>>

UnbindSink ==
    /\ recording = "on"
    /\ recording' = "unbound"
    /\ boundSink' = 0
    /\ UNCHANGED <<sinkQueue, recordings, takenSink, audioBlocks, sink, wav, files, seconds, asked>>

\* Nobody pushes with a wait, so the order of the flag and the flush does not matter.
TerminateSink ==
    /\ recording = "unbound"
    /\ recording' = "terminated"
    /\ sink' = [sink EXCEPT !.stopping = TRUE]
    /\ sinkQueue' = << >>
    /\ UNCHANGED <<recordings, boundSink, takenSink, audioBlocks, wav, files, seconds, asked>>

\* join returns; the sink's destructor closes the file.
DeleteSink ==
    /\ recording = "terminated" /\ sink.step = "ended"
    /\ recording' = "off"
    /\ sink' = NoSink
    /\ files' = CloseFile(wav, files)
    /\ wav' = NoWav
    /\ sinkQueue' = << >>
    /\ UNCHANGED <<recordings, boundSink, takenSink, audioBlocks, seconds, asked>>

Tick ==
    /\ seconds =< MaxRecordings
    /\ seconds' = seconds + 1
    /\ UNCHANGED <<recording, sinkQueue, recordings, boundSink, takenSink, audioBlocks, sink, wav,
                   files, asked>>

-----------------------------------------------------------------------------
(* The sink thread.                                                        *)

outsideSink == <<recording, recordings, boundSink, takenSink, audioBlocks>>

\* threadMain takes a stop that came before it back.
StartSink ==
    /\ sink.step = "created"
    /\ sink' = [sink EXCEPT !.step = "test", !.stopping = FALSE]
    /\ UNCHANGED <<outsideSink, sinkQueue, wav, files, seconds, asked>>

TestStopping ==
    /\ sink.step = "test"
    /\ sink' = [sink EXCEPT !.step = IF sink.stopping THEN "ended" ELSE "pop"]
    /\ UNCHANGED <<outsideSink, sinkQueue, wav, files, seconds, asked>>

PopNothing ==
    /\ sink.step = "pop" /\ sinkQueue = << >>
    /\ sink' = [sink EXCEPT !.step = "test"]
    /\ UNCHANGED <<outsideSink, sinkQueue, wav, files, seconds, asked>>

\* inputChanged closes the file when the block's labels are new.
PopBlock ==
    /\ sink.step = "pop" /\ sinkQueue # << >>
    /\ sinkQueue' = Tail(sinkQueue)
    /\ LET block == Head(sinkQueue)
           changed == block.format # sink.inputRef
       IN /\ sink' = [sink EXCEPT !.step = "sink", !.inp = block, !.inputRef = block.format,
                                  !.since = IF changed THEN seconds ELSE @]
          /\ files' = IF changed THEN CloseFile(wav, files) ELSE files
          /\ wav' = IF changed THEN Closed(wav) ELSE wav
    /\ UNCHANGED <<outsideSink, seconds, asked>>

Skips(block) == block.squelched /\ sink.option = "skip"

SkipSilence ==
    /\ sink.step = "sink" /\ Skips(sink.inp)
    /\ sink' = [sink EXCEPT !.step = "test", !.inp = NoBlock]
    /\ UNCHANGED <<outsideSink, sinkQueue, wav, files, seconds, asked>>

\* Squelched audio is written, as silence or as it is; after the time limit to a new file.
Sink(exceeded) ==
    /\ sink.step = "sink" /\ ~Skips(sink.inp)
    /\ exceeded => sink.limit /\ seconds > sink.since
    /\ sink' = [sink EXCEPT !.step = "test", !.inp = NoBlock,
                            !.since = IF exceeded THEN seconds ELSE @]
    /\ LET w == IF exceeded THEN SetOutputFileName(Closed(wav), seconds) ELSE wav
           fs == IF exceeded THEN CloseFile(wav, files) ELSE files
           written == WriteToFile(w, fs, sink.inp)
       IN wav' = written.wav /\ files' = written.files
    /\ asked' = asked \o Frames(sink.inp)
    /\ UNCHANGED <<outsideSink, sinkQueue, seconds>>

-----------------------------------------------------------------------------

RecordingNext ==
    \/ TakeSinkQueue
    \/ \E format \in AudioFormats, squelched \in BOOLEAN : PushToSink(format, squelched)
    \/ \E option \in SquelchOptions, limit \in TimeLimits : StartRecording(option, limit)
    \/ UnbindSink \/ TerminateSink \/ DeleteSink \/ Tick
    \/ StartSink \/ TestStopping \/ PopNothing \/ PopBlock \/ SkipSilence
    \/ \E exceeded \in BOOLEAN : Sink(exceeded)

RecordingSpec == RecordingInit /\ [][RecordingNext]_recordingVars

-----------------------------------------------------------------------------
(* Properties.                                                             *)

RecordingTypeOK ==
    /\ recording \in {"off", "on", "unbound", "terminated"}
    /\ boundSink \in 0 .. MaxRecordings /\ takenSink \in 0 .. MaxRecordings
    /\ Len(sinkQueue) =< SinkQueueMax
    /\ sink.step \in {"none", "created", "test", "pop", "sink", "ended"}
    /\ wav.size \in 0 .. FileRoom
    /\ \A k \in DOMAIN files : files[k].header \in -1 .. FileRoom

\* What is recorded is in the order of the audio: across splits, time limits, changes of
\* format and recordings no frame is written twice or after a later one, and none that
\* the sink was not given (writeToFile's two halves, AudioFileWAV.cpp:77-97).
RecordedInOrder ==
    /\ \A k \in DOMAIN files : \A i, j \in DOMAIN files[k].frames :
          i < j => files[k].frames[i] < files[k].frames[j]
    /\ \A j, k \in DOMAIN files : j < k =>
          \A a \in ToSet(files[j].frames), b \in ToSet(files[k].frames) : a < b
    /\ \A k \in DOMAIN files : ToSet(files[k].frames) \subseteq ToSet(asked)

\* Every file that is not being written is finished: its name is its own, so that no
\* file was overwritten, its header tells its contents, which are within the limit, and
\* stopRecording leaves none behind (AudioFileWAV.cpp:102-120, 185-219, and the
\* destructor of the sink, which alone closes the last file).
FilesAreFinished ==
    /\ \A k \in DOMAIN files :
        \/ k = Len(files) /\ wav.open
        \/ files[k].header = Len(files[k].frames) * files[k].format.channels
    /\ \A j, k \in DOMAIN files : files[j].name = files[k].name => j = k
    /\ recording = "off" => ~wav.open

\* What must hold of a recording and its files.
RecordingIsSound == RecordedInOrder /\ FilesAreFinished

\* "Open a new file with the next sequence number, and dump the rest of samples in it."
\* (AudioFileWAV.cpp:88): a split loses nothing, every frame the sink asked for is written.
SplitKeepsEveryFrame ==
    ToSet(asked) \subseteq UNION {ToSet(files[k].frames) : k \in DOMAIN files}
=============================================================================
