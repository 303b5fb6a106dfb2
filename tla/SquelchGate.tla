---------------------------- MODULE SquelchGate -----------------------------
(***************************************************************************)
(* What DemodulatorThread does with the audio of a block: the squelch, the *)
(* gate with its pre-roll, and the queue to the AudioThread                *)
(* (src/demod/DemodulatorThread.cpp, src/dsp/SquelchProcessor.cpp).        *)
(*                                                                         *)
(* Audio frames are numbered in the order they are demodulated.  Signal    *)
(* level and modem quality are kept as far as the squelch tells them apart: *)
(* "below" its level, "near" it, and "above" it by the hysteresis; "noise", *)
(* "fair" and "clean".  Hang times are a choice: long enough ago, or not.  *)
(* Fades change no frame's number.  Of the other demodulators, the squelch *)
(* lock and the current modem are kept, which they may take.               *)
(***************************************************************************)
EXTENDS Integers, Sequences, SequencesExt

CONSTANTS
    PreRollFrames,   \* frames of history
    AudioSizes,      \* frames of audio in a block
    FadeFrames,      \* frames faded out when the squelch closes
    MaxGateBlocks,   \* bound: blocks demodulated
    MaxGateClicks    \* bound: what the user and other demodulators do

ASSUME SquelchGateAssumption ==
    /\ {PreRollFrames, FadeFrames} \subseteq Nat \ {0}
    /\ AudioSizes \subseteq Nat
    /\ {MaxGateBlocks, MaxGateClicks} \subseteq Nat

VARIABLES
    gateStep,        \* pop | squelch | gate | push
    squelchEnabled, squelchBreak,
    squelchLock,     \* nobody | this | other
    currentModem,    \* this | other
    soloMode, muted,
    gateClick,       \* setSquelchEnabled(false) between its stores: none | release | unbreak
    gateClicks,
    gateBlock,       \* the block in hand
    gateBlocks, gateFrames,   \* blocks and frames demodulated
    gate,            \* SquelchAudioGate: history, its write position and count, wasOpen
    pendingAudioDiscontinuity,
    played           \* the last block pushed to the AudioThread

gateVars == <<gateStep, squelchEnabled, squelchBreak, squelchLock, currentModem, soloMode, muted,
              gateClick, gateClicks, gateBlock, gateBlocks, gateFrames, gate,
              pendingAudioDiscontinuity, played>>
gateThread == <<gateStep, gateBlock, gateBlocks, gateFrames, gate, pendingAudioDiscontinuity, played>>
gateUser == <<currentModem, soloMode, muted, gateClick, gateClicks>>

NoAudio == << >>
ResetGate == [history |-> << >>, historyWrite |-> 0, historyCount |-> 0, wasOpen |-> FALSE]
NoGateBlock == [audio |-> NoAudio, discontinuity |-> FALSE, retuned |-> FALSE, enabled |-> FALSE,
                squelched |-> FALSE, playback |-> NoAudio, result |-> "none"]
NothingPlayed == [frames |-> NoAudio, discontinuity |-> FALSE, faded |-> TRUE]

SquelchGateInit ==
    /\ gateStep = "pop"
    /\ squelchEnabled = FALSE /\ squelchBreak = FALSE /\ squelchLock = "nobody"
    /\ currentModem = "this" /\ soloMode = FALSE /\ muted = FALSE
    /\ gateClick = "none" /\ gateClicks = 0
    /\ gateBlock = NoGateBlock /\ gateBlocks = 0 /\ gateFrames = 0
    /\ gate = ResetGate
    /\ pendingAudioDiscontinuity = FALSE
    /\ played = NothingPlayed

-----------------------------------------------------------------------------
(* The user, and the other demodulators.                                   *)

GateClick == gateClick = "none" /\ gateClicks < MaxGateClicks /\ gateClicks' = gateClicks + 1

EnableSquelch ==
    /\ GateClick
    /\ squelchEnabled' = TRUE
    /\ UNCHANGED <<gateThread, squelchBreak, squelchLock, currentModem, soloMode, muted, gateClick>>

DisableSquelch ==
    /\ GateClick
    /\ squelchEnabled' = FALSE
    /\ gateClick' = "release"
    /\ UNCHANGED <<gateThread, squelchBreak, squelchLock, currentModem, soloMode, muted>>

ReleaseSquelchLock(lock) == IF lock = "this" THEN "nobody" ELSE lock

DisableReleases ==
    /\ gateClick = "release"
    /\ gateClick' = "unbreak"
    /\ squelchLock' = ReleaseSquelchLock(squelchLock)
    /\ UNCHANGED <<gateThread, squelchEnabled, squelchBreak, currentModem, soloMode, muted, gateClicks>>

DisableUnbreaks ==
    /\ gateClick = "unbreak"
    /\ gateClick' = "none"
    /\ squelchBreak' = FALSE
    /\ UNCHANGED <<gateThread, squelchEnabled, squelchLock, currentModem, soloMode, muted, gateClicks>>

ToggleMuted ==
    /\ GateClick
    /\ muted' = ~muted
    /\ UNCHANGED <<gateThread, squelchEnabled, squelchBreak, squelchLock, currentModem, soloMode, gateClick>>

ToggleSoloMode ==
    /\ GateClick
    /\ soloMode' = ~soloMode
    /\ UNCHANGED <<gateThread, squelchEnabled, squelchBreak, squelchLock, currentModem, muted, gateClick>>

\* Another demodulator opens, and is made the current one, or closes.
OtherOpens ==
    /\ GateClick /\ soloMode /\ squelchLock = "nobody"
    /\ squelchLock' = "other" /\ currentModem' = "other"
    /\ UNCHANGED <<gateThread, squelchEnabled, squelchBreak, soloMode, muted, gateClick>>

OtherCloses ==
    /\ squelchLock = "other"
    /\ squelchLock' = "nobody"
    /\ UNCHANGED <<gateThread, squelchEnabled, squelchBreak, gateUser>>

-----------------------------------------------------------------------------
(* SquelchDetector.                                                        *)

ShouldOpen(level, quality) == level = "above" /\ quality = "clean"

\* None, or one of two lengths that the choice of "long enough ago" stands for.
HasCloseHang(level, quality) == quality = "noise" \/ level = "below"

-----------------------------------------------------------------------------
(* SquelchAudioGate.                                                       *)

Newest(s, n) == SubSeq(s, Len(s) - n + 1, Len(s))

\* The history is a ring; a block as long as the ring replaces it.
AppendHistory(g, input) ==
    IF Len(input) >= PreRollFrames
    THEN [g EXCEPT !.history = Newest(input, PreRollFrames),
                   !.historyWrite = 0, !.historyCount = PreRollFrames]
    ELSE [g EXCEPT !.history = [i \in 1 .. PreRollFrames |->
                       LET offset == (i - 1 - g.historyWrite) % PreRollFrames
                       IN IF offset < Len(input) THEN input[offset + 1] ELSE g.history[i]],
                   !.historyWrite = (@ + Len(input)) % PreRollFrames,
                   !.historyCount = IF @ + Len(input) > PreRollFrames THEN PreRollFrames
                                    ELSE @ + Len(input)]

\* Mutant: the history is not taken for a ring.
CopyFromStart(g) == SubSeq(g.history, 1, g.historyCount)

CopyHistory(g) ==
    LET start == IF g.historyCount = PreRollFrames THEN g.historyWrite ELSE 0
    IN [i \in 1 .. g.historyCount |-> g.history[1 + ((start + i - 1) % PreRollFrames)]]

Configured(g) ==
    IF g.history = << >>
    THEN [ResetGate EXCEPT !.history = [i \in 1 .. PreRollFrames |-> 0]]
    ELSE g

\* The gate afterwards, the result, and the audio it asks to be played.
ProcessGate(g, input, enabled, open, discontinuity) ==
    LET ready == Configured(IF discontinuity THEN ResetGate ELSE g)
        emptied == [ready EXCEPT !.wasOpen = open, !.historyWrite = 0, !.historyCount = 0]
        answer(next, result, output) == [gate |-> next, result |-> result, output |-> output]
    IN  CASE ~enabled \/ input = << >> -> answer(ResetGate, "PassThrough", input)
          [] OTHER ->
             CASE open /\ ready.wasOpen -> answer(ready, "PassThrough", input)
               [] open /\ ~ready.wasOpen -> answer(emptied, "Opened", CopyHistory(ready) \o input)
               [] ~open /\ ready.wasOpen ->
                      answer(emptied, "Closed",
                             SubSeq(input, 1, IF FadeFrames < Len(input) THEN FadeFrames ELSE Len(input)))
               [] ~open /\ ~ready.wasOpen -> answer(AppendHistory(ready, input), "Suppress", << >>)

-----------------------------------------------------------------------------
(* DemodulatorThread, one block at a time.                                 *)

\* Demodulates a block, and loads squelchEnabled.
PopAudio(size, discontinuity, retuned) ==
    /\ gateStep = "pop" /\ gateBlocks < MaxGateBlocks
    /\ gateStep' = "squelch"
    /\ gateBlocks' = gateBlocks + 1 /\ gateFrames' = gateFrames + size
    /\ gateBlock' = [NoGateBlock EXCEPT !.audio = [i \in 1 .. size |-> gateFrames + i],
                                        !.discontinuity = discontinuity, !.retuned = retuned,
                                        !.enabled = squelchEnabled]
    /\ UNCHANGED <<squelchEnabled, squelchBreak, squelchLock, gateUser, gate,
                   pendingAudioDiscontinuity, played>>

\* In solo mode, unless the user is busy with a demodulator, only the holder of the lock
\* opens, and becomes the current modem.
OpenSquelch(level, quality, userBusy) ==
    /\ gateStep = "squelch" /\ gateBlock.enabled
    /\ ~squelchBreak /\ ShouldOpen(level, quality)
    /\ IF soloMode /\ ~userBusy
       THEN IF squelchLock = "nobody"
            THEN squelchLock' = "this" /\ currentModem' = "this" /\ squelchBreak' = TRUE
            ELSE UNCHANGED <<squelchLock, currentModem, squelchBreak>>
       ELSE squelchBreak' = TRUE /\ UNCHANGED <<squelchLock, currentModem>>
    /\ gateStep' = "gate"
    /\ UNCHANGED <<squelchEnabled, soloMode, muted, gateClick, gateClicks, gateBlock, gateBlocks,
                   gateFrames, gate, pendingAudioDiscontinuity, played>>

CloseSquelch(level, quality, hangOver) ==
    /\ gateStep = "squelch" /\ gateBlock.enabled
    /\ squelchBreak /\ HasCloseHang(level, quality) /\ hangOver
    /\ squelchLock' = ReleaseSquelchLock(squelchLock)
    /\ squelchBreak' = FALSE
    /\ gateStep' = "gate"
    /\ UNCHANGED <<squelchEnabled, gateUser, gateBlock, gateBlocks, gateFrames, gate,
                   pendingAudioDiscontinuity, played>>

LeaveSquelch(level, quality, hangOver) ==
    /\ gateStep = "squelch"
    /\ gateBlock.enabled => /\ squelchBreak \/ ~ShouldOpen(level, quality)
                            /\ ~(squelchBreak /\ HasCloseHang(level, quality) /\ hangOver)
    /\ gateStep' = "gate"
    /\ UNCHANGED <<squelchEnabled, squelchBreak, squelchLock, gateUser, gateBlock, gateBlocks,
                   gateFrames, gate, pendingAudioDiscontinuity, played>>

\* Loads squelchBreak again for this block, and runs the gate.
RunGate ==
    /\ gateStep = "gate"
    /\ LET squelched == gateBlock.enabled /\ ~squelchBreak
           p == ProcessGate(gate, gateBlock.audio, gateBlock.enabled, ~squelched,
                            gateBlock.discontinuity \/ gateBlock.retuned)
       IN /\ gate' = p.gate
          /\ gateBlock' = [gateBlock EXCEPT !.squelched = squelched, !.result = p.result,
                                            !.playback = p.output]
    /\ gateStep' = "push"
    /\ UNCHANGED <<squelchEnabled, squelchBreak, squelchLock, gateUser, gateBlocks, gateFrames,
                   pendingAudioDiscontinuity, played>>

Heard == ~muted /\ (soloMode => currentModem = "this")

\* Mutant: only a full queue is remembered.
DropForgotten(full) ==
    /\ gateStep = "push"
    /\ gateBlock.result = "Suppress" \/ ~Heard \/ full
    /\ pendingAudioDiscontinuity' = (pendingAudioDiscontinuity \/ full)
    /\ gateStep' = "pop" /\ gateBlock' = NoGateBlock
    /\ UNCHANGED <<squelchEnabled, squelchBreak, squelchLock, gateUser, gateBlocks, gateFrames,
                   gate, played>>

\* Nothing to play, nobody to play it to, or no room: the next block played says so.
DropAudio(full) ==
    /\ gateStep = "push"
    /\ gateBlock.result = "Suppress" \/ ~Heard \/ full
    /\ pendingAudioDiscontinuity' = TRUE
    /\ gateStep' = "pop" /\ gateBlock' = NoGateBlock
    /\ UNCHANGED <<squelchEnabled, squelchBreak, squelchLock, gateUser, gateBlocks, gateFrames,
                   gate, played>>

PushAudio ==
    /\ gateStep = "push"
    /\ gateBlock.result # "Suppress" /\ Heard
    /\ played' = [frames |-> gateBlock.playback,
                  discontinuity |-> gateBlock.discontinuity \/ pendingAudioDiscontinuity,
                  faded |-> gateBlock.result = "Closed"]
    /\ pendingAudioDiscontinuity' = FALSE
    /\ gateStep' = "pop" /\ gateBlock' = NoGateBlock
    /\ UNCHANGED <<squelchEnabled, squelchBreak, squelchLock, gateUser, gateBlocks, gateFrames, gate>>

SquelchGateNext ==
    \/ EnableSquelch \/ DisableSquelch \/ DisableReleases \/ DisableUnbreaks
    \/ ToggleMuted \/ ToggleSoloMode \/ OtherOpens \/ OtherCloses
    \/ \E size \in AudioSizes, discontinuity, retuned \in BOOLEAN : PopAudio(size, discontinuity, retuned)
    \/ \E level \in {"below", "near", "above"}, quality \in {"noise", "fair", "clean"}, b \in BOOLEAN :
          OpenSquelch(level, quality, b) \/ CloseSquelch(level, quality, b) \/ LeaveSquelch(level, quality, b)
    \/ RunGate
    \/ \E full \in BOOLEAN : DropAudio(full)
    \/ PushAudio

SquelchGateSpec == SquelchGateInit /\ [][SquelchGateNext]_gateVars

-----------------------------------------------------------------------------
(* Properties.                                                             *)

SquelchGateTypeOK ==
    /\ gateStep \in {"pop", "squelch", "gate", "push"}
    /\ squelchLock \in {"nobody", "this", "other"}
    /\ gate.historyWrite \in 0 .. PreRollFrames - 1 /\ gate.historyCount \in 0 .. PreRollFrames
    /\ Len(gate.history) \in {0, PreRollFrames}

Contiguous(s) == \A i \in 1 .. Len(s) - 1 : s[i + 1] = s[i] + 1

\* What the gate plays is audio as it was demodulated: the pre-roll comes in order, is the
\* newest there was and joins the block that opens it without a gap or a repeat
\* (SquelchProcessor.cpp:215-248, 295-305).
PreRollJoinsBlock == Contiguous(played.frames)

\* Two blocks played one after the other are contiguous, or the second tells the
\* AudioThread that it is not, or the first was faded out: through squelch, mute, solo
\* mode and full queues (pendingAudioDiscontinuity, DemodulatorThread.cpp:378-396).
GapsAreToldOrFaded ==
    [][\/ played' = played
       \/ played'.frames = << >> \/ played.frames = << >>
       \/ played'.discontinuity \/ played.faded
       \/ Contiguous(played.frames \o played'.frames)]_gateVars

\* What is heard of a demodulator has no seam that is neither told nor faded: not within
\* a block that the gate opens on, and not between blocks.
NoAudibleSeam == []PreRollJoinsBlock /\ GapsAreToldOrFaded
=============================================================================
