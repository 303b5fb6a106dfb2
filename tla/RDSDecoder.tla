----------------------------- MODULE RDSDecoder -----------------------------
(***************************************************************************)
(* The RDS decoder of the FM stereo modem (src/dsp/RDSDecoder.cpp, driven  *)
(* by src/modules/modem/analog/ModemFMStereo.cpp).                         *)
(*                                                                         *)
(* A station sends groups of four blocks: A its identification (PI), B     *)
(* what the group is, C and D characters.  Several timing hypotheses read  *)
(* the same blocks, each in its own cadence; what they decode goes to one  *)
(* state of the station.  Time is counted in blocks of 26 bits.  A block   *)
(* reaches a hypothesis clean, with an error the code may correct          *)
(* (perhaps into a wrong word), as noise, or as noise that looks like A.   *)
(* A cell of text is what one block carries; a block read at the wrong     *)
(* place of a group gives the word Junk of that place.                     *)
(***************************************************************************)
EXTENDS Integers, FiniteSets, SequencesExt

CONSTANTS
    Programmes,      \* what a station sends, over and over: sequences of groups
    Timings,         \* for each hypothesis, whether it may start from a corrected A
    NameCells,       \* cells of the program service name
    TextSegments,    \* segments of a RadioText
    Damages,         \* [sights, wrong]: how a damaged block reaches each hypothesis
    SearchTimeout,   \* RDS_SEARCH_TIMEOUT_SAMPLES, in blocks
    MaxAir,          \* bound: blocks sent
    MaxDisturbances  \* bound: damaged blocks, fades, gaps and retunes

RepeatMin == 2       \* RDS_REPEAT_MIN_SAMPLES, in blocks
TextEnd == 13        \* RDS_TEXT_END
Junk == <<9, [kind |-> "text", version |-> "A", flag |-> 1, segment |-> 1, traffic |-> TRUE,
              announcement |-> TRUE], 9, 9>>

ASSUME RDSAssumption ==
    /\ {NameCells, TextSegments, SearchTimeout, MaxAir, MaxDisturbances} \subseteq Nat \ {0}
    /\ \A d \in Damages : /\ DOMAIN d.sights = DOMAIN Timings
                          /\ Range(d.sights) \subseteq {"clean", "one", "burst", "lost", "A"}
                          /\ d.wrong \in BOOLEAN

VARIABLES
    hypotheses,   \* the BlockStates
    rds,          \* what is known of the station, and the status
    airing,       \* the programme sent, blocks sent, blocks since resetSignal
    disturbances

rdsVars == <<hypotheses, rds, airing, disturbances>>

NoGroup == [words |-> <<0, Junk[2], 0, 0>>, corrected |-> {}, sent |-> 0]
NewBlockState == [expected |-> -1, valid |-> 0, errors |-> 0, whole |-> FALSE, slipped |-> FALSE,
                  group |-> NoGroup, previous |-> NoGroup]

\* heard and proof are no state of the code: what the candidate and the value rest on.
NewCell == [value |-> 32, committed |-> FALSE, candidate |-> 0, at |-> 0, heard |-> {},
            proof |-> {}]
NoName == [i \in 1 .. NameCells |-> NewCell]
ClearRadioText(r) ==
    [r EXCEPT !.text = [i \in 1 .. 2 * TextSegments |-> NewCell], !.flag = <<>>, !.display = <<>>]

Searching == << >>   \* "RDS -"

NewStation == [pi |-> 0, name |-> NoName, text |-> << >>, flag |-> <<>>, display |-> <<>>,
               traffic |-> FALSE, announcement |-> FALSE, synchronized |-> FALSE, last |-> 0,
               status |-> Searching, pending |-> TRUE]

RDSDecoderInit ==
    /\ hypotheses = [h \in DOMAIN Timings |-> NewBlockState]
    /\ rds = ClearRadioText(NewStation)
    /\ airing \in {[programme |-> p, blocks |-> 0, clock |-> 0] : p \in Programmes}
    /\ disturbances = 0

-----------------------------------------------------------------------------
(* The status.                                                             *)

AllCommitted(cells) == \A i \in DOMAIN cells : cells[i].committed
Values(cells) == [i \in DOMAIN cells |-> cells[i].value]

PublishStatus(r, valid) ==
    LET next == <<r.pi, IF AllCommitted(r.name) THEN Values(r.name) ELSE <<>>,
                  r.traffic, r.announcement, r.display>>
    IN  IF valid < 2 \/ r.pi = 0 THEN r
        ELSE [r EXCEPT !.synchronized = TRUE, !.status = next,
                       !.pending = @ \/ next # r.status]

PublishSearching(r) == [r EXCEPT !.status = Searching, !.pending = @ \/ r.status # Searching]

-----------------------------------------------------------------------------
(* A confirmed group.                                                      *)

\* Mutant: any repeat counts.
IsRepeated(clock, at) == clock >= 0

\* The difference is unsigned: a candidate from before resetSignal counts as old.
IsLater(clock, at) == clock < at \/ clock - at >= RepeatMin

StoreCharacter(cell, value, corrected, clock, ground) ==
    LET candidate == [cell EXCEPT !.candidate = value, !.at = clock, !.heard = {ground}]
        repeated == cell.candidate = value /\ cell.at # 0
    IN  CASE ~corrected ->
                 [candidate EXCEPT !.value = value, !.committed = TRUE, !.proof = {ground}]
          [] corrected /\ repeated /\ IsLater(clock, cell.at) ->
                 [cell EXCEPT !.value = value, !.committed = TRUE,
                              !.proof = cell.heard \cup {ground}]
          [] corrected /\ repeated /\ ~IsLater(clock, cell.at) -> cell
          [] OTHER -> candidate

Ground(group, corrected, replayed) ==
    [sent |-> group.sent, exact |-> ~corrected, replayed |-> replayed, pi |-> group.words[1],
     flag |-> <<group.words[2].version, group.words[2].flag>>]

\* The cell i of cells takes the word of a block; it is corrected if that block or B is.
StoreWord(cells, i, group, block, clock, replayed) ==
    LET corrected == group.corrected \cap {1, block} # {}
    IN  [cells EXCEPT ![i] = StoreCharacter(@, group.words[block + 1], corrected, clock,
                                            Ground(group, corrected, replayed))]

\* The text up to its end, once every character of it is in.
Displayed(r, capacity) ==
    LET ends == {i \in 1 .. capacity : r.text[i].value = TextEnd}
        last == IF ends = {} THEN capacity ELSE Min(ends) - 1
        needed == IF ends = {} THEN capacity ELSE last + 1
    IN  IF \A i \in 1 .. needed : r.text[i].committed
        THEN [r EXCEPT !.display = Values(SubSeq(r.text, 1, last))] ELSE r

DecodeRadioText(r, group, clock, replayed) ==
    LET b == group.words[2]
        s == b.segment
        new == r.flag # <<b.version, b.flag>>
        open == IF new THEN [ClearRadioText(r) EXCEPT !.flag = <<b.version, b.flag>>] ELSE r
        C(cells) == StoreWord(cells, 2 * s - 1, group, 2, clock, replayed)
    IN  CASE new /\ 1 \in group.corrected -> r
          [] b.version = "B" ->
                 Displayed([open EXCEPT !.text = StoreWord(@, s, group, 3, clock, replayed)],
                           TextSegments)
          [] OTHER ->
                 Displayed([open EXCEPT !.text =
                               StoreWord(C(@), 2 * s, group, 3, clock, replayed)],
                           2 * TextSegments)

AcceptGroup(r, group, valid, clock, replayed) ==
    LET b == group.words[2]
        cleanB == 1 \notin group.corrected
        here == [r EXCEPT !.last = clock]
        same == IF r.pi = group.words[1] THEN here
                ELSE ClearRadioText([here EXCEPT !.pi = group.words[1], !.name = NoName])
        known == [same EXCEPT !.traffic = IF cleanB THEN b.traffic ELSE @]
    IN  CASE b.kind = "name" ->
                 PublishStatus(
                     [known EXCEPT !.announcement = IF cleanB THEN b.announcement ELSE @,
                                   !.name = StoreWord(@, b.segment, group, 3, clock, replayed)],
                     valid)
          [] b.kind = "text" ->
                 PublishStatus(DecodeRadioText(known, group, clock, replayed), valid)
          [] OTHER -> PublishStatus(known, valid)

\* Two groups in a row with one PI; the first of them counts, too, when the second confirms it.
ConfirmGroup(p, r, clock) ==
    LET samePI == p.valid > 0 /\ p.group.words[1] = p.previous.words[1]
        valid == IF samePI THEN Min({p.valid + 1, 1000}) ELSE 1
        first == IF valid = 2 THEN AcceptGroup(r, p.previous, 2, clock, TRUE) ELSE r
    IN  <<[p EXCEPT !.valid = valid, !.previous = p.group],
          IF valid >= 2 THEN AcceptGroup(first, p.group, valid, clock, FALSE) ELSE r>>

-----------------------------------------------------------------------------
(* A block as one hypothesis sees it.                                      *)

Roles == <<{"A"}, {"B"}, {"C", "C'"}, {"D"}>>   \* whose syndrome fits at each place of a group

\* How far the syndromes of two blocks are apart: 0x168 and 0x1B4 are one bit, 0x0FC and 0x168
\* no short burst, all others are a burst of up to five bits.
Apart(role, other) ==
    CASE role = other -> "exact"
      [] {role, other} = {"C", "D"} -> "one"
      [] {role, other} = {"A", "C"} -> "lost"
      [] OTHER -> "burst"

Sent(a) ==
    LET group == a.programme[((a.blocks \div 4) % Len(a.programme)) + 1]
        place == a.blocks % 4
    IN  [role |-> IF place = 2 /\ group[2].version = "B" THEN "C'"
                  ELSE <<"A", "B", "C", "D">>[place + 1],
         word |-> group[place + 1], group |-> (a.blocks \div 4) + 1]

\* What the hypothesis gets: noise that looks like A is an A of another station.
Seen(sent, sight) ==
    IF sight = "A" THEN [sent EXCEPT !.role = "A", !.word = Junk[1]] ELSE sent

As(seen, sight, role) == IF sight \in {"clean", "A"} THEN Apart(seen.role, role) ELSE sight
IsExactA(seen, sight) == As(seen, sight, "A") = "exact"

\* A single error may be that of C or C'; which of them a burst is judged by, block B says.
Match(seen, sight, place, b) ==
    LET ways == {As(seen, sight, role) : role \in Roles[place + 1]}
        likely == IF place # 2 THEN CHOOSE role \in Roles[place + 1] : TRUE
                  ELSE IF b.version = "B" THEN "C'" ELSE "C"
    IN  CASE "exact" \in ways -> "exact"
          [] "exact" \notin ways /\ "one" \in ways -> "one"
          [] OTHER -> As(seen, sight, likely)

Decoded(seen, sight, place, wrong) ==
    IF seen.role \in Roles[place + 1] /\ (sight \in {"clean", "A"} \/ ~wrong)
    THEN seen.word ELSE Junk[place + 1]

StartAtA(p, seen, sight, wrong) ==
    [p EXCEPT !.group = [@ EXCEPT !.words[1] = Decoded(seen, sight, 0, wrong),
                                  !.corrected = IF IsExactA(seen, sight) THEN {} ELSE {0}],
              !.expected = 1, !.whole = TRUE]

Search(p, seen, sight, wrong, tentative) ==
    IF IsExactA(seen, sight) \/ (tentative /\ As(seen, sight, "A") = "one")
    THEN StartAtA(p, seen, sight, wrong) ELSE p

\* An exact A is better than the cadence; a locked hypothesis keeps it over one miss.
Miss(p, seen, sight) ==
    CASE p.expected # 0 /\ IsExactA(seen, sight) ->
             [StartAtA(p, seen, sight, FALSE) EXCEPT !.errors = 0]
      [] (p.expected = 0 \/ ~IsExactA(seen, sight)) /\ p.valid >= 2 /\ p.errors = 0 ->
             [p EXCEPT !.errors = 1, !.whole = FALSE, !.expected = (@ + 1) % 4]
      [] OTHER -> [p EXCEPT !.expected = -1, !.valid = 0, !.errors = 0, !.whole = FALSE]

TakeBlock(p, seen, word, exact) ==
    LET place == p.expected
        before == IF place = 0 THEN {} ELSE p.group.corrected
    IN  [p EXCEPT !.errors = 0,
                  !.group = [words |-> [@.words EXCEPT ![place + 1] = word],
                             corrected |-> before \cup (IF exact THEN {} ELSE {place}),
                             sent |-> seen.group],
                  !.whole = @ \/ place = 0,
                  !.expected = (@ + 1) % 4]

\* processRecoveredBit, for the 26 bits of a block.
ReadBlock(p, r, seen, sight, wrong, tentative, clock) ==
    LET match == Match(seen, sight, p.expected, p.group.words[2])
        valid == match \in {"exact", "one"} \/ (match = "burst" /\ p.expected # 0 /\ p.valid >= 2)
        taken == TakeBlock(p, seen, Decoded(seen, sight, p.expected, wrong), match = "exact")
    IN  CASE p.expected = -1 -> <<Search(p, seen, sight, wrong, tentative), r>>
          [] p.expected # -1 /\ ~valid -> <<Miss(p, seen, sight), r>>
          [] p.expected = 3 /\ valid /\ p.whole -> ConfirmGroup(taken, r, clock)
          [] OTHER -> <<taken, r>>

-----------------------------------------------------------------------------
(* process: a block of samples goes through every hypothesis in turn.      *)

\* No valid group for a while: every hypothesis has to confirm the station anew.
TimedOut(a, r) == r.synchronized /\ a.clock - r.last > SearchTimeout
Unlocked(hs) == [h \in DOMAIN hs |-> [hs[h] EXCEPT !.valid = 0]]
EndBlock(a, hs, r) ==
    /\ airing' = a
    /\ hypotheses' = IF TimedOut(a, r) THEN Unlocked(hs) ELSE hs
    /\ rds' = IF TimedOut(a, r) THEN PublishSearching([r EXCEPT !.synchronized = FALSE]) ELSE r

Undamaged == [sights |-> [h \in DOMAIN Timings |-> "clean"], wrong |-> FALSE]
After(n) == [airing EXCEPT !.blocks = @ + n, !.clock = @ + n]

\* Out of step with the blocks, until it searches again, a hypothesis gets noise.
Reach(p, damage, h) == IF p.slipped /\ damage.sights[h] = "clean" THEN "lost" ELSE damage.sights[h]
Slipped(hs) == [h \in DOMAIN hs |-> [hs[h] EXCEPT !.slipped = hs[h].expected # -1]]
InStep(p) == [p EXCEPT !.slipped = @ /\ p.expected # -1]

ReceiveBlock(damage) ==
    LET a == After(1)
        Read(acc, h) ==
            LET p == hypotheses[h]
                sight == Reach(p, damage, h)
                read == ReadBlock(p, acc.rds, Seen(Sent(airing), sight), sight,
                                  damage.wrong \/ p.slipped, Timings[h], a.clock)
            IN  [hs |-> Append(acc.hs, InStep(read[1])), rds |-> read[2]]
        end == FoldLeft(Read, [hs |-> << >>, rds |-> rds], [h \in DOMAIN Timings |-> h])
    IN  EndBlock(a, end.hs, end.rds)

OnTheAir(n) == airing.blocks + n <= MaxAir
Disturbed == disturbances < MaxDisturbances /\ disturbances' = disturbances + 1

ReceiveClean == OnTheAir(1) /\ ReceiveBlock(Undamaged) /\ UNCHANGED disturbances
ReceiveDamaged == OnTheAir(1) /\ Disturbed /\ \E damage \in Damages : ReceiveBlock(damage)

\* No signal: no bit is recovered, time passes, and the bits counted are not those sent.
Fade == \E n \in {1, SearchTimeout + 1} :
    OnTheAir(n) /\ Disturbed /\ EndBlock(After(n), Slipped(hypotheses), rds)

ResetSignal(r) ==
    /\ hypotheses' = [h \in DOMAIN Timings |-> NewBlockState]
    /\ rds' = [r EXCEPT !.last = 0]

\* Samples were lost; the station is the same.
Discontinuity ==
    /\ Disturbed
    /\ ResetSignal(rds)
    /\ airing' = [airing EXCEPT !.clock = 0]

Retuned ==
    /\ Disturbed
    /\ ResetSignal(ClearRadioText(NewStation))
    /\ airing' \in {[airing EXCEPT !.programme = p, !.clock = 0] : p \in Programmes}

TakeStatus ==
    /\ rds.pending
    /\ rds' = [rds EXCEPT !.pending = FALSE]
    /\ UNCHANGED <<hypotheses, airing, disturbances>>

RDSDecoderNext ==
    ReceiveClean \/ ReceiveDamaged \/ Fade \/ Discontinuity \/ Retuned \/ TakeStatus

RDSDecoderSpec == RDSDecoderInit /\ [][RDSDecoderNext]_rdsVars

-----------------------------------------------------------------------------
(* Properties.                                                             *)

Cells == Range(rds.name) \cup Range(rds.text)

\* Types: cadences, lock, cells and status (BlockState, TextCell and the station's members).
RDSDecoderTypeOK ==
    /\ DOMAIN hypotheses = DOMAIN Timings
    /\ \A h \in DOMAIN hypotheses :
          /\ hypotheses[h].expected \in -1 .. 3 /\ hypotheses[h].valid \in 0 .. 1000
          /\ hypotheses[h].errors \in 0 .. 1
          /\ {hypotheses[h].whole, hypotheses[h].slipped} \subseteq BOOLEAN
          /\ hypotheses[h].group.corrected \subseteq 0 .. 3
    /\ DOMAIN rds.name = 1 .. NameCells /\ DOMAIN rds.text = 1 .. 2 * TextSegments
    /\ \A c \in Cells : c.committed \in BOOLEAN /\ c.at \in 0 .. MaxAir
    /\ {rds.synchronized, rds.pending, rds.traffic, rds.announcement} \subseteq BOOLEAN
    /\ rds.last \in 0 .. airing.clock
    /\ airing.blocks \in 0 .. MaxAir /\ disturbances \in 0 .. MaxDisturbances

\* What is shown of the station was received: a character stands for one block that came without
\* an error, or for two transmissions that agree, and every block it rests on was of the station
\* and of the message that are shown - although several hypotheses read the same blocks, correct
\* them into the same wrong words and tell the one decoder at different times, although groups
\* are replayed, a station is left for another and a message for the next one, and although
\* samples get lost in between.  The one exception is the code's: the group a hypothesis replays
\* when it is confirmed may be one that another hypothesis has told before.
TextIsEarned ==
    /\ \A c \in Cells : c.committed =>
          \/ \E x \in c.proof : x.exact \/ x.replayed
          \/ \E x, y \in c.proof : x.sent # y.sent
    /\ \A c \in Cells : \A x \in c.proof : x.pi = rds.pi
    /\ \A c \in Range(rds.text) : \A x \in c.proof : x.flag = rds.flag
    /\ rds.status # Searching => rds.status[1] = rds.pi
=============================================================================
