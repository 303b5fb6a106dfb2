-------------------------------- MODULE Parts --------------------------------
(***************************************************************************)
(* The parts of the program that share no state with each other, checked   *)
(* in one run.  A behaviour picks one part and is a behaviour of that part *)
(* alone: interleaving parts that have no variable in common would only    *)
(* multiply their states, and every property below is about the variables  *)
(* of a single part, which the other parts leave as they are.  No fairness *)
(* is assumed.                                                             *)
(***************************************************************************)
EXTENDS Recording, SquelchGate, Receiver, DeviceSettings, Tuning, Visuals, RigControl,
    Configuration, Bookmarks, BookmarkTree, TunerDigits, ModemPanel, RDSDecoder

VARIABLE part   \* the part whose behaviour this is

vars == <<recordingVars, gateVars, receiverVars, settingsVars, tuningVars, visualVars,
          rigVars, configVars, bookmarkVars, treeVars, tunerVars, panelVars, rdsVars, part>>

\* Mono and stereo audio.
MCAudioFormats == {[channels |-> 1, rate |-> 1], [channels |-> 2, rate |-> 1]}

\* What the user may choose from for each kind of setting.
MCOffered == [antenna |-> {2}, offset |-> {1}, rate |-> {2, 6}, ppm |-> {1}, freq |-> {4},
              gain |-> {2}, setting |-> {2}]
MCDefaults == [antenna |-> 1, offset |-> 0, rate |-> 2, ppm |-> 0, freq |-> 2, gain |-> 1,
               setting |-> 1]

\* The queues of AppFrame's canvases and of the threads that feed them, made small.
MCVisualInput == [direct |-> 1, lines |-> 2]
MCCanvas == [direct |-> <<1, 2>>, lines |-> <<2>>]

\* Texts that are no number, one that reads like one, and an IPv4 address, which does, too.
MCConfigTexts == {Plain("other", 1), Plain("hex", 3)}
MCAddresses == {Plain("other", 2), [Plain("decimal", 105) EXCEPT !.form = "odd"]}
MCEndpoints == {Plain("other", 2)}
MCLocalIds == {Plain("other", 3)}
MCGainNames == {Plain("other", 4), Plain("other", 5), Plain("digits", 1)}

\* Two modems: one with a label that reads like a number, one on a device whose name does.
MCOutputNames == <<Plain("other", 52), Plain("digits", 7)>>
MCModem(frequency, label, device, option) ==
    [frequency |-> frequency, bandwidth |-> 20, type |-> Plain("other", 50), label |-> label,
     level |-> -255, squelched |-> frequency = 1, device |-> device, gain |-> 10, muted |-> FALSE,
     locked |-> frequency = 1, offset |-> 3, option |-> option]
MCBookmarkModems ==
    {MCModem(1, Plain("hex", 51), MCOutputNames[1], Plain("decimal", 15)),
     MCModem(5, NoText, MCOutputNames[2], NoText)}
MCModemLabels == {Plain("other", 61)}

\* Two names that are read as the same number.
MCGroupNames == {Plain("decimal", 1455), [Plain("decimal", 1455) EXCEPT !.form = "fixed"]}

MCRange(n) == [label |-> Plain("other", 70 + n), freq |-> n, start |-> n - 1, end |-> n + 1]
MCViewRanges == {MCRange(3)}
MCDefaultRanges == <<MCRange(7)>>

\* A file of another kind, and one whose modem says no bandwidth and no label.
MCForeignModem == <<Leaf("frequency", IntElement(3)), TextLeaf("type", Plain("other", 50))>>
MCForeignFiles ==
    {<<Branch("other", <<>>)>>,
     <<Branch("cubicsdr_bookmarks", <<Branch("modems", <<Branch("group",
          <<Branch("modem", MCForeignModem),
            Branch("modem", Append(MCForeignModem, Leaf("bandwidth", IntElement(20))))>>)>>)>>)>>}

\* No modem, one with a delta lock whose frequencies are not round, and a sideband.
MCTunerModems ==
    {NoTuned,
     [NoTuned EXCEPT !.exists = TRUE, !.freq = 3000009, !.bandwidth = 1003, !.locked = TRUE],
     [NoTuned EXCEPT !.exists = TRUE, !.freq = 99876543, !.bandwidth = 12345, !.sideband = TRUE]}
MCTunerHovers ==
    {[state |-> "freq", index |-> 1], [state |-> "bw", index |-> 2],
     [state |-> "center", index |-> 3], [state |-> "ppm", index |-> 2]}
MCTypedTexts ==
    {<<EntryText("", 99, FALSE)>>, <<NoEntry>>,
     <<EntryText("M", 90000000, FALSE), EntryText("M", 88500000, TRUE)>>,
     <<EntryText("K", 9000000, FALSE), EntryText("K", 9010000, FALSE)>>}
MCGainLimits == <<0, 50>>

\* A meter at its bottom, and an average rate below what the dialog takes.
MCMeterInputs == {[meter |-> "lps", value |-> 0], [meter |-> "avg", value |-> 5]}
\* Of the rates up to 100, in IEEE single precision.
MCGrowingRates == {6, 11, 14, 15, 19, 23, 24, 30, 35, 37, 44, 56, 60, 61, 66, 75, 76, 82, 91, 92, 93,
                   94, 95, 96}

\* Both are received at once; the second one is beyond the edge of the view that is zoomed in.
MCPanelPlaces == <<100000000, 100900000>>

\* A station with a name and a text that ends in the middle, and one that sends two messages.
MCBlockB(kind, version, flag) == [kind |-> kind, version |-> version, flag |-> flag, segment |-> 1,
                                  traffic |-> FALSE, announcement |-> FALSE]
MCProgrammes ==
    {<<<<1, MCBlockB("name", "A", 0), 0, 2>>, <<1, MCBlockB("text", "A", 0), 3, 13>>>>,
     <<<<1, MCBlockB("text", "B", 0), 1, 4>>, <<1, MCBlockB("text", "B", 1), 1, 5>>>>}

\* A fixed phase and an adaptive one; an error both correct into a wrong word, and one of either.
MCTimings == <<FALSE, TRUE>>
MCDamages ==
    {[sights |-> <<s, s>>, wrong |-> TRUE] : s \in {"one", "burst", "lost", "A"}} \cup
    {[sights |-> s, wrong |-> FALSE] :
        s \in {<<"one", "lost">>, <<"clean", "lost">>, <<"lost", "burst">>, <<"lost", "clean">>}}

Init ==
    /\ part \in {"recording", "squelch gate", "receiver", "device settings", "tuning",
                "visuals", "rig", "configuration", "bookmarks", "bookmark tree",
                "tuner digits", "modem panel", "RDS"}
    /\ RecordingInit /\ SquelchGateInit /\ ReceiverInit /\ SettingsInit /\ TuningInit
    /\ VisualsInit /\ RigInit /\ ConfigurationInit /\ BookmarksInit /\ BookmarkTreeInit
    /\ TunerDigitsInit /\ ModemPanelInit /\ RDSDecoderInit
    \* No second copy of the other parts for what only one of them chooses at first.
    /\ part = "visuals" \/ way = "direct"
    /\ part = "rig" \/ (dial = 1 /\ rigConfig.modes = {"control", "follow"})
    /\ part = "tuner digits" \/ tuned = NoTuned
    /\ part = "modem panel" \/ (focus.current # NoModem /\ \A s \in PanelSlots : slots[s].live)
    /\ part = "RDS" \/ airing.programme[1][2].kind = "name"

Next ==
    \/ /\ part = "recording"
       /\ UNCHANGED <<gateVars, receiverVars, settingsVars, tuningVars, visualVars, rigVars,
                      configVars, bookmarkVars, treeVars, tunerVars, panelVars, rdsVars,
                      part>>
       /\ RecordingNext
    \/ /\ part = "squelch gate"
       /\ UNCHANGED <<recordingVars, receiverVars, settingsVars, tuningVars, visualVars,
                      rigVars, configVars, bookmarkVars, treeVars, tunerVars, panelVars,
                      rdsVars, part>>
       /\ SquelchGateNext
    \/ /\ part = "receiver"
       /\ UNCHANGED <<recordingVars, gateVars, settingsVars, tuningVars, visualVars,
                      rigVars, configVars, bookmarkVars, treeVars, tunerVars, panelVars,
                      rdsVars, part>>
       /\ ReceiverNext
    \/ /\ part = "device settings"
       /\ UNCHANGED <<recordingVars, gateVars, receiverVars, tuningVars, visualVars,
                      rigVars, configVars, bookmarkVars, treeVars, tunerVars, panelVars,
                      rdsVars, part>>
       /\ SettingsNext
    \/ /\ part = "tuning"
       /\ UNCHANGED <<recordingVars, gateVars, receiverVars, settingsVars, visualVars,
                      rigVars, configVars, bookmarkVars, treeVars, tunerVars, panelVars,
                      rdsVars, part>>
       /\ TuningNext
    \/ /\ part = "visuals"
       /\ UNCHANGED <<recordingVars, gateVars, receiverVars, settingsVars, tuningVars,
                      rigVars, configVars, bookmarkVars, treeVars, tunerVars, panelVars,
                      rdsVars, part>>
       /\ VisualsNext
    \/ /\ part = "rig"
       /\ UNCHANGED <<recordingVars, gateVars, receiverVars, settingsVars, tuningVars,
                      visualVars, configVars, bookmarkVars, treeVars, tunerVars, panelVars,
                      rdsVars, part>>
       /\ RigNext
    \/ /\ part = "configuration"
       /\ UNCHANGED <<recordingVars, gateVars, receiverVars, settingsVars, tuningVars,
                      visualVars, rigVars, bookmarkVars, treeVars, tunerVars, panelVars,
                      rdsVars, part>>
       /\ ConfigurationNext
    \/ /\ part = "bookmarks"
       /\ UNCHANGED <<recordingVars, gateVars, receiverVars, settingsVars, tuningVars,
                      visualVars, rigVars, configVars, treeVars, tunerVars, panelVars,
                      rdsVars, part>>
       /\ BookmarksNext
    \/ /\ part = "bookmark tree"
       /\ UNCHANGED <<recordingVars, gateVars, receiverVars, settingsVars, tuningVars,
                      visualVars, rigVars, configVars, bookmarkVars, tunerVars, panelVars,
                      rdsVars, part>>
       /\ BookmarkTreeNext
    \/ /\ part = "tuner digits"
       /\ UNCHANGED <<recordingVars, gateVars, receiverVars, settingsVars, tuningVars,
                      visualVars, rigVars, configVars, bookmarkVars, treeVars, panelVars,
                      rdsVars, part>>
       /\ TunerDigitsNext
    \/ /\ part = "modem panel"
       /\ UNCHANGED <<recordingVars, gateVars, receiverVars, settingsVars, tuningVars,
                      visualVars, rigVars, configVars, bookmarkVars, treeVars, tunerVars,
                      rdsVars, part>>
       /\ ModemPanelNext
    \/ /\ part = "RDS"
       /\ UNCHANGED <<recordingVars, gateVars, receiverVars, settingsVars, tuningVars,
                      visualVars, rigVars, configVars, bookmarkVars, treeVars, tunerVars,
                      panelVars, part>>
       /\ RDSDecoderNext

Spec == Init /\ [][Next]_vars

\* The part's variables have their types; those of the others are as they were at first.
TypeOK ==
    CASE part = "recording" -> RecordingTypeOK
      [] part = "squelch gate" -> SquelchGateTypeOK
      [] part = "receiver" -> ReceiverTypeOK
      [] part = "device settings" -> SettingsTypeOK
      [] part = "tuning" -> TuningTypeOK
      [] part = "visuals" -> VisualsTypeOK
      [] part = "rig" -> RigTypeOK
      [] part = "configuration" -> ConfigurationTypeOK
      [] part = "bookmarks" -> BookmarksTypeOK
      [] part = "bookmark tree" -> BookmarkTreeTypeOK
      [] part = "tuner digits" -> TunerDigitsTypeOK
      [] part = "modem panel" -> ModemPanelTypeOK
      [] part = "RDS" -> RDSDecoderTypeOK

\* What tells two states apart: the other parts are as they were at first.
PartView ==
    CASE part = "recording" -> <<part, recordingVars>>
      [] part = "squelch gate" -> <<part, gateVars>>
      [] part = "receiver" -> <<part, receiverVars>>
      [] part = "device settings" -> <<part, settingsVars>>
      [] part = "tuning" -> <<part, tuningVars>>
      [] part = "visuals" -> <<part, visualVars>>
      [] part = "rig" -> <<part, rigVars>>
      [] part = "configuration" -> <<part, configVars>>
      [] part = "bookmarks" -> <<part, bookmarkVars>>
      [] part = "bookmark tree" -> <<part, treeVars>>
      [] part = "tuner digits" -> <<part, tunerVars>>
      [] part = "modem panel" -> <<part, panelVars>>
      [] part = "RDS" -> <<part, rdsVars>>
=============================================================================
