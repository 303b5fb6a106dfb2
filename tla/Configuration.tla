---------------------------- MODULE Configuration ----------------------------
(***************************************************************************)
(* The settings of the program and their life over several sessions        *)
(* (AppConfig.cpp, with AppFrame::OnClose, initConfigurationSettings and   *)
(* the list of remote devices of SDREnumerator): what is loaded at the     *)
(* start, changed while the program runs, and written at its end, when a   *)
(* remote device is added or removed, or not at all.                       *)
(*                                                                         *)
(* One setting stands for those that are stored the same way: theme for    *)
(* the integers of the window node, spectrumAvg for its floats, tips for   *)
(* its flags, ppm for the integers of a device.  The program's copy of     *)
(* the settings that only OnClose() writes back is "live".                 *)
(***************************************************************************)
EXTENDS DataTree

CONSTANTS
    ConfigTexts,     \* texts for a path, a port, an antenna, a setting, a parameter
    Addresses,       \* remote devices as the user types them: texts, and device ids
    Endpoints,       \* the addresses that end in the standard port
    LocalIds,        \* the ids of other devices
    GainNames,       \* texts
    WindowSizes,     \* widths of the frame; 0 when it is minimised on Windows
    MaxEdits, MaxSessions

ASSUME ConfigurationAssumption ==
    /\ ConfigTexts \subseteq Text /\ Addresses \subseteq Text /\ LocalIds \subseteq Text
    /\ GainNames \subseteq Text /\ Endpoints \subseteq Addresses
    /\ WindowSizes \subseteq Nat /\ MaxEdits \in Nat /\ MaxSessions \in Nat

VARIABLES
    config,          \* AppConfig
    live,            \* what the frame, the menus and SDREnumerator hold of it
    configFile,      \* the files config.xml ("base") and config-<name>.xml ("named")
    session,         \* [state, file: the file it saves to, fresh: just started]
    saved,           \* ghost: what was last written to each file, as a sequence of one
    edits, starts

configVars == <<config, live, configFile, session, saved, edits, starts>>

Names == {"base", "named"}

SettingKeys == {"biastee"}

RigModels == {1, 2}

NewDevice ==
    [name |-> NoText, ppm |-> 0, antenna |-> NoText, agc |-> TRUE,
     settings |-> [k \in {} |-> NoText], rigIF |-> [k \in {} |-> 0], gains |-> [k \in {} |-> 0]]

DefaultConfig ==
    [winW |-> 0, tips |-> TRUE, perfMode |-> 1, theme |-> 0, spectrumAvg |-> 6,
     recordingPath |-> NoText, timeLimit |-> 0, devices |-> [k \in {} |-> NewDevice],
     remotes |-> <<>>, manuals |-> <<>>, rigEnabled |-> FALSE, rigModel |-> 1, rigRate |-> 57600,
     rigPort |-> Plain("other", 0)]

-----------------------------------------------------------------------------
(* Writing.                                                                *)

\* The entries of a std::map, in the order of its keys.
Entries(f, Node(_)) == LET keys == SetToSeq(DOMAIN f) IN [k \in DOMAIN keys |-> Node(keys[k])]

Unless(omit, node) == IF omit THEN <<>> ELSE <<node>>

SaveDevice(id, d) ==
    LET SettingNode(k) == TextLeaf(k, d.settings[k])
        RigIFNode(m) == Branch("rig_if", <<Leaf("model", IntElement(m)),
                                           Leaf("sdr_if", IntElement(d.rigIF[m]))>>)
        GainNode(g) == Branch("gain", <<TextLeaf("id", g), Leaf("value", FloatElement(d.gains[g]))>>)
    IN Branch("device",
        <<TextLeaf("id", id), TextLeaf("name", d.name), Leaf("ppm", IntElement(d.ppm)),
          FlagLeaf("agc_mode", d.agc)>>
        \o Unless(d.antenna = NoText, TextLeaf("antenna", d.antenna))
        \o Unless(DOMAIN d.settings = {}, Branch("settings", Entries(d.settings, SettingNode)))
        \o Unless(DOMAIN d.rigIF = {}, Branch("rig_ifs", Entries(d.rigIF, RigIFNode)))
        \o Unless(DOMAIN d.gains = {}, Branch("gains", Entries(d.gains, GainNode))))

\* The window node is left out when the frame has no size, with all the settings in it.
WindowNode(c) ==
    Branch("window",
        <<Leaf("w", IntElement(c.winW)), FlagLeaf("tips", c.tips),
          Leaf("perf_mode", IntElement(c.perfMode)), Leaf("theme", IntElement(c.theme)),
          Leaf("spectrum_avg", FloatElement(c.spectrumAvg))>>)

ManualNode(m) == Branch("device", <<TextLeaf("factory", m.factory), TextLeaf("params", m.params)>>)

SaveConfig(c) ==
    LET DeviceNode(id) == SaveDevice(id, c.devices[id])
    IN Branch("cubicsdr_config",
        Unless(c.winW = 0, WindowNode(c))
        \o <<Branch("recording", <<TextLeaf("path", c.recordingPath),
                                   Leaf("file_time_limit", IntElement(c.timeLimit))>>),
             Branch("devices", Entries(c.devices, DeviceNode))>>
        \o Unless(c.remotes = <<>>,
                  Branch("remote_devices", [k \in DOMAIN c.remotes |-> TextLeaf("remote", c.remotes[k])]))
        \o Unless(c.manuals = <<>>,
                  Branch("manual_devices", [k \in DOMAIN c.manuals |-> ManualNode(c.manuals[k])]))
        \o <<Branch("rig", <<FlagLeaf("enabled", c.rigEnabled), Leaf("model", IntElement(c.rigModel)),
                             Leaf("rate", IntElement(c.rigRate)), TextLeaf("port", c.rigPort)>>)>>)

-----------------------------------------------------------------------------
(* Reading.                                                                *)

\* The later of two entries with the same key stays.
Collect(nodes, Key(_), Value(_)) ==
    [k \in {Key(nodes[i]) : i \in DOMAIN nodes} |->
        Value(nodes[CHOOSE i \in DOMAIN nodes :
                        Key(nodes[i]) = k /\ \A j \in i + 1..Len(nodes) : Key(nodes[j]) # k])]

Under(node, list) == IF HasAnother(node, list) THEN GetNext(node, list).children ELSE <<>>

\* get(std::string&) throws for an antenna, or a name of a gain, that reads like another type.
\* Nothing catches it.
ThrowsAt(node) ==
    \/ HasAnother(node, "antenna") /\ ~IsString(Element(GetNext(node, "antenna")))
    \/ \E g \in ToSet(Under(node, "gains")) : ~IsString(Element(GetNext(g, "id")))

\* Mutant: the first gain is read for each of them.
LoadGainsOnce(node) ==
    LET GainId(g) == Element(GetNext(g, "id")).text
        GainValue(g) == FloatAt(g, "value", 0)
    IN Collect([k \in DOMAIN Under(node, "gains") |-> Under(node, "gains")[1]], GainId, GainValue)

LoadGains(node) ==
    LET GainId(g) == Element(GetNext(g, "id")).text
        GainValue(g) == FloatAt(g, "value", 0)
    IN Collect(SelectSeq(Under(node, "gains"), LAMBDA g : GainId(g) # NoText), GainId, GainValue)

LoadDevice(node) ==
    LET SettingKey(s) == s.name
        SettingText(s) == ElementToString(Element(s))
        Model(r) == IntAt(r, "model", 0)
        IF_(r) == IntAt(r, "sdr_if", 0)
    IN [name |-> TextAt(node, "name", NoText), ppm |-> IntAt(node, "ppm", 0),
        agc |-> FlagAt(node, "agc_mode", TRUE),
        antenna |-> TextAt(node, "antenna", NoText),
        settings |-> Collect(Under(node, "settings"), SettingKey, SettingText),
        rigIF |-> Collect(Under(node, "rig_ifs"), Model, IF_),
        gains |-> LoadGains(node)]

\* A configuration without a list of remote devices takes the devices that look like the standard
\* endpoint for one, whether it is an old one or its last remote device was removed.
LoadRemotes(root, ids) ==
    IF HasAnother(root, "remote_devices")
    THEN LET texts == [k \in DOMAIN Under(root, "remote_devices") |->
                          ElementToString(Element(Under(root, "remote_devices")[k]))]
         IN SelectSeq([k \in DOMAIN texts |->
                          IF \E j \in 1..k - 1 : texts[j] = texts[k] THEN NoText ELSE texts[k]],
                      LAMBDA t : t # NoText)
    ELSE SetToSeq(ids \cap Endpoints)

LoadManual(node) ==
    [factory |-> TextAt(node, "factory", NoText), params |-> TextAt(node, "params", NoText)]

LoadPerfMode(window) == IF IntAt(window, "perf_mode", 1) \in {0, 2} THEN IntAt(window, "perf_mode", 1) ELSE 1

OrElse(n, default) == IF n = 0 THEN default ELSE n

LoadConfig(file) ==
    LET root == Root(file)
        d == DefaultConfig
        NodeOf(name) == IF HasAnother(root, name) THEN GetNext(root, name) ELSE Branch(name, <<>>)
        window == NodeOf("window")
        rig == NodeOf("rig")
        DeviceId(n) == TextAt(n, "id", NoText)
        devices == Collect(Under(root, "devices"), DeviceId, LoadDevice)
    IN [winW |-> IntAt(window, "w", d.winW), tips |-> FlagAt(window, "tips", d.tips),
        perfMode |-> LoadPerfMode(window), theme |-> IntAt(window, "theme", d.theme),
        spectrumAvg |-> FloatAt(window, "spectrum_avg", d.spectrumAvg),
        recordingPath |-> TextAt(NodeOf("recording"), "path", NoText),
        timeLimit |-> IntAt(NodeOf("recording"), "file_time_limit", 0),
        devices |-> devices, remotes |-> LoadRemotes(root, DOMAIN devices),
        manuals |-> [k \in DOMAIN Under(root, "manual_devices") |->
                        LoadManual(Under(root, "manual_devices")[k])],
        rigEnabled |-> FlagAt(rig, "enabled", d.rigEnabled),
        rigModel |-> OrElse(IntAt(rig, "model", d.rigModel), 1),
        rigRate |-> OrElse(IntAt(rig, "rate", d.rigRate), 57600),
        rigPort |-> TextAt(rig, "port", d.rigPort)]

LoadThrows(file) == \E n \in ToSet(Under(Root(file), "devices")) : ThrowsAt(n)

-----------------------------------------------------------------------------
(* Sessions.  The application object loads its configuration when it is    *)
(* constructed, before the command line names another one: load() always   *)
(* reads config.xml, and its copying of config.xml for a new name never    *)
(* happens.                                                                *)

LiveFrom(c) ==
    [theme |-> c.theme, spectrumAvg |-> c.spectrumAvg, remotes |-> c.remotes, manuals |-> c.manuals,
     rigModel |-> c.rigModel, rigPort |-> c.rigPort]

ConfigurationInit ==
    /\ config = DefaultConfig /\ live = LiveFrom(DefaultConfig)
    /\ configFile = [n \in Names |-> NoFile] /\ saved = [n \in Names |-> <<>>]
    /\ session = [state |-> "off", file |-> "base", fresh |-> FALSE]
    /\ edits = 0 /\ starts = 0

StartProgram(n) ==
    /\ session.state = "off" /\ starts < MaxSessions
    /\ starts' = starts + 1
    /\ IF LoadThrows(configFile["base"])
       THEN /\ session' = [state |-> "terminated", file |-> n, fresh |-> FALSE]
            /\ UNCHANGED <<config, live>>
       ELSE /\ session' = [state |-> "running", file |-> n, fresh |-> TRUE]
            /\ config' = LoadConfig(configFile["base"])
            /\ live' = LiveFrom(config')
    /\ UNCHANGED <<configFile, saved, edits>>

WriteConfig(c) ==
    /\ configFile' = [configFile EXCEPT ![session.file] = SaveToFileXML(SaveConfig(c))]
    /\ saved' = [saved EXCEPT ![session.file] = <<c>>]

\* The program ends while the file is being written.
TearConfig ==
    /\ configFile' = [configFile EXCEPT ![session.file] = TornFile]
    /\ saved' = [saved EXCEPT ![session.file] = <<>>]

\* AppFrame::OnClose.  The rig's flags follow their menu items, which the configuration follows.
ClosingConfig(width) ==
    [config EXCEPT !.winW = width, !.theme = live.theme, !.spectrumAvg = live.spectrumAvg,
                   !.manuals = live.manuals, !.remotes = live.remotes,
                   !.rigModel = live.rigModel, !.rigPort = live.rigPort]

OnClose(width) ==
    /\ session.state = "running"
    /\ config' = ClosingConfig(width)
    /\ WriteConfig(config') \/ TearConfig
    /\ session' = [session EXCEPT !.state = "off", !.fresh = FALSE]
    /\ UNCHANGED <<live, edits, starts>>

\* The program crashes, or is closed after its bookmarks could not be read, without saving.
LeaveUnsaved ==
    /\ session.state = "running"
    /\ session' = [session EXCEPT !.state = "off", !.fresh = FALSE]
    /\ UNCHANGED <<config, live, configFile, saved, edits, starts>>

-----------------------------------------------------------------------------
(* Settings are changed in the menus, in the device dialog and by the      *)
(* threads of the device.                                                  *)

Edit ==
    /\ session.state = "running" /\ edits < MaxEdits
    /\ edits' = edits + 1
    /\ session' = [session EXCEPT !.fresh = FALSE]
    /\ UNCHANGED starts

Unsaved == UNCHANGED <<configFile, saved>>

\* What the menus set at once.
InConfig == Edit /\ Unsaved /\ UNCHANGED live

SetRecording ==
    /\ InConfig
    /\ \/ \E t \in ConfigTexts : config' = [config EXCEPT !.recordingPath = t]
       \/ config' = [config EXCEPT !.timeLimit = 60]

SetTips == InConfig /\ config' = [config EXCEPT !.tips = ~@]

SetPerfMode == InConfig /\ \E p \in {0, 2} : config' = [config EXCEPT !.perfMode = p]

EnableRig == InConfig /\ config' = [config EXCEPT !.rigEnabled = ~@]

\* What only OnClose() writes back.
InProgram == Edit /\ Unsaved /\ UNCHANGED config

SetDisplay ==
    /\ InProgram
    /\ \/ live' = [live EXCEPT !.theme = 2]
       \/ \E v \in {10, 13} : live' = [live EXCEPT !.spectrumAvg = v]

SetRig ==
    /\ InProgram
    /\ \/ \E t \in ConfigTexts : live' = [live EXCEPT !.rigPort = t]
       \/ live' = [live EXCEPT !.rigModel = 2]

KeepManual ==
    /\ InProgram
    /\ \E t \in ConfigTexts :
          live' = [live EXCEPT !.manuals = Append(@, [factory |-> Plain("other", 0), params |-> t])]

ForgetManual == InProgram /\ live.manuals # <<>> /\ live' = [live EXCEPT !.manuals = Tail(@)]

\* getDevice() makes the settings of a device it does not know.
DeviceConfigOf(id) == IF id \in DOMAIN config.devices THEN config.devices[id] ELSE NewDevice

Assigned(f, key, value) == [k \in DOMAIN f \cup {key} |-> IF k = key THEN value ELSE f[k]]

SetDevice(id, d) == [config EXCEPT !.devices = Assigned(@, id, d)]

ChangeDevice(id) ==
    /\ Edit /\ Unsaved /\ UNCHANGED live
    /\ LET d == DeviceConfigOf(id)
       IN \/ \E t \in ConfigTexts : config' = SetDevice(id, [d EXCEPT !.name = t])
          \/ config' = SetDevice(id, [d EXCEPT !.ppm = -3, !.agc = FALSE])
          \/ \E t \in ConfigTexts : config' = SetDevice(id, [d EXCEPT !.antenna = t])
          \/ \E t \in ConfigTexts, k \in SettingKeys :
                config' = SetDevice(id, [d EXCEPT !.settings = Assigned(@, k, t)])
          \/ \E m \in RigModels : config' = SetDevice(id, [d EXCEPT !.rigIF = Assigned(@, m, 45)])
          \/ \E g \in GainNames, v \in {105} :
                config' = SetDevice(id, [d EXCEPT !.gains = Assigned(@, g, v)])

\* The list of remote devices is saved as soon as it changes, with the rest as it was at the start.
SaveRemotes(remotes) ==
    /\ live' = [live EXCEPT !.remotes = remotes]
    /\ config' = [config EXCEPT !.remotes = remotes]
    /\ WriteConfig(config')

KeepRemote(a) == Edit /\ a \notin ToSet(live.remotes) /\ SaveRemotes(Append(live.remotes, a))

ForgetRemote(a) == Edit /\ a \in ToSet(live.remotes) /\ SaveRemotes(Remove(live.remotes, a))

\* The device dialog lists the remote devices, which makes settings for each address.
ListRemotes ==
    /\ session.state = "running" /\ ~(ToSet(live.remotes) \subseteq DOMAIN config.devices)
    /\ config' = [config EXCEPT !.devices =
                     [id \in DOMAIN @ \cup ToSet(live.remotes) |-> DeviceConfigOf(id)]]
    /\ session' = [session EXCEPT !.fresh = FALSE]
    /\ Unsaved /\ UNCHANGED <<live, edits, starts>>

ConfigurationNext ==
    \/ \E n \in Names : StartProgram(n)
    \/ \E w \in WindowSizes : OnClose(w)
    \/ LeaveUnsaved
    \/ SetRecording \/ SetTips \/ SetPerfMode \/ EnableRig
    \/ SetDisplay \/ SetRig \/ KeepManual \/ ForgetManual
    \/ \E id \in LocalIds : ChangeDevice(id)
    \/ \E a \in Addresses : KeepRemote(a) \/ ForgetRemote(a)
    \/ ListRemotes

ConfigurationSpec == ConfigurationInit /\ [][ConfigurationNext]_configVars

-----------------------------------------------------------------------------
ConfigurationTypeOK ==
    /\ DOMAIN config = DOMAIN DefaultConfig
    /\ config.recordingPath \in Text /\ config.perfMode \in 0..2 /\ config.rigModel \in RigModels
    /\ \A id \in DOMAIN config.devices : id \in Text /\ config.devices[id].name \in Text
    /\ session.state \in {"off", "running", "terminated"} /\ session.file \in Names
    /\ session.fresh \in BOOLEAN
    /\ edits \in 0..MaxEdits /\ starts \in 0..MaxSessions

WindowReturns(now, then) ==
    /\ now.winW = then.winW /\ now.tips = then.tips /\ now.perfMode = then.perfMode
    /\ now.theme = then.theme /\ now.spectrumAvg = then.spectrumAvg

TextReturns(now, then) == ReturnsAsText(then) => now = then

DeviceReturns(now, then) ==
    /\ TextReturns(now.name, then.name) /\ now.ppm = then.ppm /\ now.agc = then.agc
    /\ now.antenna = then.antenna /\ now.rigIF = then.rigIF /\ now.gains = then.gains
    /\ DOMAIN now.settings = DOMAIN then.settings
    /\ \A k \in DOMAIN then.settings : TextReturns(now.settings[k], then.settings[k])

RemotesReturn(now, then) ==
    IF then # <<>> THEN SelectSeq(then, ReturnsAsText) = SelectSeq(now, LAMBDA a : a \in ToSet(then))
    ELSE ToSet(now) \subseteq Endpoints

Returns(now, then) ==
    /\ then.winW # 0 => WindowReturns(now, then)
    /\ TextReturns(now.recordingPath, then.recordingPath) /\ now.timeLimit = then.timeLimit
    /\ \A id \in DOMAIN then.devices :
          ReturnsAsText(id) =>
              id \in DOMAIN now.devices /\ DeviceReturns(now.devices[id], then.devices[id])
    /\ RemotesReturn(now.remotes, then.remotes)
    /\ Len(now.manuals) = Len(then.manuals)
    /\ \A k \in DOMAIN then.manuals : TextReturns(now.manuals[k].params, then.manuals[k].params)
    /\ now.rigEnabled = then.rigEnabled /\ now.rigModel = then.rigModel
    /\ TextReturns(now.rigPort, then.rigPort)

ReadsLikeAnotherType(t) == t.shape \notin {"none", "other"}

\* What was written to config.xml last is what the next session starts with, setting by setting:
\* a text that reads like a number or like hexadecimal digits may come back as another, without
\* touching any other setting (AppConfig::save, load; DataTree::decodeXMLText); a list of remote
\* devices that became empty may be filled with the endpoints of known devices.  The program
\* cannot start only after such a text was saved as an antenna or as the name of a gain.
SettingsReturn ==
    /\ session.fresh /\ saved["base"] # <<>> => Returns(config, saved["base"][1])
    /\ session.state = "terminated" =>
          \E id \in DOMAIN saved["base"][1].devices :
             LET d == saved["base"][1].devices[id]
             IN ReadsLikeAnotherType(d.antenna) \/ \E g \in DOMAIN d.gains : ReadsLikeAnotherType(g)
=============================================================================
