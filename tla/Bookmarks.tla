------------------------------ MODULE Bookmarks ------------------------------
(***************************************************************************)
(* The bookmarks, the recent modems and the view ranges, the files that    *)
(* they are kept in between two sessions of the program, and the session   *)
(* files (BookmarkMgr.cpp, SessionMgr.cpp, DemodulatorMgr::saveInstance    *)
(* and loadInstance, the menu entries of AppFrame and the dialogs of       *)
(* CubicSDR.cpp that ask what to load when bookmarks.xml is unreadable).   *)
(*                                                                         *)
(* A BookmarkEntry is the node it keeps, whose other fields repeat what    *)
(* the node says.  A node that was made of a modem is named "" and keeps   *)
(* its texts as texts; one that was read is named "node", and every value  *)
(* in it has the type that it was taken for.  A modem is what              *)
(* saveInstance() writes of it; one text stands for all the settings of    *)
(* its kit, two branches of the view for the four, and the frequency, the  *)
(* flag of solo mode and a single number of the view for the header of a   *)
(* session.  The values that older versions wrote with other types are not *)
(* modelled, nor is the flag "active" of a bookmark, which nobody reads.   *)
(* The program may end while bookmarks.xml is written, which leaves it     *)
(* torn.  Everything happens on the GUI thread; a modal dialog stops       *)
(* everything else.                                                        *)
(***************************************************************************)
EXTENDS DataTree

CONSTANTS
    BookmarkModems,    \* the modems that the user may create
    GroupNames,        \* the texts that the user may type for a group
    OutputNames,       \* the names of the audio devices, in the order of their ids
    ModemLabels,       \* the labels that the user may give
    ViewRanges,        \* the ranges that may be in view
    DefaultRanges,     \* the ranges of a new installation
    ForeignFiles,      \* files of other origin that the user may open
    HalfBand,          \* half the sample rate
    RecentsMax,
    MaxBookmarkSteps   \* bounds the edits and the starts of the program together

ASSUME BookmarksAssumption ==
    /\ GroupNames \subseteq Text /\ ModemLabels \subseteq Text /\ OutputNames \in Seq(Text)
    /\ OutputNames # <<>> /\ HalfBand \in Nat /\ RecentsMax \in Nat \ {0}
    /\ MaxBookmarkSteps \in Nat

VARIABLES
    lists,             \* the BookmarkMgr
    modemList,         \* the modems, which one is current, and what else a session keeps
    disk,              \* the files
    phase,             \* of the program: off, running, or the dialog that is open
    kept,              \* ghost: the root of the last bookmarks.xml that was completed
    torn,              \* ghost: the saves of bookmarks.xml since then that were not
    bookmarkSteps

bookmarkVars == <<lists, modemList, disk, phase, kept, torn, bookmarkSteps>>

Dialogs == {"askBackup", "askLastLoaded", "catastrophe"}

Branches == {"active", "range"}

Unnamed == Plain("other", 0)

FileNames == {"main", "backup", "lastLoaded", "failed", "exported", "session"}

NoLists ==
    [groups |-> [g \in {} |-> <<>>], sorted |-> {}, recents |-> <<>>, ranges |-> <<>>,
     rangesSorted |-> FALSE, collapsed |-> {}, branches |-> Branches \ {"range"}]

NoModemList == [modems |-> <<>>, current |-> 0, center |-> 0, view |-> <<>>, solo |-> FALSE]

-----------------------------------------------------------------------------
(* A modem as a node.                                                      *)

SaveInstance(m, isCurrent) ==
    Branch("modem",
        <<Leaf("bandwidth", IntElement(m.bandwidth)), Leaf("frequency", IntElement(m.frequency)),
          TextLeaf("type", m.type), WideLeaf("user_label", m.label),
          Leaf("squelch_level", FloatElement(m.level)), FlagLeaf("squelch_enabled", m.squelched),
          TextLeaf("output_device", m.device), Leaf("gain", FloatElement(m.gain)),
          FlagLeaf("muted", m.muted)>>
        \o (IF m.locked THEN <<FlagLeaf("delta_lock", TRUE), Leaf("delta_ofs", IntElement(m.offset))>>
                        ELSE <<>>)
        \o (IF isCurrent THEN <<FlagLeaf("active", TRUE)>> ELSE <<>>)
        \o (IF m.option = NoText THEN <<>> ELSE <<Branch("settings", <<TextLeaf("option", m.option)>>)>>))

\* A text that is no wide string is taken as it is, and a number is no text at all.
GetSafeWstringValue(node) ==
    LET e == Element(node) IN IF IsWideString(e) \/ IsString(e) THEN e.text ELSE NoText

Label(node) ==
    IF HasAnother(node, "user_label") THEN GetSafeWstringValue(GetNext(node, "user_label")) ELSE NoText

ValueOf(node, child) ==
    IF node.name = "" THEN TextElement("string", child.text) ELSE Element(child)

Named(node, name) == [node EXCEPT !.name = name]

\* A sequence of one modem, or of none when a value has the wrong type: the exception leaves
\* loadInstance() before the modem is made.
ModemOfNode(node) ==
    LET device == ValueOf(node, GetNext(node, "output_device"))
        type == ValueOf(node, GetNext(node, "type"))
        squelched == FlagAt(node, "squelch_enabled", FALSE)
        locked == FlagAt(node, "delta_lock", FALSE)
        known == \E i \in DOMAIN OutputNames : OutputNames[i] = device.text
    IN IF HasAnother(node, "output_device") /\ ~IsString(device) THEN <<>>
       ELSE <<[bandwidth |-> IntAt(node, "bandwidth", 0), frequency |-> IntAt(node, "frequency", 0),
               type |-> IF type.type = "string" THEN type.text ELSE Plain("other", 1),
               label |-> Label(node),
               level |-> IF squelched THEN FloatAt(node, "squelch_level", 0) ELSE 0,
               squelched |-> squelched, gain |-> FloatAt(node, "gain", 10),
               muted |-> FlagAt(node, "muted", FALSE), locked |-> locked,
               offset |-> IF locked THEN IntAt(node, "delta_ofs", 0) ELSE 0,
               device |-> IF HasAnother(node, "output_device") /\ known
                          THEN device.text ELSE OutputNames[1],
               option |-> IF HasAnother(node, "settings")
                          THEN ElementToString(ValueOf(node, GetNext(node, "settings").children[1]))
                          ELSE NoText]>>

\* The modem that is a bookmark's live version: the last with the same type, label, frequency
\* and bandwidth.  0 when there is none.
MatchingModem(ml, node) ==
    LET Matches(m) ==
            /\ IntAt(node, "frequency", 0) = m.frequency /\ IntAt(node, "bandwidth", 0) = m.bandwidth
            /\ Element(GetNext(node, "type")).text = m.type
            /\ Label(node) = m.label
    IN SelectLastInSeq(ml.modems, Matches)

DemodToBookmarkEntry(m) == Named(SaveInstance(m, FALSE), "")

SaveModem(ml, i) == SaveInstance(ml.modems[i], i = ml.current)

\* setActiveDemodulator() for good makes the modem under the mouse current, if there is one, and
\* only then the one it was called for.
ChooseAsActive(ml, i) == {[ml EXCEPT !.current = c] : c \in {i} \cup DOMAIN ml.modems}

-----------------------------------------------------------------------------
(* bookmarks.xml as a tree.                                                *)

\* What cloning writes of a node that was read: every value by the type it was taken for.
Reencoded(node) ==
    [node EXCEPT !.children = [k \in DOMAIN @ |->
        [@[k] EXCEPT !.text = NodeToXML(Element(node.children[k])),
                     !.children = [j \in DOMAIN @ |->
                        [@[j] EXCEPT !.text = NodeToXML(Element(node.children[k].children[j]))]]]]]

RangeNode(r) ==
    Branch("range", <<WideLeaf("label", r.label), Leaf("freq", IntElement(r.freq)),
                      Leaf("start", IntElement(r.start)), Leaf("end", IntElement(r.end))>>)

Yes == Plain("other", 2)
No == Plain("other", 3)

BookmarkNode(ml, node) ==
    LET i == MatchingModem(ml, node) IN IF i = 0 THEN Named(node, "modem") ELSE SaveModem(ml, i)

GroupNode(l, ml, g) ==
    Branch("group",
        <<TextLeaf("@name", g), TextLeaf("@expanded", IF g \in l.collapsed THEN No ELSE Yes)>>
        \o [k \in DOMAIN l.groups[g] |-> BookmarkNode(ml, l.groups[g][k])])

\* The modems that run at the end are saved as recent ones, before the older ones.
RecentNodes(l, ml) ==
    [i \in DOMAIN ml.modems |-> SaveModem(ml, i)]
    \o [k \in DOMAIN l.recents |-> Named(l.recents[k], "modem")]

BookmarksTree(l, ml) ==
    LET names == SetToSeq(DOMAIN l.groups)
        branches == SetToSeq(Branches)
    IN Branch("cubicsdr_bookmarks",
        <<Branch("branches", [k \in DOMAIN branches |-> FlagLeaf(branches[k], branches[k] \in l.branches)]),
          Branch("ranges", [k \in DOMAIN l.ranges |-> RangeNode(l.ranges[k])]),
          Branch("modems", [k \in DOMAIN names |-> GroupNode(l, ml, names[k])]),
          Branch("recent_modems", RecentNodes(l, ml))>>)

AddBookmark(l, g, node) ==
    [l EXCEPT !.groups = (g :> Append(IF g \in DOMAIN @ THEN @[g] ELSE <<>>, node)) @@ @,
              !.sorted = @ \ {g}]

TrimRecents(recents) == IF Len(recents) > RecentsMax THEN Tail(recents) ELSE recents

AddRecent(l, node) == [l EXCEPT !.recents = TrimRecents(Append(@, node))]

AddRange(l, r) == [l EXCEPT !.ranges = Append(@, r), !.rangesSorted = FALSE]

\* A bookmark needs three of its values; without one it is left out, and the file has failed.
NodeToBookmark(node) ==
    IF \A name \in {"frequency", "type", "bandwidth"} : HasAnother(node, name)
    THEN <<Named(Reencoded(node), "node")>> ELSE <<>>

LoadRange(l, node) ==
    AddRange(l, [label |-> Element(GetNext(node, "label")).text, freq |-> IntAt(node, "freq", 0),
                 start |-> IntAt(node, "start", 0), end |-> IntAt(node, "end", 0)])

\* A group comes back with its first bookmark: one without bookmarks does not.
LoadGroup(l, node) ==
    LET name == TextAt(node, "@name", Unnamed)
        expanded == TextAt(node, "@expanded", Yes) = Yes
        Load(lk, modem) == IF NodeToBookmark(modem) = <<>> THEN lk
                           ELSE AddBookmark(lk, name, NodeToBookmark(modem)[1])
    IN FoldLeft(Load, [l EXCEPT !.collapsed = IF expanded THEN @ \ {name} ELSE @ \cup {name}],
                ChildrenNamed(node, "modem"))

LoadRecent(l, node) ==
    IF NodeToBookmark(node) = <<>> THEN l ELSE AddRecent(l, NodeToBookmark(node)[1])

Children(node, name) == IF HasAnother(node, name) THEN GetNext(node, name).children ELSE <<>>

LoadBranches(l, root) ==
    IF ~HasAnother(root, "branches") THEN l
    ELSE [l EXCEPT !.branches = {b \in Branches : FlagAt(GetNext(root, "branches"), b, b # "range")}]

IsBookmarkFile(file) == IsLoadable(file) /\ Root(file).name = "cubicsdr_bookmarks"

\* A file that is no bookmark file leaves the lists alone; any other replaces them.
LoadFromFile(l, file) ==
    LET root == Root(file)
        cleared == [l EXCEPT !.groups = NoLists.groups, !.recents = <<>>, !.ranges = <<>>, !.sorted = {}]
        ranged == FoldLeft(LoadRange, LoadBranches(cleared, root), Children(root, "ranges"))
        grouped == FoldLeft(LoadGroup, ranged, Children(root, "modems"))
    IN IF ~IsBookmarkFile(file) THEN l
       ELSE FoldLeft(LoadRecent, grouped, Children(root, "recent_modems"))

IsWhole(file) ==
    /\ IsBookmarkFile(file)
    /\ \A k \in DOMAIN Children(Root(file), "recent_modems") :
           NodeToBookmark(Children(Root(file), "recent_modems")[k]) # <<>>
    /\ \A k \in DOMAIN Children(Root(file), "modems") :
           LET modems == ChildrenNamed(Children(Root(file), "modems")[k], "modem") IN
           \A j \in DOMAIN modems : NodeToBookmark(modems[j]) # <<>>

LoadDefaultRanges(l) == FoldLeft(AddRange, l, DefaultRanges)

ResetBookmarks(l) ==
    LoadDefaultRanges([l EXCEPT !.groups = NoLists.groups, !.recents = <<>>, !.ranges = <<>>, !.sorted = {}])

-----------------------------------------------------------------------------
(* A session file as a tree.                                               *)

SessionTree(ml) ==
    Branch("cubicsdr_session",
        <<Branch("header", <<Leaf("center_freq", IntElement(ml.center)), FlagLeaf("solo_mode", ml.solo)>>
                \o [k \in DOMAIN ml.view |-> Leaf("view_state", IntElement(ml.view[k]))]),
          Branch("demodulators", [i \in DOMAIN ml.modems |-> SaveModem(ml, i)])>>)

\* Reading stops at the first modem with a value of the wrong type.
LoadDemodulator(acc, node) ==
    LET loaded == ModemOfNode(node) IN
    IF acc.threw \/ ~HasAnother(node, "bandwidth") \/ ~HasAnother(node, "frequency") THEN acc
    ELSE IF loaded = <<>> THEN [acc EXCEPT !.threw = TRUE]
    ELSE [modems |-> acc.modems \o loaded, threw |-> FALSE,
          active |-> IF HasAnother(node, "active") THEN Len(acc.modems) + 1 ELSE acc.active]

LoadSessionModems(root) ==
    FoldLeft(LoadDemodulator, [modems |-> <<>>, threw |-> FALSE, active |-> 0],
             Children(root, "demodulators"))

\* terminateAll() makes a recent modem of every one, the last first.
RecentsOfAll(l, ml) ==
    FoldLeft(AddRecent, l, Reverse([i \in DOMAIN ml.modems |-> DemodToBookmarkEntry(ml.modems[i])]))

\* The modems that were loaded before an error stay, without the frequency and the view.
LoadSession(ml, root) ==
    LET header == GetNext(root, "header")
        read == LoadSessionModems(root)
        begun == [ml EXCEPT !.modems = read.modems, !.current = 0, !.solo = FlagAt(header, "solo_mode", FALSE)]
    IN IF read.threw THEN begun
       ELSE [begun EXCEPT
               !.center = IntAt(header, "center_freq", @),
               !.view = IF HasAnother(header, "view_state") THEN <<IntAt(header, "view_state", 0)>> ELSE <<>>,
               !.current = IF read.active # 0 THEN read.active ELSE Len(read.modems)]

-----------------------------------------------------------------------------
(* The program.                                                            *)

BookmarksInit ==
    /\ lists = NoLists
    /\ modemList = NoModemList
    /\ disk = [f \in FileNames |-> NoFile]
    /\ phase = "off"
    /\ kept = NoFile
    /\ torn = 0
    /\ bookmarkSteps = 0

\* What the program asks when it could not load what it wanted.
AskFor(files) ==
    IF disk.backup # NoFile /\ "backup" \in files THEN "askBackup"
    ELSE IF disk.lastLoaded # NoFile /\ "lastLoaded" \in files THEN "askLastLoaded"
    ELSE "catastrophe"

IsNewInstallation == \A f \in {"main", "lastLoaded", "backup"} : disk[f] = NoFile

LaunchProgram ==
    /\ phase = "off" /\ bookmarkSteps < MaxBookmarkSteps
    /\ bookmarkSteps' = bookmarkSteps + 1
    /\ lists' = IF IsNewInstallation THEN LoadDefaultRanges(lists) ELSE LoadFromFile(lists, disk.main)
    /\ phase' = IF IsNewInstallation \/ IsWhole(disk.main) THEN "running"
                ELSE AskFor({"backup", "lastLoaded"})
    /\ disk' = IF IsWhole(disk.main) THEN [disk EXCEPT !.lastLoaded = disk.main]
               ELSE IF IsBookmarkFile(disk.main) THEN [disk EXCEPT !.failed = disk.main]
               ELSE disk
    /\ UNCHANGED <<modemList, kept, torn>>

\* The user agrees to load the backup, or what was loaded last, or to leave without saving.
AnswerOK ==
    /\ phase \in Dialogs
    /\ IF phase = "catastrophe"
       THEN /\ phase' = "off"
            /\ lists' = NoLists
       ELSE LET file == IF phase = "askBackup" THEN disk.backup ELSE disk.lastLoaded IN
            /\ lists' = LoadFromFile(lists, file)
            /\ phase' = IF IsWhole(file) THEN "running"
                        ELSE AskFor(IF phase = "askBackup" THEN {"lastLoaded"} ELSE {})
    /\ UNCHANGED <<modemList, disk, kept, torn, bookmarkSteps>>

\* Or goes on without.
AnswerCancel ==
    /\ phase \in Dialogs
    /\ phase' = "running"
    /\ UNCHANGED <<lists, modemList, disk, kept, torn, bookmarkSteps>>

Leave ==
    /\ phase' = "off"
    /\ lists' = NoLists
    /\ modemList' = NoModemList

\* Mutant: only a backup that is not there yet is made.
CopyBackupOnce ==
    IF disk.main = NoFile \/ disk.backup # NoFile THEN disk ELSE [disk EXCEPT !.backup = disk.main]

\* The backup is made of the file that is about to be replaced.
CopyBackup == IF disk.main = NoFile THEN disk ELSE [disk EXCEPT !.backup = disk.main]

\* AppFrame::OnClose() saves the bookmarks last; the program may be stopped while it does.
SaveAndLeave ==
    LET root == BookmarksTree(lists, modemList) IN
    /\ phase = "running"
    /\ Leave
    /\ \/ /\ disk' = [CopyBackup EXCEPT !.main = SaveToFileXML(root)]
          /\ kept' = <<root>>
          /\ torn' = 0
       \/ /\ disk' = [CopyBackup EXCEPT !.main = TornFile]
          /\ torn' = torn + 1
          /\ UNCHANGED kept
       \/ /\ disk.main # NoFile
          /\ disk' = [disk EXCEPT !.backup = TornFile]
          /\ torn' = torn + 1
          /\ UNCHANGED kept
    /\ UNCHANGED bookmarkSteps

CrashProgram ==
    /\ phase # "off"
    /\ Leave
    /\ UNCHANGED <<disk, kept, torn, bookmarkSteps>>

-----------------------------------------------------------------------------
(* What the user does.                                                     *)

EditBookmarks ==
    /\ phase = "running" /\ bookmarkSteps < MaxBookmarkSteps
    /\ bookmarkSteps' = bookmarkSteps + 1
    /\ UNCHANGED <<phase, kept, torn>>

EditLists == EditBookmarks /\ UNCHANGED <<modemList, disk>>

EditModems == EditBookmarks /\ UNCHANGED <<lists, disk>>

StartModem ==
    /\ EditModems
    /\ \E m \in BookmarkModems :
           modemList' = [modemList EXCEPT !.modems = Append(@, m), !.current = Len(modemList.modems) + 1]

\* Another device or label for a modem that runs, perhaps after it was bookmarked.
ChangeModem ==
    /\ EditModems
    /\ \E i \in DOMAIN modemList.modems :
          \/ \E d \in DOMAIN OutputNames :
                 modemList' = [modemList EXCEPT !.modems[i].device = OutputNames[d]]
          \/ \E t \in ModemLabels : modemList' = [modemList EXCEPT !.modems[i].label = t]

DoRemoveActive ==
    /\ EditBookmarks
    /\ \E i \in DOMAIN modemList.modems :
          /\ lists' = AddRecent(lists, DemodToBookmarkEntry(modemList.modems[i]))
          /\ modemList' = [modemList EXCEPT !.modems = RemoveAt(@, i), !.current = 0]
    /\ UNCHANGED disk

DoBookmarkActive ==
    /\ EditLists
    /\ \E i \in DOMAIN modemList.modems, g \in GroupNames \cup {Unnamed} :
           lists' = AddBookmark(lists, g, DemodToBookmarkEntry(modemList.modems[i]))

RemoveRecent(l, k) == [l EXCEPT !.recents = RemoveAt(@, k)]

DoBookmarkRecent ==
    /\ EditLists
    /\ \E k \in DOMAIN lists.recents, g \in GroupNames \cup {Unnamed} :
           lists' = RemoveRecent(AddBookmark(lists, g, lists.recents[k]), k)

RemoveBookmark(l, g, k) == [l EXCEPT !.groups[g] = RemoveAt(@, k)]

MoveBookmark ==
    /\ EditLists
    /\ \E g \in DOMAIN lists.groups : \E k \in DOMAIN lists.groups[g], to \in GroupNames \cup {Unnamed} :
          /\ to # g
          /\ lists' = [RemoveBookmark(AddBookmark(lists, to, lists.groups[g][k]), g, k)
                          EXCEPT !.sorted = @ \ {g}]

DoRemoveBookmark ==
    /\ EditLists
    /\ \E g \in DOMAIN lists.groups : \E k \in DOMAIN lists.groups[g] :
           lists' = RemoveBookmark(lists, g, k)

AddGroup ==
    /\ EditLists
    /\ \E g \in GroupNames \ DOMAIN lists.groups : lists' = [lists EXCEPT !.groups = (g :> <<>>) @@ @]

WithoutGroup(groups, g) == [h \in DOMAIN groups \ {g} |-> groups[h]]

\* What is known of the order of a group outlives the group.
RemoveGroup ==
    /\ EditLists
    /\ \E g \in DOMAIN lists.groups : lists' = [lists EXCEPT !.groups = WithoutGroup(@, g)]

RenameGroup ==
    /\ EditLists
    /\ \E g \in DOMAIN lists.groups, n \in GroupNames :
          /\ n # g
          /\ lists' = [lists EXCEPT !.groups =
                 (n :> ((IF n \in DOMAIN @ THEN @[n] ELSE <<>>) \o @[g])) @@ WithoutGroup(@, g)]

DoRemoveRecent ==
    /\ EditLists
    /\ \/ \E k \in DOMAIN lists.recents : lists' = RemoveRecent(lists, k)
       \/ lists' = [lists EXCEPT !.recents = <<>>]

WithLabel(node, t) ==
    [node EXCEPT !.children = [k \in DOMAIN @ |->
        IF @[k].name = "user_label" THEN WideLeaf("user_label", t) ELSE @[k]]]

\* A file of other origin may hold no label to change; changing it fails.
SetLabel ==
    /\ EditLists
    /\ \E t \in ModemLabels :
          \/ \E g \in DOMAIN lists.groups : \E k \in DOMAIN lists.groups[g] :
                 /\ HasAnother(lists.groups[g][k], "user_label")
                 /\ lists' = [lists EXCEPT !.groups[g][k] = WithLabel(@, t)]
          \/ \E k \in DOMAIN lists.recents :
                 /\ HasAnother(lists.recents[k], "user_label")
                 /\ lists' = [lists EXCEPT !.recents[k] = WithLabel(@, t)]

EditRanges ==
    /\ EditLists
    /\ \/ \E r \in ViewRanges : lists' = AddRange(lists, r)
       \/ \E k \in DOMAIN lists.ranges :
             \/ lists' = [lists EXCEPT !.ranges = RemoveAt(@, k)]
             \/ \E r \in ViewRanges :
                   lists' = [lists EXCEPT !.ranges[k] = [r EXCEPT !.label = lists.ranges[k].label]]

ActivateRange ==
    /\ EditModems
    /\ \E k \in DOMAIN lists.ranges :
           modemList' = [modemList EXCEPT !.center = lists.ranges[k].freq,
               !.view = <<lists.ranges[k].start + ((lists.ranges[k].end - lists.ranges[k].start) \div 2)>>]

SetSolo == EditModems /\ modemList' = [modemList EXCEPT !.solo = ~@]

ToggleBranch ==
    /\ EditLists
    /\ \/ \E b \in Branches :
             lists' = [lists EXCEPT !.branches = IF b \in @ THEN @ \ {b} ELSE @ \cup {b}]
       \/ \E g \in DOMAIN lists.groups :
             lists' = [lists EXCEPT !.collapsed = IF g \in @ THEN @ \ {g} ELSE @ \cup {g}]

\* A device that reads as a number is no text: nothing catches that exception.
CannotLoad(node) == MatchingModem(modemList, node) = 0 /\ ModemOfNode(node) = <<>>

\* A modem is made of the bookmark unless its like runs.
ActivateBookmark(node) ==
    LET i == MatchingModem(modemList, node)
        Tuned(ml, f) == IF f - ml.center \in -HalfBand..HalfBand THEN ml ELSE [ml EXCEPT !.center = f]
        ml == IF i = 0 THEN [modemList EXCEPT !.modems = @ \o ModemOfNode(node)] ELSE modemList
        target == IF i = 0 THEN Len(ml.modems) ELSE i
    IN /\ ~CannotLoad(node)
       /\ modemList' \in ChooseAsActive(Tuned(ml, ml.modems[target].frequency), target)

DoActivate ==
    /\ EditBookmarks
    /\ \/ /\ \E g \in DOMAIN lists.groups : \E k \in DOMAIN lists.groups[g] :
                 ActivateBookmark(lists.groups[g][k])
          /\ UNCHANGED lists
       \/ \E k \in DOMAIN lists.recents :
              ActivateBookmark(lists.recents[k]) /\ lists' = RemoveRecent(lists, k)
    /\ UNCHANGED disk

FailToActivate ==
    /\ phase = "running"
    /\ \E node \in UNION {ToSet(lists.groups[g]) : g \in DOMAIN lists.groups} \cup ToSet(lists.recents) :
           CannotLoad(node)
    /\ Leave
    /\ UNCHANGED <<disk, kept, torn, bookmarkSteps>>

\* The sequence in the order of the numbers that Key gives.
InOrder(s, Key(_)) == SortSeq(s, LAMBDA a, b : Key(a) < Key(b))

FrequencyOf(node) == IntAt(node, "frequency", 0)

\* What the view shows: getBookmarks() sorts a group that is not known to be sorted.
GetBookmarks(l, g) == IF g \in l.sorted THEN l.groups[g] ELSE InOrder(l.groups[g], FrequencyOf)

GetRanges(l) == IF l.rangesSorted THEN l.ranges ELSE InOrder(l.ranges, LAMBDA r : r.freq)

RefreshLists ==
    /\ phase = "running"
    /\ lists' = [lists EXCEPT !.groups = [g \in DOMAIN @ |-> GetBookmarks(lists, g)],
                              !.sorted = @ \cup DOMAIN lists.groups,
                              !.ranges = GetRanges(lists), !.rangesSorted = TRUE]
    /\ UNCHANGED <<modemList, disk, phase, kept, torn, bookmarkSteps>>

ExportBookmarks ==
    /\ EditBookmarks
    /\ disk' = [disk EXCEPT !.exported = SaveToFileXML(BookmarksTree(lists, modemList))]
    /\ UNCHANGED <<lists, modemList>>

ImportBookmarks ==
    /\ EditLists
    /\ \E file \in ForeignFiles \cup {disk.exported} : lists' = LoadFromFile(lists, file)

DoResetBookmarks == EditLists /\ lists' = ResetBookmarks(lists)

SaveSession ==
    /\ EditBookmarks
    /\ disk' = [disk EXCEPT !.session = SaveToFileXML(SessionTree(modemList))]
    /\ UNCHANGED <<lists, modemList>>

OpenSession ==
    /\ EditBookmarks
    /\ IsLoadable(disk.session)
    /\ lists' = RecentsOfAll(lists, modemList)
    /\ modemList' = LoadSession(modemList, Root(disk.session))
    /\ UNCHANGED disk

BookmarksNext ==
    \/ LaunchProgram \/ AnswerOK \/ AnswerCancel \/ SaveAndLeave \/ CrashProgram
    \/ StartModem \/ ChangeModem \/ DoRemoveActive \/ DoBookmarkActive \/ DoBookmarkRecent
    \/ MoveBookmark \/ DoRemoveBookmark \/ AddGroup \/ RemoveGroup \/ RenameGroup
    \/ DoRemoveRecent \/ SetLabel \/ EditRanges \/ ActivateRange \/ SetSolo \/ ToggleBranch
    \/ DoActivate \/ FailToActivate \/ RefreshLists \/ ExportBookmarks \/ ImportBookmarks \/ DoResetBookmarks
    \/ SaveSession \/ OpenSession

-----------------------------------------------------------------------------
(* Properties.                                                             *)

BookmarksTypeOK ==
    /\ DOMAIN lists = DOMAIN NoLists /\ DOMAIN lists.groups \subseteq Text
    /\ Len(lists.recents) <= RecentsMax /\ lists.branches \subseteq Branches
    /\ DOMAIN modemList = DOMAIN NoModemList /\ modemList.current \in 0..Len(modemList.modems)
    /\ DOMAIN disk = FileNames
    /\ phase \in {"off", "running"} \cup Dialogs
    /\ torn \in Nat /\ bookmarkSteps \in 0..MaxBookmarkSteps

\* Two nodes are read as the same bookmark.
SameBookmark(a, b) ==
    /\ FrequencyOf(a) = FrequencyOf(b) /\ IntAt(a, "bandwidth", 0) = IntAt(b, "bandwidth", 0)
    /\ Label(a) = Label(b)
    /\ LET x == Named(a, "node") IN
       ModemOfNode(x) # <<>> => ModemOfNode(x) = ModemOfNode(Named(b, "node"))

SameBookmarks(s, t) == Len(s) = Len(t) /\ \A k \in DOMAIN s : SameBookmark(s[k], t[k])

\* What the program would hold if it were closed now and started again.
NextLists == LoadFromFile(NoLists, SaveToFileXML(BookmarksTree(lists, modemList)))

\* A name that two groups would come back under.
NameAsRead(g) == ElementToString(DecodeXMLText(g))

Merges(g) == \E h \in DOMAIN lists.groups \ {g} : NameAsRead(h) = NameAsRead(g)

\* Nothing that the user keeps is lost between two sessions.  Every bookmark comes back, with the
\* device of its live version, in a group of the same name if that name is read as the text it
\* was (BookmarkMgr.cpp:45-67 and 181-205); of the recent modems and those that run, all but the
\* first of the file beyond the limit (69-77 and 207-220); so do ranges and what is unfolded.
ListsReturn ==
    LET running == [i \in DOMAIN modemList.modems |-> DemodToBookmarkEntry(modemList.modems[i])]
        recents == running \o lists.recents
        next == NextLists
        Live(node) ==
            LET i == MatchingModem(modemList, node) IN IF i = 0 THEN node ELSE running[i]
        AsSaved(g) == [k \in DOMAIN lists.groups[g] |-> Live(lists.groups[g][k])]
    IN /\ \A g \in DOMAIN lists.groups :
             lists.groups[g] # <<>> =>
                 /\ NameAsRead(g) \in DOMAIN next.groups
                 /\ ReturnsAsText(g) => NameAsRead(g) = g
                 /\ ~Merges(g) => SameBookmarks(next.groups[NameAsRead(g)], AsSaved(g))
       /\ SameBookmarks(next.recents,
              SubSeq(recents, Len(recents) - Len(next.recents) + 1, Len(recents)))
       /\ Len(next.recents) >= Len(recents) \/ Len(next.recents) = RecentsMax
       /\ next.ranges = lists.ranges
       /\ next.branches = lists.branches

\* A save of bookmarks.xml that was cut short costs nothing (91-97, "Hopefully leave at least a
\* readable backup in case of failure"): what was saved before is the file or its backup, and the
\* user is asked to fall back on anything older only after two such saves in a row.
SavesAreRecoverable ==
    torn <= 1 /\ kept # NoFile =>
        /\ disk.main = kept \/ disk.backup = kept
        /\ phase \notin {"askLastLoaded", "catastrophe"}

\* The modems of a session come back as they were, but for the level of a squelch that is off,
\* unless a device has a name that reads as a number (SessionMgr.cpp:134-162, 189-192).
SessionReturns ==
    LET read == LoadSessionModems(SessionTree(modemList))
        IsKept(m) == IsString(DecodeXMLText(m.device))  \* its device is read as a text
        AsKept(m) == [m EXCEPT !.level = IF m.squelched THEN @ ELSE 0,
                               !.offset = IF m.locked THEN @ ELSE 0,
                               !.option = ElementToString(DecodeXMLText(@))]
    IN (\A i \in DOMAIN modemList.modems : IsKept(modemList.modems[i])) =>
           /\ ~read.threw
           /\ read.modems = [i \in DOMAIN modemList.modems |-> AsKept(modemList.modems[i])]
           /\ read.active = modemList.current

BookmarksReturn == (phase = "running" => ListsReturn /\ SessionReturns) /\ SavesAreRecoverable
=============================================================================
