---------------------------- MODULE BookmarkTree ----------------------------
(***************************************************************************)
(* The tree of bookmarks and the panel under it (BookmarkView.cpp).  The   *)
(* program's lists change under the tree, whoever changes them raises a    *)
(* flag, and a timer rebuilds the branches whose flag is up.  An item of   *)
(* the tree is deleted and made again by every rebuild; the selection, the *)
(* panel, the drag and the modal prompts refer to items across rebuilds.   *)
(*                                                                         *)
(* A modem is a number that grows with its age, a bookmark entry and a     *)
(* range are numbers, too, and what identifies a modem or an entry on the  *)
(* screen (its frequency, type and label) is one value, its title.  The    *)
(* view is shown all the time.  The order of items is left out, as is the  *)
(* place of a bookmark that is twice in a group.                           *)
(***************************************************************************)
EXTENDS Integers, SequencesExt

CONSTANTS
    Titles,
    FoundTitles,       \* those that a search finds
    TreeGroups,        \* the names of groups
    UnnamedGroup,
    TreeRecentsMax,
    MaxTreeModems, MaxTreeEntries, MaxTreeRanges,
    MaxTreeClicks      \* bound: what the user and other threads do

ASSUME BookmarkTreeAssumption ==
    /\ FoundTitles \subseteq Titles /\ UnnamedGroup \in TreeGroups
    /\ TreeRecentsMax \in Nat \ {0}
    /\ {MaxTreeModems, MaxTreeEntries, MaxTreeRanges, MaxTreeClicks} \subseteq Nat

VARIABLES
    book,              \* the lists of the BookmarkMgr
    air,               \* the modems of the DemodulatorMgr
    tree,              \* what the branches show, and what is unfolded
    pick,              \* the selected item, and the branch to select when that one is gone
    panel,             \* whose properties the panel shows, and the groups that it offers
    raised,            \* doUpdateActive, doUpdateBookmarks
    tick,              \* how far the timer's handler is: idle | built | between | refreshed
    search,
    nextUp,            \* nextEnt, nextDemod and nextGroup
    carried,           \* dragItem
    prompt,            \* the modal dialog, and what it asks about
    missed,            \* ghost: a flag was raised between a rebuild and its clearing
    treeClicks

treeVars == <<book, air, tree, pick, panel, raised, tick, search, nextUp, carried, prompt, missed,
              treeClicks>>

-----------------------------------------------------------------------------
(* Items.                                                                  *)

Item(kind, of, group) == [kind |-> kind, of |-> of, group |-> group]

NoItem == Item("none", 0, "")

BranchNames == {"active", "range", "bookmark", "recent"}

BranchItem(b) == Item("branch", 0, b)

\* The items that are shown.
TreeItems(t) ==
    {BranchItem(b) : b \in BranchNames}
    \cup {Item("active", d, "") : d \in DOMAIN t.active}
    \cup {Item("range", r, "") : r \in t.range}
    \cup {Item("recent", e, "") : e \in DOMAIN t.recent}
    \cup {Item("group", 0, g) : g \in DOMAIN t.groups}
    \cup UNION {{Item("bookmark", e, g) : e \in DOMAIN t.groups[g]} : g \in DOMAIN t.groups}

\* The branch that an item's rebuild belongs to.
BranchOf(item) == IF item.kind \in {"group", "bookmark"} THEN "bookmark" ELSE item.kind

IsFound(title) == search => title \in FoundTitles

Titled(set, title) == [x \in {y \in set : IsFound(title[y])} |-> title[x]]

\* What an item refers to.  An item that was deleted meanwhile may still read as before; it may
\* also be overwritten, and then the program may do anything: here, nothing.
Recalled(held) == IF held.fresh THEN {held.item} ELSE {held.item, NoItem}

Nobody == [item |-> NoItem, fresh |-> TRUE]

Spoiled(held, branches) == [held EXCEPT !.fresh = @ /\ BranchOf(held.item) \notin branches]

-----------------------------------------------------------------------------
(* The panel.                                                              *)

HasLabel == {"active", "recent", "bookmark", "group", "range"}

\* Only a modem, a recent modem and a bookmark offer the groups that there are now.
PanelOf(item) ==
    [kind |-> item.kind, of |-> item.of, group |-> item.group,
     offers |-> IF item.kind \in {"active", "recent", "bookmark"} THEN DOMAIN book.groups ELSE {}]

NoPanel == PanelOf(NoItem)

ActiveSelection(d) == IF d = 0 THEN NoPanel ELSE PanelOf(Item("active", d, ""))

BookmarkSelection(b, e) == [kind |-> "bookmark", of |-> e, group |-> "", offers |-> DOMAIN b.groups]

\* The branch of the modems has no properties, and keeps its buttons hidden.
PanelFor(item) == IF item = BranchItem("active") THEN NoPanel ELSE PanelOf(item)

-----------------------------------------------------------------------------
(* The lists and the modems.                                               *)

\* setActiveDemodulator() for good makes the modem that it was called with before the current one.
SetForGood(a, d) == [a EXCEPT !.current = IF a.context # 0 THEN a.context ELSE d, !.context = d]

SetForNow(a, d) == [a EXCEPT !.context = d]

MakeCurrent(a, d) == SetForGood(SetForNow(a, 0), d)

ANewEntry == Len(book.title) + 1

Put(b, g, e) ==
    [b EXCEPT !.groups = [h \in DOMAIN @ \cup {g} |->
        IF h = g THEN {e} \cup (IF g \in DOMAIN @ THEN @[g] ELSE {}) ELSE @[h]]]

LatestRecents(recents) == IF Len(recents) > TreeRecentsMax THEN Tail(recents) ELSE recents

WithoutRecent(b, e) == [b EXCEPT !.recents = RemoveFirst(@, e)]

\* An entry that is in two groups is taken out of one of them.
Move(b, e, g) ==
    LET homes == {h \in DOMAIN b.groups : e \in b.groups[h]} IN
    IF homes = {} THEN {b}
    ELSE {IF h = g THEN b ELSE Put([b EXCEPT !.groups[h] = @ \ {e}], g, e) : h \in homes}

\* deleteThread() makes a recent modem of it, and another one when it is called twice.
RemoveModem(d) ==
    /\ book' = [book EXCEPT !.recents = LatestRecents(Append(@, ANewEntry)), !.title = Append(@, air.title[d])]
    /\ air' = [air EXCEPT !.modems = @ \ {d}, !.on = @ \ {d}, !.current = 0, !.context = 0]

RenameGroupTo(b, g, n) ==
    IF g \notin DOMAIN b.groups THEN b
    ELSE [b EXCEPT !.groups = [h \in (DOMAIN @ \ {g}) \cup {n} |->
             IF h = n THEN @[g] \cup (IF n \in DOMAIN @ THEN @[n] ELSE {}) ELSE @[h]]]

BookmarkTreeInit ==
    /\ book = [groups |-> [g \in {UnnamedGroup} |-> {1}], recents |-> <<2>>, ranges |-> {1}, title |-> <<1, 2>>]
    /\ air = [modems |-> {1}, title |-> <<1>>, on |-> {1}, current |-> 1, context |-> 0]
    /\ tree = [active |-> [d \in {} |-> 0], range |-> {}, recent |-> [e \in {} |-> 0],
               groups |-> [g \in {} |-> {}], open |-> BranchNames \ {"range"}, closed |-> {}]
    /\ pick = [item |-> NoItem, fallback |-> ""]
    /\ panel = NoPanel
    /\ raised = {"active", "bookmarks"}
    /\ tick = "idle"
    /\ search = FALSE
    /\ nextUp = [entry |-> 0, modem |-> 0, group |-> ""]
    /\ carried = Nobody
    /\ prompt = [asks |-> "nothing", held |-> Nobody]
    /\ missed = FALSE
    /\ treeClicks = 0

-----------------------------------------------------------------------------
(* The timer.                                                              *)

\* The item to select after the branches of modems, ranges and recent modems were rebuilt, as the
\* loops over them find it.
SelectedAfter(t) ==
    LET was == pick.item
        restored ==
            IF nextUp.modem \in DOMAIN t.active THEN Item("active", nextUp.modem, "")
            ELSE IF "active" \in t.open /\ air.current \in DOMAIN t.active
                 THEN Item("active", air.current, "")
            ELSE IF was.kind = "range" /\ was.of \in t.range /\ ~search /\ "range" \in t.open THEN was
            ELSE IF was.kind = "recent" /\ was.of \in DOMAIN t.recent /\ (search \/ "recent" \in t.open)
                 THEN was
            ELSE NoItem
    IN IF nextUp.entry \in DOMAIN t.recent THEN Item("recent", nextUp.entry, "") ELSE restored

\* A selection that was deleted leaves its branch to be selected later.
PickAfter(t, item, branches) ==
    IF item # NoItem THEN [item |-> item, fallback |-> ""]
    ELSE IF BranchOf(pick.item) \in branches /\ pick.item.kind # "branch"
    THEN [item |-> NoItem, fallback |-> BranchOf(pick.item)]
    ELSE pick

\* doUpdateActiveList(), up to the moment the flag is cleared.  The panel is rebuilt for the
\* current modem, whatever is selected: onTreeSelect() skips events while a flag is up.
DoUpdateActiveList ==
    LET t == [tree EXCEPT !.active = Titled(air.modems, air.title), !.range = book.ranges,
                          !.recent = Titled(ToSet(book.recents), book.title)]
    IN /\ tick = "idle" /\ "active" \in raised
       /\ tree' = t
       /\ pick' = PickAfter(t, SelectedAfter(t), {"active", "range", "recent"})
       /\ nextUp' = [nextUp EXCEPT !.entry = IF @ \in DOMAIN t.recent THEN 0 ELSE @,
                                   !.modem = IF @ \in DOMAIN t.active THEN 0 ELSE @]
       /\ panel' = ActiveSelection(air.current)
       /\ carried' = Spoiled(carried, {"active", "range", "recent"})
       /\ prompt' = [prompt EXCEPT !.held = Spoiled(@, {"active", "range", "recent"})]
       /\ tick' = "built"
       /\ missed' = FALSE
       /\ UNCHANGED <<book, air, raised, search, treeClicks>>

ClearUpdateActive ==
    /\ tick = "built"
    /\ raised' = raised \ {"active"}
    /\ tick' = "between"
    /\ UNCHANGED <<book, air, tree, pick, panel, search, nextUp, carried, prompt, missed, treeClicks>>

\* refreshBookmarks() and the selection of what it found.
RefreshBookmarks ==
    LET t == [tree EXCEPT !.groups = [g \in DOMAIN book.groups |-> Titled(book.groups[g], book.title)]]
        was == pick.item
        IsShownIn(g, e) == g \in DOMAIN t.groups /\ e \in DOMAIN t.groups[g]
        groups == {Item("group", 0, g) : g \in DOMAIN t.groups \cap {nextUp.group, was.group}}
        again == {Item("bookmark", was.of, g) :
                     g \in {h \in DOMAIN t.groups : /\ was.kind = "bookmark" /\ IsShownIn(h, was.of)
                                                    /\ search \/ h \notin tree.closed}}
        coming == {Item("bookmark", nextUp.entry, g) : g \in {h \in DOMAIN t.groups : IsShownIn(h, nextUp.entry)}}
        found == IF coming \cup again # {} THEN coming \cup again
                 ELSE groups \ (IF was.kind = "bookmark" THEN {Item("group", 0, was.group)} \ {Item("group", 0, nextUp.group)} ELSE {})
    IN /\ "bookmarks" \in raised
       /\ tick = "between" \/ (tick = "idle" /\ "active" \notin raised)
       /\ tree' = t
       /\ IF found = {} THEN pick' = PickAfter(t, NoItem, {"bookmark"})
          ELSE \E item \in found : pick' = [item |-> item, fallback |-> ""]
       /\ nextUp' = [nextUp EXCEPT
              !.entry = IF coming # {} THEN 0 ELSE @,
              !.group = IF @ \in DOMAIN t.groups /\ ~(was.kind = "group" /\ was.group = @) THEN "" ELSE @]
       /\ carried' = Spoiled(carried, {"bookmark"})
       /\ prompt' = [prompt EXCEPT !.held = Spoiled(@, {"bookmark"})]
       /\ tick' = "refreshed"
       /\ UNCHANGED <<book, air, panel, raised, search, missed, treeClicks>>

\* Mutant: one flag for both.
ClearBothUpdates ==
    /\ tick = "refreshed"
    /\ raised' = {}
    /\ tick' = "idle"
    /\ UNCHANGED <<book, air, tree, pick, panel, search, nextUp, carried, prompt, missed, treeClicks>>

ClearUpdateBookmarks ==
    /\ tick = "refreshed"
    /\ raised' = raised \ {"bookmarks"}
    /\ tick' = "idle"
    /\ UNCHANGED <<book, air, tree, pick, panel, search, nextUp, carried, prompt, missed, treeClicks>>

EndTick ==
    /\ tick = "between" /\ "bookmarks" \notin raised
    /\ tick' = "idle"
    /\ UNCHANGED <<book, air, tree, pick, panel, raised, search, nextUp, carried, prompt, missed, treeClicks>>

\* The tree selects the branch of a deleted selection when the program is idle.
SelectBranchWhenIdle ==
    /\ tick = "idle" /\ pick.item = NoItem /\ pick.fallback # ""
    /\ pick' = [item |-> BranchItem(pick.fallback), fallback |-> ""]
    /\ panel' = IF raised # {} THEN panel ELSE PanelFor(BranchItem(pick.fallback))
    /\ UNCHANGED <<book, air, tree, raised, tick, search, nextUp, carried, prompt, missed, treeClicks>>

Timer ==
    \/ DoUpdateActiveList \/ ClearUpdateActive \/ RefreshBookmarks \/ ClearUpdateBookmarks
    \/ EndTick \/ SelectBranchWhenIdle

-----------------------------------------------------------------------------
(* The user.                                                               *)

\* A modal prompt or a drag in progress keeps the user from everything else.
UserClicks ==
    /\ tick = "idle" /\ prompt.asks = "nothing" /\ carried = Nobody /\ treeClicks < MaxTreeClicks
    /\ treeClicks' = treeClicks + 1
    /\ UNCHANGED <<tick, missed>>

Raise(flags) == raised' = raised \cup flags

Chosen == pick.item

OnTreeSelect(item) ==
    /\ UserClicks
    /\ item # Chosen
    /\ pick' = [item |-> item, fallback |-> ""]
    /\ IF raised # {} THEN UNCHANGED <<panel, air, raised>>
       ELSE /\ panel' = PanelFor(item)
            /\ IF item.kind = "active" /\ item.of \in air.on
               THEN air' = MakeCurrent(air, item.of) /\ Raise({"active"})
               ELSE UNCHANGED <<air, raised>>
    /\ UNCHANGED <<book, tree, search, nextUp, carried, prompt>>

\* The item is made current even if it stands for a modem that was just removed.
ActivateModem ==
    /\ UserClicks
    /\ Chosen.kind = "active" /\ Chosen.of \notin air.on
    /\ air' = SetForGood(air, Chosen.of)
    /\ nextUp' = [nextUp EXCEPT !.modem = Chosen.of]
    /\ Raise({"active"})
    /\ UNCHANGED <<book, tree, pick, panel, search, carried, prompt>>

\* The last modem with the title of the entry, or a new one; nothing is selected any more.
ActivateBookmarkItem(e) ==
    LET same == {d \in air.modems : air.title[d] = book.title[e]}
        d == IF same = {} THEN Len(air.title) + 1 ELSE CHOOSE x \in same : \A y \in same : y <= x
        a == IF same = {} THEN [air EXCEPT !.modems = @ \cup {d}, !.title = Append(@, book.title[e])] ELSE air
    IN /\ d <= MaxTreeModems
       /\ air' = SetForGood([a EXCEPT !.on = @ \cup {d}], d)
       /\ nextUp' = [nextUp EXCEPT !.modem = d]
       /\ pick' = [item |-> NoItem, fallback |-> ""]
       /\ Raise({"active"})
       /\ UNCHANGED <<tree, panel, search, carried, prompt>>

OnActivateBookmark ==
    /\ UserClicks
    /\ Chosen.kind = "bookmark"
    /\ ActivateBookmarkItem(Chosen.of)
    /\ UNCHANGED book

OnActivateRecent ==
    /\ UserClicks
    /\ Chosen.kind = "recent"
    /\ book' = WithoutRecent(book, Chosen.of)
    /\ ActivateBookmarkItem(Chosen.of)

OnRemoveActive ==
    /\ UserClicks
    /\ Chosen.kind = "active"
    /\ ANewEntry <= MaxTreeEntries
    /\ RemoveModem(Chosen.of)
    /\ Raise({"active"})
    /\ UNCHANGED <<tree, pick, panel, search, nextUp, carried, prompt>>

\* Start or stop a recording, edit the frequency: the item's modem becomes the current one.
OnDoubleClick ==
    /\ UserClicks
    /\ Chosen.kind = "active"
    /\ air' = MakeCurrent(air, Chosen.of)
    /\ Raise({"active"})
    /\ UNCHANGED <<book, tree, pick, panel, search, nextUp, carried, prompt>>

OnRemoveRecent ==
    /\ UserClicks
    /\ \/ Chosen.kind = "recent" /\ book' = WithoutRecent(book, Chosen.of)
       \/ panel = PanelOf(BranchItem("recent")) /\ book' = [book EXCEPT !.recents = <<>>]
    /\ Raise({"active"})
    /\ UNCHANGED <<air, tree, pick, panel, search, nextUp, carried, prompt>>

OnAddRange ==
    /\ UserClicks
    /\ panel = PanelOf(BranchItem("range"))
    /\ \E r \in 1..MaxTreeRanges \ book.ranges : book' = [book EXCEPT !.ranges = @ \cup {r}]
    /\ Raise({"active"})
    /\ UNCHANGED <<air, tree, pick, panel, search, nextUp, carried, prompt>>

\* What was typed goes to the selected item, whatever the panel shows.
OnLabelText ==
    LET x == Chosen.of
    IN /\ UserClicks
       /\ panel.kind \in HasLabel
       /\ \/ /\ Chosen.kind = "active"
             /\ \E t \in Titles : air' = [air EXCEPT !.title[x] = t]
             /\ Raise({"active"})
             /\ UNCHANGED <<book, nextUp>>
          \/ /\ Chosen.kind \in {"recent", "bookmark"}
             /\ \E t \in Titles : book' = [book EXCEPT !.title[x] = t]
             /\ Raise(IF Chosen.kind = "recent" THEN {"active"} ELSE {"bookmarks"})
             /\ UNCHANGED <<air, nextUp>>
          \/ /\ Chosen.kind = "group"
             /\ \E n \in TreeGroups \ {Chosen.group} :
                    /\ book' = RenameGroupTo(book, Chosen.group, n)
                    /\ nextUp' = [nextUp EXCEPT !.group = n]
             /\ Raise({"bookmarks"})
             /\ UNCHANGED air
       /\ UNCHANGED <<tree, pick, panel, search, carried, prompt>>

\* Folding is not remembered during a search.
OnTreeFold ==
    /\ UserClicks
    /\ ~search
    /\ \/ \E b \in BranchNames : tree' = [tree EXCEPT !.open = IF b \in @ THEN @ \ {b} ELSE @ \cup {b}]
       \/ \E g \in DOMAIN tree.groups :
              tree' = [tree EXCEPT !.closed = IF g \in @ THEN @ \ {g} ELSE @ \cup {g}]
    /\ UNCHANGED <<book, air, pick, panel, raised, search, nextUp, carried, prompt>>

OnSearchText ==
    /\ UserClicks
    /\ search' = ~search
    /\ Raise({"active", "bookmarks"})
    /\ UNCHANGED <<book, air, tree, pick, panel, nextUp, carried, prompt>>

-----------------------------------------------------------------------------
(* Bookmarking, by choice and by drag.                                     *)

DoBookmark(item, g) ==
    \/ /\ item.kind = "active" /\ ANewEntry <= MaxTreeEntries
       /\ book' = [Put(book, g, ANewEntry) EXCEPT !.title = Append(@, air.title[item.of])]
       /\ Raise({"bookmarks"})
       /\ UNCHANGED <<nextUp, panel>>
    \/ /\ item.kind = "recent"
       /\ book' = WithoutRecent(Put(book, g, item.of), item.of)
       /\ nextUp' = [nextUp EXCEPT !.entry = item.of]
       /\ panel' = BookmarkSelection(book', item.of)
       /\ Raise({"bookmarks"})
    \/ /\ item.kind = "bookmark"
       /\ book' \in Move(book, item.of, g)
       /\ nextUp' = [nextUp EXCEPT !.entry = item.of]
       /\ panel' = BookmarkSelection(book', item.of)
       /\ Raise({"bookmarks"})

Ignored == UNCHANGED <<book, raised, nextUp, panel>>

\* The groups on offer may be gone, or renamed: then the choice makes one again.
OnBookmarkChoice ==
    /\ UserClicks
    /\ \E g \in panel.offers : DoBookmark(Chosen, g)
    /\ UNCHANGED <<air, tree, pick, search, carried, prompt>>

OnTreeBeginDrag ==
    /\ UserClicks
    /\ Chosen.kind \in {"active", "recent", "bookmark"}
    /\ carried' = [item |-> Chosen, fresh |-> TRUE]
    /\ UNCHANGED <<book, air, tree, pick, panel, raised, search, nextUp, prompt>>

Target(item) == IF item = BranchItem("bookmark") THEN UnnamedGroup ELSE item.group

\* A recent modem that is dropped on a group leaves its branch at once; on the branch of the
\* bookmarks, it stays there until the next rebuild.
OnTreeEndDrag ==
    /\ tick = "idle" /\ carried # Nobody
    /\ \E item \in Recalled(carried), onto \in TreeItems(tree) :
          LET lands == onto = BranchItem("bookmark") \/ onto.kind \in {"group", "bookmark"}
              leaves == item.kind = "recent" /\ onto.kind \in {"group", "bookmark"} /\ carried.fresh
              t == [tree EXCEPT !.recent = [e \in DOMAIN @ \ (IF leaves THEN {item.of} ELSE {}) |-> @[e]]]
          IN /\ IF lands /\ item # NoItem THEN DoBookmark(item, Target(onto)) ELSE Ignored
             /\ tree' = t
             /\ pick' = IF Chosen \in TreeItems(t) \cup {NoItem} THEN pick ELSE PickAfter(t, NoItem, {"recent"})
    /\ carried' = Nobody
    /\ UNCHANGED <<air, tick, search, prompt, missed, treeClicks>>

-----------------------------------------------------------------------------
(* Modal prompts.  The timer and the other threads go on meanwhile.        *)

Ask(asks) ==
    /\ UserClicks
    /\ prompt' = [asks |-> asks, held |-> [item |-> Chosen, fresh |-> TRUE]]
    /\ UNCHANGED <<book, air, tree, pick, panel, raised, search, nextUp, carried>>

OpenPrompt ==
    \/ Chosen.kind = "bookmark" /\ Ask("remove bookmark")
    \/ Chosen.kind = "group" /\ Ask("remove group")
    \/ Chosen.kind = "range" /\ Ask("remove range")
    \/ (Chosen = BranchItem("bookmark") \/ panel = PanelOf(BranchItem("bookmark"))) /\ Ask("add group")
    \/ panel.kind \in {"active", "recent", "bookmark"} /\ Ask("new group")

RemoveAsked ==
    LET item == prompt.held.item
    IN \/ /\ prompt.asks = "remove bookmark"
          /\ book' = [book EXCEPT !.groups = [g \in DOMAIN @ |-> @[g] \ {item.of}]]
          /\ Raise({"bookmarks"})
       \/ /\ prompt.asks = "remove group"
          /\ book' = [book EXCEPT !.groups = [g \in DOMAIN @ \ {item.group} |-> @[g]]]
          /\ Raise({"bookmarks"})
       \/ /\ prompt.asks = "remove range"
          /\ book' = [book EXCEPT !.ranges = @ \ {item.of}]
          /\ Raise({"active"})
       \/ /\ prompt.asks = "add group"
          /\ \E g \in TreeGroups \ DOMAIN book.groups :
                 book' = [book EXCEPT !.groups = [h \in DOMAIN @ \cup {g} |-> IF h = g THEN {} ELSE @[h]]]
          /\ Raise({"bookmarks"})

\* The item that was selected before a new group is asked for is used after it.
AnswerPrompt ==
    /\ tick = "idle" /\ prompt.asks # "nothing"
    /\ \/ Ignored
       \/ RemoveAsked /\ UNCHANGED <<nextUp, panel>>
       \/ /\ prompt.asks = "new group"
          /\ \E item \in Recalled(prompt.held) : \E g \in TreeGroups : DoBookmark(item, g)
    /\ prompt' = [asks |-> "nothing", held |-> Nobody]
    /\ UNCHANGED <<air, tree, pick, tick, search, carried, missed, treeClicks>>

-----------------------------------------------------------------------------
(* The rest of the window, and the other threads.                          *)

ModemsChangeElsewhere ==
    /\ UserClicks
    /\ \/ /\ Len(air.title) < MaxTreeModems
          /\ \E t \in Titles :
                 air' = LET d == Len(air.title) + 1 IN
                        MakeCurrent([air EXCEPT !.modems = @ \cup {d}, !.on = @ \cup {d}, !.title = Append(@, t)], d)
          /\ Raise({"active"})
          /\ UNCHANGED book
       \/ /\ ANewEntry <= MaxTreeEntries
          /\ \E d \in air.modems : RemoveModem(d)
          /\ Raise({"active"})
       \/ /\ \E d \in air.modems : air' = [air EXCEPT !.on = IF d \in @ THEN @ \ {d} ELSE @ \cup {d}]
          /\ Raise({"active"})
          /\ UNCHANGED book
       \/ /\ \E d \in air.modems \cup {0} : d # air.context /\ air' = SetForNow(air, d)
          /\ UNCHANGED <<book, raised>>
    /\ UNCHANGED <<tree, pick, panel, search, nextUp, carried, prompt>>

\* A demodulator's thread selects it in solo mode; the thread of the rig moves it.  A modem that
\* is not active moves without a word.
ThreadsChangeModems ==
    /\ treeClicks < MaxTreeClicks
    /\ treeClicks' = treeClicks + 1
    /\ \E d \in air.modems :
          \/ air' = SetForGood(air, d) /\ Raise({"active"})
          \/ /\ \E t \in Titles : t # air.title[d] /\ air' = [air EXCEPT !.title[d] = t]
             /\ Raise(IF d \in air.on THEN {"active"} ELSE {})
    /\ missed' = (missed \/ tick = "built")
    /\ UNCHANGED <<book, tree, pick, panel, tick, search, nextUp, carried, prompt>>

BookmarkTreeNext ==
    \/ Timer
    \/ \E item \in TreeItems(tree) : OnTreeSelect(item)
    \/ ActivateModem \/ OnActivateBookmark \/ OnActivateRecent \/ OnRemoveActive \/ OnDoubleClick
    \/ OnRemoveRecent \/ OnAddRange \/ OnLabelText \/ OnTreeFold \/ OnSearchText
    \/ OnBookmarkChoice \/ OnTreeBeginDrag \/ OnTreeEndDrag \/ OpenPrompt \/ AnswerPrompt
    \/ ModemsChangeElsewhere \/ ThreadsChangeModems

BookmarkTreeSpec == BookmarkTreeInit /\ [][BookmarkTreeNext]_treeVars

-----------------------------------------------------------------------------
(* Properties.                                                             *)

BookmarkTreeTypeOK ==
    /\ DOMAIN book.groups \subseteq TreeGroups /\ Len(book.recents) <= TreeRecentsMax
    /\ air.on \subseteq air.modems /\ air.modems \subseteq DOMAIN air.title
    /\ Chosen = NoItem \/ Chosen \in TreeItems(tree)
    /\ pick.fallback \in BranchNames \cup {""}
    /\ raised \subseteq {"active", "bookmarks"} /\ search \in BOOLEAN /\ missed \in BOOLEAN
    /\ tick \in {"idle", "built", "between", "refreshed"}
    /\ treeClicks \in 0..MaxTreeClicks

\* When no rebuild is due, the tree shows the program's lists: every handler and every thread that
\* changes one has asked for the rebuild that it needs (BookmarkView.cpp:172-188), except where a
\* thread asks while a rebuild ends (176-178), and a recent modem that became a bookmark may still
\* be shown as a recent one, though it is no longer one (765-772).
TreeIsTrue ==
    /\ ToSet(book.recents) \cap UNION {book.groups[g] : g \in DOMAIN book.groups} = {}
    /\ raised = {} /\ tick = "idle" /\ ~missed =>
           /\ \A d \in air.on : IsFound(air.title[d]) =>
                  d \in DOMAIN tree.active /\ tree.active[d] = air.title[d]
           /\ ~search => DOMAIN tree.active = air.modems
           /\ tree.range = book.ranges
           /\ \A k \in DOMAIN book.recents : LET e == book.recents[k] IN
                  IsFound(book.title[e]) => e \in DOMAIN tree.recent /\ tree.recent[e] = book.title[e]
           /\ DOMAIN tree.groups = DOMAIN book.groups
           /\ ~search => \A g \in DOMAIN book.groups : DOMAIN tree.groups[g] = book.groups[g]
=============================================================================
