----------------------------------- MODULE Void -----------------------------------
(***************************************************************************)
(* The Void (darkos-terminal.py): the window's tabs, each a tree of panes  *)
(* split by Gtk.Paned, under the exits of shells, which come at any time,  *)
(* a tool launcher or the prompt for a target that is open over the        *)
(* window, and the target of the active engagement.                        *)
(***************************************************************************)
EXTENDS Sequences, SequencesExt, Naturals, FiniteSets

CONSTANTS
    Tabs, Splits, Panes,     \* bound: widgets that exist at a time
    NoWidget

ASSUME VoidConstants ==
    /\ Tabs \cap (Splits \cup Panes) = {} /\ Splits \cap Panes = {}
    /\ NoWidget \notin Tabs \cup Splits \cup Panes
    /\ Tabs # {} /\ Panes # {}

VARIABLES
    children,    \* of a TabRoot its child, of a Paned its two slots, in order
    leaves,      \* TabRoot.leaves
    focused,     \* TabRoot.focused
    pages,       \* the pages of the notebook
    currentPage,
    exited,      \* panes whose child-exited was not delivered yet
    launcher,    \* <<target_pane>> of the open tool launcher, or <<>>
    prompt,      \* <<the pane that the prompt for a target was opened over>>,
                 \* <<NoWidget>> when it is left on the screen, or <<>>
    shaken,      \* history: a pane was closed while the prompt was open
    engaged,     \* the target of the window's engagement, "none" without one
    typed        \* history: where the last command was typed

dialogVars == <<launcher, prompt, shaken, engaged, typed>>
voidVars == <<children, leaves, focused, pages, currentPage, exited, dialogVars>>

Containers == Tabs \cup Splits
VoidTargets == {"none", "old", "new"}

Everything == Containers \cup Panes

VoidTypeOK ==
    /\ children \in [Containers -> Seq(Everything)]
    /\ leaves \in [Tabs -> Seq(Panes)]
    /\ focused \in [Tabs -> Panes \cup {NoWidget}]
    /\ pages \in Seq(Tabs) /\ currentPage \in Tabs \cup {NoWidget}
    /\ exited \subseteq Panes /\ launcher \in {<<>>} \cup {<<p>> : p \in Panes}
    /\ prompt \in {<<>>} \cup {<<p>> : p \in Panes \cup {NoWidget}} /\ shaken \in BOOLEAN
    /\ engaged \in VoidTargets /\ typed \in {"nowhere", "where asked", "moved", "elsewhere"}

Used == ToSet(pages) \cup UNION {ToSet(children[c]) : c \in Containers}
Opened == {p \in Panes : \E t \in Tabs : p \in ToSet(leaves[t])}

\* The container a widget is packed into.
Parent(widget) == CHOOSE c \in Containers : widget \in ToSet(children[c])

\* Widgets are made in order, so that equal trees are equal states.
FreshPane == CHOOSE p \in Panes : p \notin Opened
FreshSplit == CHOOSE s \in Splits : s \notin Used
FreshTab == CHOOSE t \in Tabs : t \notin ToSet(pages)
AnyLeft(all, used) == all \ used # {}

NewTabOn(tab, pane) ==
    /\ children' = [children EXCEPT ![tab] = <<pane>>]
    /\ leaves' = [leaves EXCEPT ![tab] = <<pane>>] /\ focused' = [focused EXCEPT ![tab] = pane]
    /\ pages' = Append(pages, tab) /\ currentPage' = tab

VoidInit ==
    LET tab == CHOOSE t \in Tabs : TRUE   pane == CHOOSE p \in Panes : TRUE IN
    /\ children = [c \in Containers |-> IF c = tab THEN <<pane>> ELSE <<>>]
    /\ leaves = [t \in Tabs |-> IF t = tab THEN <<pane>> ELSE <<>>]
    /\ focused = [t \in Tabs |-> IF t = tab THEN pane ELSE NoWidget]
    /\ pages = <<tab>> /\ currentPage = tab /\ exited = {} /\ launcher = <<>> /\ prompt = <<>> /\ shaken = FALSE
    /\ engaged \in {"none", "old"} /\ typed = "nowhere"

FocusedPane == IF currentPage = NoWidget THEN NoWidget ELSE focused[currentPage]

\* The dialogs are modal.
NoDialog == launcher = <<>> /\ prompt = <<>>
AtKeyboard == NoDialog /\ FocusedPane # NoWidget

\* new_tab; the launcher's Install Group opens one too, and closes.
NewTab ==
    /\ pages # <<>> /\ AnyLeft(Tabs, ToSet(pages)) /\ AnyLeft(Panes, Opened)
    /\ prompt = <<>> /\ NewTabOn(FreshTab, FreshPane) /\ launcher' = <<>>
    /\ UNCHANGED <<exited, prompt, shaken, engaged, typed>>

\* split_focused, TabRoot.split: the pane's slot gets a Paned with it and a new
\* one, which has the focus.
Split ==
    /\ AtKeyboard /\ AnyLeft(Splits, Used) /\ AnyLeft(Panes, Opened)
    /\ LET target == FocusedPane   paned == FreshSplit   leaf == FreshPane IN
       /\ children' = [children EXCEPT
              ![Parent(target)] = ReplaceAll(@, target, paned), ![paned] = <<target, leaf>>]
       /\ leaves' = [leaves EXCEPT ![currentPage] = Append(@, leaf)]
       /\ focused' = [focused EXCEPT ![currentPage] = leaf]
    /\ UNCHANGED <<pages, currentPage, exited, dialogVars>>

\* remove_page and destroy; the notebook turns to the next page, or to the last
\* one.  Without pages the window is destroyed, but not its dialogs.
Without(tab) ==
    LET at == CHOOSE i \in DOMAIN pages : pages[i] = tab   rest == RemoveFirst(pages, tab) IN
    /\ pages' = rest
    /\ currentPage' = IF rest = <<>> THEN NoWidget
                      ELSE IF currentPage # tab THEN currentPage
                      ELSE rest[IF at <= Len(rest) THEN at ELSE Len(rest)]

\* A tab with all that is packed into it, directly or not: its containers are
\* the least set that has the tab and the containers in each container it has.
Closed(S) == \A c \in S : ToSet(children[c]) \cap Containers \subseteq S

ContainersOf(tab) ==
    LET whole == {S \in SUBSET Containers : tab \in S /\ Closed(S)}
    IN {c \in Containers : \A S \in whole : c \in S}

Subtree(tab) == ContainersOf(tab) \cup UNION {ToSet(children[c]) : c \in ContainersOf(tab)}

DestroyPage(tab) ==
    /\ Without(tab)
    /\ children' = [c \in Containers |-> IF c \in Subtree(tab) THEN <<>> ELSE children[c]]
    /\ leaves' = [leaves EXCEPT ![tab] = <<>>] /\ focused' = [focused EXCEPT ![tab] = NoWidget]
    /\ exited' = exited \ Subtree(tab)

\* close_page, by the button of the tab's label.
ClosePage(tab) ==
    /\ NoDialog /\ tab \in ToSet(pages) /\ DestroyPage(tab) /\ UNCHANGED dialogVars

\* Seeded bug: the slot is looked up once the Paned was removed from it.
ToSlotTwo(slots, old, new) == IF Len(slots) = 1 THEN <<new>> ELSE <<slots[1], new>>

\* Merging up: the sibling takes the slot of the Paned.
MergedInto(slots, old, new) == ReplaceAll(slots, old, new)

\* TabRoot.close_pane, and close_page when the pane was the tab's last.
ClosePane(tab, leaf) ==
    LET parent == Parent(leaf)
        sibling == CHOOSE w \in ToSet(children[parent]) : w # leaf
        rest == RemoveFirst(leaves[tab], leaf)
    IN IF parent = tab THEN DestroyPage(tab)
       ELSE /\ children' = [children EXCEPT
                   ![Parent(parent)] = MergedInto(@, parent, sibling), ![parent] = <<>>]
            /\ leaves' = [leaves EXCEPT ![tab] = rest]
            /\ focused' = [focused EXCEPT ![tab] = Last(rest)]
            /\ exited' = exited \ {leaf} /\ UNCHANGED <<pages, currentPage>>

CloseFocusedPane ==
    /\ AtKeyboard /\ ClosePane(currentPage, FocusedPane) /\ UNCHANGED dialogVars

ShellExits(pane) ==
    /\ pane \in Opened \ exited /\ exited' = exited \cup {pane}
    /\ UNCHANGED <<children, leaves, focused, pages, currentPage, dialogVars>>

\* _on_child_exited, also while a dialog runs its own loop.
ChildExited(pane) ==
    /\ pane \in exited
    /\ \E tab \in Tabs : pane \in ToSet(leaves[tab]) /\ ClosePane(tab, pane)
    /\ shaken' = (prompt # <<>>) /\ UNCHANGED <<launcher, prompt, engaged, typed>>

\* A click into a pane, Page Up and Page Down.
FocusPane(pane) ==
    /\ NoDialog /\ currentPage # NoWidget /\ pane \in ToSet(leaves[currentPage])
    /\ focused' = [focused EXCEPT ![currentPage] = pane]
    /\ UNCHANGED <<children, leaves, pages, currentPage, exited, dialogVars>>

TurnPage(tab) ==
    /\ NoDialog /\ tab \in ToSet(pages) /\ currentPage' = tab
    /\ UNCHANGED <<children, leaves, focused, pages, exited, dialogVars>>

\* The launcher remembers the pane it was opened over.
OpensLauncher ==
    /\ AtKeyboard /\ launcher' = <<FocusedPane>>
    /\ UNCHANGED <<children, leaves, focused, pages, currentPage, exited, prompt, shaken, engaged, typed>>

\* Seeded bug: the command goes to the pane which has the focus now.
FocusedNow(wanted) == FocusedPane

TargetPane(wanted) == wanted

\* What is fed to a pane that was destroyed, or whose shell has exited, is lost.
Feeds(pane, wanted) ==
    typed' = IF pane \notin Opened \ exited THEN typed
             ELSE IF pane = wanted THEN "where asked"
             ELSE IF shaken THEN "moved" ELSE "elsewhere"

\* _on_response: Insert Command, or Close.
LauncherResponds ==
    /\ launcher # <<>> /\ launcher' = <<>>
    /\ \/ Feeds(TargetPane(launcher[1]), launcher[1])
       \/ UNCHANGED typed
    /\ UNCHANGED <<children, leaves, focused, pages, currentPage, exited, prompt, shaken, engaged>>

\* _prompt_set_target.
OpensPrompt ==
    /\ AtKeyboard /\ prompt' = <<FocusedPane>> /\ shaken' = FALSE
    /\ UNCHANGED <<children, leaves, focused, pages, currentPage, exited, launcher, engaged, typed>>

\* Cancel.
PromptCloses ==
    /\ prompt # <<>> /\ prompt' = <<>> /\ shaken' = FALSE
    /\ UNCHANGED <<children, leaves, focused, pages, currentPage, exited, launcher, engaged, typed>>

\* set_target: the engagement's target is written, and when that fails the
\* export is not typed and the prompt stays on the screen; and what is typed
\* goes to the pane which has the focus by now.
SetTarget ==
    /\ prompt \notin {<<>>, <<NoWidget>>} /\ engaged' = IF engaged = "none" THEN "none" ELSE "new"
    /\ \/ Feeds(FocusedPane, prompt[1]) /\ prompt' = <<>> /\ shaken' = FALSE
       \/ engaged # "none" /\ prompt' = <<NoWidget>> /\ UNCHANGED <<shaken, typed>>
    /\ UNCHANGED <<children, leaves, focused, pages, currentPage, exited, launcher>>

VoidNext ==
    \/ NewTab \/ Split \/ CloseFocusedPane \/ OpensLauncher \/ LauncherResponds
    \/ OpensPrompt \/ PromptCloses \/ SetTarget
    \/ \E tab \in Tabs : ClosePage(tab) \/ TurnPage(tab)
    \/ \E pane \in Panes : ShellExits(pane) \/ ChildExited(pane) \/ FocusPane(pane)

VoidSpec == VoidInit /\ [][VoidNext]_voidVars

-----------------------------------------------------------------------------
\* However splits and exits interleave, the panes of a tab are those of its
\* tree, every Paned of which has two different slots; the keyboard is in one
\* of them; and the window has a page that is shown.
PanesStayReachable ==
    /\ \A t \in ToSet(pages) :
        /\ Subtree(t) \cap Panes = ToSet(leaves[t]) /\ focused[t] \in ToSet(leaves[t])
        /\ Len(children[t]) = 1
        /\ \A s \in Subtree(t) \cap Splits : Cardinality(ToSet(children[s])) = 2
    /\ \A s, t \in ToSet(pages) : s # t => Subtree(s) \cap Subtree(t) = {}
    /\ pages # <<>> => currentPage \in ToSet(pages)

\* A command of the launcher is typed where it was asked for or not at all,
\* whatever has exited while the dialog was open.  That of the prompt runs in
\* the pane it was opened over, unless a shell has exited meanwhile: then it
\* runs in the pane that has the focus, whichever that is.
TypedWhereAsked == typed # "elsewhere"
=============================================================================
