-------------------------- MODULE RuntimeDashboard --------------------------
(***************************************************************************)
(* The runtime dashboard (internal/dashboard): a tree of panes refreshed  *)
(* by tick and event, the selection kept in view across refreshes, at most *)
(* one snapshot and one action on the way at a time.  One level of groups  *)
(* stands for sessions, tasks and tabs; texts and the detail panel's       *)
(* scrolling are left out, the window keeps its size, and the dashboard is *)
(* not read-only.                                                          *)
(***************************************************************************)
EXTENDS Integers, Sequences, FiniteSets

CONSTANTS
    NodeOrder,   \* groups and panes as sortTree orders them
    GroupOf,     \* the group of every pane
    Height,      \* panelBodyHeight
    RuntimeFaultN   \* bound: failed requests

Panes == DOMAIN GroupOf
Groups == {GroupOf[p] : p \in Panes}

ASSUME RuntimeAssumption ==
    /\ NodeOrder \in Seq(Panes \union Groups) /\ {NodeOrder[i] : i \in DOMAIN NodeOrder} = Panes \union Groups
    /\ Panes \intersect Groups = {} /\ Height \in Nat \ {0} /\ RuntimeFaultN \in Nat

VARIABLES
    listed,      \* m.panes
    closed,      \* groups not expanded
    cursor, cursorKey, offset,   \* m.selected, m.selectedKey, treeViewport.offset
    refresh,     \* [asked: refreshing, dirty: refreshDirty]
    snapshots,   \* panes with a snapshot
    snapping, snapshotNext,
    mode, aim,   \* m.mode; inputPane or confirmTask
    action,      \* [kind, of] of the action in flight
    missed

runtimeVars == <<listed, closed, cursor, cursorKey, offset, refresh, snapshots, snapping, snapshotNext, mode, aim, action, missed>>
treeState == <<listed, closed, cursor, cursorKey, offset>>
snapState == <<snapshots, snapping, snapshotNext>>
promptState == <<mode, aim, action>>

-----------------------------------------------------------------------------

\* buildTree and flattenTree.
flattenTree(ps, shut) ==
    LET Kept(n) == IF n \in Panes THEN n \in ps /\ GroupOf[n] \notin shut ELSE \E p \in ps : GroupOf[p] = n
        kept == {i \in DOMAIN NodeOrder : Kept(NodeOrder[i])}
    IN  [n \in 1 .. Cardinality(kept) |-> NodeOrder[CHOOSE i \in kept : Cardinality({j \in kept : j <= i}) = n]]

rows == flattenTree(listed, closed)
selectedPane == IF cursor \in DOMAIN rows /\ rows[cursor] \in Panes THEN rows[cursor] ELSE ""
NoAction == [kind |-> "", of |-> ""]
NoRefresh == [asked |-> FALSE, dirty |-> FALSE]

Between(x, low, high) == IF x < low THEN low ELSE IF x > high THEN high ELSE x
viewportMax(total) == IF total <= Height THEN 0 ELSE total - Height

\* Slip: the window is kept in the content but does not follow the cursor.
KeptInContent(off, index, total) == Between(off, 0, viewportMax(total))

\* setContent, then ensureVisible; the cursor counts from 1.
ensureVisible(off, index, total) ==
    IF total = 0 THEN 0
    ELSE LET o == Between(off, 0, viewportMax(total))
         IN  Between(IF index <= o THEN index - 1 ELSE IF index > o + Height THEN index - Height ELSE o, 0, viewportMax(total))

RuntimeInit ==
    /\ listed = {} /\ closed = {}
    /\ cursor = 1 /\ cursorKey = "" /\ offset = 0
    /\ refresh = [NoRefresh EXCEPT !.asked = TRUE]
    /\ snapshots = {} /\ snapping = "" /\ snapshotNext = ""
    /\ mode = "normal" /\ aim = "" /\ action = NoAction
    /\ missed = 0

-----------------------------------------------------------------------------
(* Refresh.                                                                *)

Requested(r) == IF r.asked THEN [r EXCEPT !.dirty = TRUE] ELSE [r EXCEPT !.asked = TRUE]

\* requestRefresh: by the tick, an event of the stream or a key.
requestRefresh ==
    /\ refresh' = Requested(refresh)
    /\ UNCHANGED <<treeState, snapState, promptState, missed>>

\* rebuildRows and restoreSelection: the selected key, or else the same line.
rebuildRows(ps, shut) ==
    LET new == flattenTree(ps, shut)
        hits == {i \in DOMAIN new : new[i] = cursorKey}
        at == IF hits # {} THEN CHOOSE i \in hits : TRUE ELSE Between(cursor, 1, Len(new))
    IN  /\ cursor' = IF new = <<>> THEN 1 ELSE at
        /\ cursorKey' = IF new = <<>> THEN "" ELSE new[at]
        /\ offset' = ensureVisible(offset, at, Len(new))

\* requestSnapshot, for no pane too.
RequestSnapshot(p) ==
    IF p = "" THEN UNCHANGED <<snapping, snapshotNext>>
    ELSE IF snapping # "" THEN snapshotNext' = p /\ UNCHANGED snapping
    ELSE snapping' = p /\ UNCHANGED snapshotNext

\* Slip: only a pane that was not selected before is asked for.
WantsNewOnly(p, old) == p # old

WantsSnapshot(p, old) == p # old \/ p \notin snapshots

\* handleRefreshResult: ps is what the daemon had when InspectRuntime reached it.
HandleRefresh(ps) ==
    /\ refresh.asked
    /\ LET p == selectedPane'
       IN  /\ listed' = ps /\ closed' = {g \in closed : \E q \in ps : GroupOf[q] = g}
           /\ rebuildRows(ps, closed')
           /\ RequestSnapshot(IF p # "" /\ WantsSnapshot(p, selectedPane) THEN p ELSE "")
    /\ refresh' = [NoRefresh EXCEPT !.asked = refresh.dirty]
    /\ UNCHANGED <<snapshots, promptState, missed>>

RefreshFails ==
    /\ refresh.asked /\ missed < RuntimeFaultN /\ missed' = missed + 1
    /\ refresh' = [NoRefresh EXCEPT !.asked = refresh.dirty]
    /\ UNCHANGED <<treeState, snapState, promptState>>

\* snapshotResultMsg.
HandleSnapshot(ok) ==
    /\ snapping # ""
    /\ \/ ok /\ snapshots' = snapshots \union {snapping} /\ UNCHANGED missed
       \/ ~ok /\ missed < RuntimeFaultN /\ missed' = missed + 1 /\ UNCHANGED snapshots
    /\ snapping' = snapshotNext /\ snapshotNext' = ""
    /\ UNCHANGED <<treeState, refresh, promptState>>

-----------------------------------------------------------------------------
(* Keys.                                                                   *)

\* moveSelection.
Move(delta) ==
    /\ mode = "normal" /\ rows # <<>>
    /\ cursor' = Between(cursor + delta, 1, Len(rows)) /\ cursorKey' = rows[cursor']
    /\ offset' = ensureVisible(offset, cursor', Len(rows))
    /\ RequestSnapshot(IF rows[cursor'] \in Panes /\ rows[cursor'] # selectedPane THEN rows[cursor'] ELSE "")
    /\ UNCHANGED <<listed, closed, refresh, snapshots, promptState, missed>>

\* enter on a group.
Toggle ==
    /\ mode = "normal" /\ rows # <<>> /\ rows[cursor] \in Groups
    /\ closed' = IF rows[cursor] \in closed THEN closed \ {rows[cursor]} ELSE closed \union {rows[cursor]}
    /\ rebuildRows(listed, closed')
    /\ UNCHANGED <<listed, refresh, snapState, promptState, missed>>

SnapshotKey ==
    /\ mode = "normal" /\ selectedPane # "" /\ RequestSnapshot(selectedPane)
    /\ UNCHANGED <<treeState, refresh, snapshots, promptState, missed>>

\* Keys i, x and ?, in updateActionOrNormalKey.
OpenPrompt(m) ==
    /\ mode = "normal" /\ action = NoAction
    /\ m # "help" => selectedPane # ""
    /\ mode' = m /\ aim' = CASE m = "input" -> selectedPane [] m = "confirm-cleanup" -> GroupOf[selectedPane] [] OTHER -> ""
    /\ UNCHANGED <<treeState, refresh, snapState, action, missed>>

\* esc, also while the action is in flight.
ClosePrompt ==
    /\ mode # "normal" /\ mode' = "normal" /\ aim' = ""
    /\ UNCHANGED <<treeState, refresh, snapState, action, missed>>

\* enter in the input, y in the confirmation.
Confirm ==
    /\ mode \in {"input", "confirm-cleanup"} /\ action = NoAction
    /\ action' = [kind |-> mode, of |-> aim]
    /\ UNCHANGED <<treeState, refresh, snapState, mode, aim, missed>>

Reconcile ==
    /\ mode = "normal" /\ action = NoAction
    /\ action' = [kind |-> "reconcile", of |-> ""]
    /\ UNCHANGED <<treeState, refresh, snapState, mode, aim, missed>>

\* handleActionResult.
HandleAction(ok) ==
    /\ action # NoAction
    /\ action' = NoAction /\ mode' = "normal" /\ aim' = ""
    /\ refresh' = IF ok THEN Requested(refresh) ELSE refresh
    /\ UNCHANGED <<treeState, snapState, missed>>

RuntimeNext ==
    \/ requestRefresh \/ RefreshFails
    \/ \E ps \in SUBSET Panes : HandleRefresh(ps)
    \/ \E ok \in BOOLEAN : HandleSnapshot(ok) \/ HandleAction(ok)
    \/ \E delta \in {-1, 1} : Move(delta)
    \/ Toggle \/ SnapshotKey \/ ClosePrompt \/ Confirm \/ Reconcile
    \/ \E m \in {"input", "confirm-cleanup", "help"} : OpenPrompt(m)

-----------------------------------------------------------------------------
(* Properties.                                                             *)

\* The key that commands act on is the row under the cursor, and that row is in the
\* window: through refreshes that add and remove panes, folding and moving.
CursorInView ==
    rows # <<>> /\ cursorKey # "" => /\ cursor \in DOMAIN rows /\ rows[cursor] = cursorKey
                                     /\ offset < cursor /\ cursor <= offset + Height
                                     /\ offset <= viewportMax(Len(rows))

\* An answer to an action closes no prompt but the one it came from: what the user
\* types for another pane meanwhile is not thrown away, and what is sent is for the
\* pane or task that was shown when the prompt opened.
PromptIsItsOwn == action # NoAction /\ mode # "normal" => action = [kind |-> mode, of |-> aim]

\* A refresh or a fold that leaves the selected row in the tree leaves it selected.
SelectionStays ==
    [][cursorKey' # cursorKey => rows' = rows \/ cursorKey \notin {rows'[i] : i \in DOMAIN rows'}]_runtimeVars

\* A pane that stays selected has its output shown in the end, though requests fail
\* and snapshots of other panes are waited for in between.
SelectedPaneGetsOutput == []<>(selectedPane = "" \/ selectedPane \in snapshots)

\* What a user has selected stays selected and in view, and prompts are about it.
SelectionIsKept == [](CursorInView /\ PromptIsItsOwn) /\ SelectionStays
=============================================================================
