------------------------------ MODULE TabPanes ------------------------------
(***************************************************************************)
(* The panes that follow Chrome's tabs: the tab-network role opens a child *)
(* tracker in a pane of its own for every tab opened after its baseline    *)
(* scan (targetPaneSpawner, cmd/agent-role/tabnetwork/tabnetwork.go), and  *)
(* the tab-watcher role does the same by execution plans                   *)
(* (cmd/agent-role/tabwatcher/tabwatcher.go).  Both name the pane after    *)
(* the tab, both poll, and both process a scan that grows stale while the  *)
(* daemon is slow to answer.  Tabs are opened once and never come back.    *)
(***************************************************************************)
EXTENDS Integers, FiniteSets

CONSTANTS
    Tabs,
    FaultN   \* bound: calls to the daemon that fail


VARIABLES
    tabs,     \* Chrome: state of each tab
    own,      \* the tab the tracker itself shows, or NoTab
    phase,    \* of the tracker
    scan,     \* the scan being processed: tabs to visit and all the tabs in it, or NoScan
    waiting,  \* tab whose CreatePane the spawner waits for, or NoTab
    known,    \* tabs seen, by the spawner and by the watcher
    active,   \* tabs whose panes the spawner looks after
    asked,    \* create requests the daemon has not decided yet
    panes,    \* the daemon's record of each tab's pane and who asked for it
    made,     \* requests the daemon granted
    child,    \* child trackers running
    quit,     \* tabs whose tracker has ended although the tab was open
    faults

tabVars == <<tabs, own, phase, scan, waiting, known, active, asked, panes, made, child, quit, faults>>

NoTab == "none"

ASSUME TabAssumption == FaultN \in Nat /\ NoTab \notin Tabs

NoScan == [todo |-> {}, current |-> {}, busy |-> FALSE]
Open == {t \in Tabs : tabs[t] = "open"}
NoPane == [record |-> "absent", by |-> "none"]

TabInit ==
    /\ tabs \in [Tabs -> {"unborn", "open"}]
    /\ own = NoTab /\ phase = "select"
    /\ scan = NoScan /\ waiting = NoTab
    /\ known = [who \in {"spawner", "watcher"} |-> {}]
    /\ active = {} /\ asked = {} /\ made = {} /\ child = {} /\ quit = {} /\ faults = 0
    /\ panes = [t \in Tabs |-> NoPane]

Fault == faults < FaultN /\ faults' = faults + 1

-----------------------------------------------------------------------------
(* Chrome.                                                                 *)

OpenTab(t) ==
    /\ tabs[t] = "unborn"
    /\ tabs' = [tabs EXCEPT ![t] = "open"]
    /\ UNCHANGED <<quit, own, phase, scan, waiting, known, active, asked, panes, child, made, faults>>

CloseTab(t) ==
    /\ tabs[t] = "open"
    /\ tabs' = [tabs EXCEPT ![t] = "closed"]
    /\ UNCHANGED <<quit, own, phase, scan, waiting, known, active, asked, panes, child, made, faults>>

-----------------------------------------------------------------------------
(* The tracker: it takes an open tab, waiting for one for a while, or opens *)
(* one, and only then starts the spawner.                                   *)

\* selectOrCreateTarget.
SelectTarget(t) ==
    /\ phase = "select"
    /\ tabs[t] = "open" \/ (Open = {} /\ tabs[t] = "unborn")
    /\ tabs' = [tabs EXCEPT ![t] = "open"]
    /\ own' = t /\ phase' = "start"
    /\ UNCHANGED <<quit, scan, waiting, known, active, asked, panes, child, made, faults>>

\* startTargetPaneSpawner, once the tracker's own pane is found: MarkBaseline.
MarkBaseline ==
    /\ phase = "start"
    /\ known' = [known EXCEPT !["spawner"] = Open]
    /\ phase' = "run"
    /\ UNCHANGED <<quit, tabs, own, scan, waiting, active, asked, panes, child, made, faults>>

\* The tracker's pane is not found in time, or its scan fails: no spawner.
SpawnerDisabled ==
    /\ phase = "start" /\ Fault
    /\ phase' = "alone"
    /\ UNCHANGED <<quit, tabs, own, scan, waiting, known, active, asked, panes, child, made>>

\* collectTarget finds the tab gone: collectorDone ends the program and its context.
TrackerQuits ==
    /\ phase \in {"start", "run", "alone"} /\ tabs[own] = "closed"
    /\ phase' = "over" /\ scan' = NoScan /\ waiting' = NoTab
    /\ UNCHANGED <<quit, tabs, own, known, active, asked, panes, child, made, faults>>

\* The user presses q or closes the pane, or the tracker cannot start; its children go on.
UserQuits ==
    /\ phase # "over"
    /\ phase' = "over" /\ scan' = NoScan /\ waiting' = NoTab
    /\ UNCHANGED <<quit, tabs, own, known, active, asked, panes, child, made, faults>>

-----------------------------------------------------------------------------
(* targetPaneSpawner.                                                      *)

\* A tick: the tabs are listed, and every later step goes by this list.
Tick ==
    /\ phase = "run" /\ ~scan.busy
    /\ scan' = [todo |-> Open, current |-> Open, busy |-> TRUE]
    /\ UNCHANGED <<quit, tabs, own, phase, waiting, known, active, asked, panes, child, made, faults>>

\* ProcessTargets marks a tab seen before it asks for its pane.
AskForPane(t) ==
    /\ scan.busy /\ waiting = NoTab /\ t \in scan.todo
    /\ scan' = [scan EXCEPT !.todo = @ \ {t}]
    /\ known' = [known EXCEPT !["spawner"] = @ \union {t}]
    /\ IF t \in known["spawner"] THEN UNCHANGED <<waiting, asked>>
       ELSE waiting' = t /\ asked' = asked \union {[by |-> "spawner", tab |-> t]}
    /\ UNCHANGED <<quit, tabs, own, phase, active, panes, child, made, faults>>

\* The daemon has answered; it refuses a pane ID in use.
PaneAnswered ==
    /\ waiting # NoTab /\ [by |-> "spawner", tab |-> waiting] \notin asked
    /\ active' = IF [by |-> "spawner", tab |-> waiting] \in made THEN active \union {waiting} ELSE active
    /\ waiting' = NoTab
    /\ UNCHANGED <<quit, tabs, own, phase, scan, known, asked, panes, child, made, faults>>

\* The client's time is up, or the answer is lost; the daemon may still do it.
PaneFailed ==
    /\ waiting # NoTab /\ Fault
    /\ waiting' = NoTab
    /\ UNCHANGED <<quit, tabs, own, phase, scan, known, active, asked, panes, child, made>>

\* paneGone: no record, or one of a pane that has ended.
PaneGone(pane) == pane.record \in {"absent", "ended"}

\* Slip: the list that has been worked off is taken for the scan.
StaleTabsWorkedOff == {t \in active : t \notin scan.todo}

\* Slip: a pane that could not be closed is not tried again.
StaleTabsRunning == {t \in active : t \notin scan.current /\ panes[t].record = "running"}

StaleTabs == {t \in active : t \notin scan.current}

\* cleanupClosedTargets: the daemon closes the pane and drops its record.
CleanUp(t) ==
    /\ scan.busy /\ waiting = NoTab /\ scan.todo = {} /\ t \in StaleTabs
    /\ active' = active \ {t}
    /\ panes' = [panes EXCEPT ![t] = NoPane]
    /\ child' = child \ {t}
    /\ UNCHANGED <<quit, tabs, own, phase, scan, waiting, known, asked, made, faults>>

\* The pane cannot be closed or the answer is lost: the record is looked up,
\* and the tab forgotten if the pane is gone; otherwise the next tick tries again.
CleanUpFails(t, closed) ==
    /\ scan.busy /\ waiting = NoTab /\ scan.todo = {} /\ t \in StaleTabs /\ Fault
    /\ panes' = [panes EXCEPT ![t] = IF closed THEN NoPane
                                     ELSE IF @.record = "running" THEN [@ EXCEPT !.record = "error"] ELSE @]
    /\ child' = IF closed THEN child \ {t} ELSE child
    /\ active' = IF PaneGone(panes'[t]) THEN active \ {t} ELSE active
    /\ scan' = NoScan
    /\ UNCHANGED <<quit, tabs, own, phase, waiting, known, asked, made>>

ScanDone ==
    /\ scan.busy /\ waiting = NoTab /\ scan.todo = {} /\ StaleTabs = {}
    /\ scan' = NoScan
    /\ UNCHANGED <<quit, tabs, own, phase, waiting, known, active, asked, panes, child, made, faults>>

-----------------------------------------------------------------------------
(* tab-watcher: the same tabs, by plans, without any cleanup.              *)

WatcherAsks(t) ==
    /\ t \in Open \ known["watcher"]
    /\ known' = [known EXCEPT !["watcher"] = @ \union {t}]
    /\ asked' = asked \union {[by |-> "watcher", tab |-> t]}
    /\ UNCHANGED <<quit, tabs, own, phase, scan, waiting, active, panes, child, made, faults>>

-----------------------------------------------------------------------------
(* The daemon and the child trackers.                                      *)

\* CreatePane or the plan: a record of that ID, whatever its status, refuses it.
DaemonCreates(r) ==
    /\ asked' = asked \ {r}
    /\ IF panes[r.tab].record = "absent"
       THEN /\ panes' = [panes EXCEPT ![r.tab] = [record |-> "running", by |-> r.by]]
            /\ child' = child \union {r.tab} /\ made' = made \union {r}
       ELSE UNCHANGED <<panes, made, child>>
    /\ UNCHANGED <<quit, tabs, own, phase, scan, waiting, known, active, faults>>

DaemonRefuses(r) ==
    /\ Fault
    /\ asked' = asked \ {r}
    /\ UNCHANGED <<quit, tabs, own, phase, scan, waiting, known, active, panes, child, made>>

\* The child's own scan, or its start, finds the tab gone: it ends.
ChildEnds(t) ==
    /\ t \in child /\ tabs[t] = "closed"
    /\ child' = child \ {t}
    /\ UNCHANGED <<quit, tabs, own, phase, scan, waiting, known, active, asked, panes, made, faults>>

\* The child is quit with q, cannot start, or its pane is closed by the user.
ChildQuits(t) ==
    /\ t \in child /\ tabs[t] = "open"
    /\ child' = child \ {t} /\ quit' = quit \union {t}
    /\ UNCHANGED <<tabs, own, phase, scan, waiting, known, active, asked, panes, made, faults>>

\* Its pane's end is seen: by its stream, which drops the record, or by reconcile.
EndSeen(t, record) ==
    /\ t \notin child /\ panes[t].record \in {"running", "error"}
    /\ panes' = [panes EXCEPT ![t] = IF record = "absent" THEN NoPane ELSE [@ EXCEPT !.record = record]]
    /\ UNCHANGED <<quit, tabs, own, phase, scan, waiting, known, active, asked, child, made, faults>>

\* What the spawner's goroutine does by itself.
SpawnerStep == Tick \/ PaneAnswered \/ ScanDone \/ \E t \in Tabs : AskForPane(t) \/ CleanUp(t)

TabNext ==
    \/ SpawnerStep \/ MarkBaseline \/ SpawnerDisabled \/ TrackerQuits \/ UserQuits \/ PaneFailed
    \/ \E t \in Tabs :
          \/ OpenTab(t) \/ CloseTab(t) \/ SelectTarget(t)
          \/ \E closed \in BOOLEAN : CleanUpFails(t, closed)
          \/ WatcherAsks(t) \/ ChildEnds(t) \/ ChildQuits(t)
          \/ \E record \in {"absent", "ended"} : EndSeen(t, record)
    \/ \E r \in asked : DaemonCreates(r) \/ DaemonRefuses(r)

-----------------------------------------------------------------------------
(* Properties.                                                             *)

\* The spawner looks after its own panes: the one the watcher made for the same tab is in its
\* care only if the spawner's own tracker of that tab was quit before, and the tracker's own
\* tab gets no second pane.
LooksAfterItsOwn ==
    \A t \in Tabs :
       /\ t \in active /\ tabs[t] = "open" /\ panes[t].by = "watcher" => t \in quit
       /\ t = own => panes[t].by # "spawner" /\ t \notin active

\* However old the scan, neither the clean-up nor the daemon touches the pane of an open tab: a
\* tab opened since the scan is not taken for one that was closed.  The tracker of an open tab
\* ends only when it is quit, and while it runs its record stays what it is.
OpenTabUntouched ==
    \A t \in Tabs : t \in child /\ tabs[t] = "open" => (t \in child' \/ ChildQuits(t)) /\ panes'[t] = panes[t]
OpenTabKeepsPane == [][OpenTabUntouched]_tabVars

\* A tab's tracker does not outlive it: cleaned up by the spawner or on its own,
\* also when the answer to its creation was lost and no one looks after the pane.
TrackerEndsWithTab == []<>(\A t \in child : tabs[t] # "closed")

\* The spawner is done with a closed tab some time, whatever calls failed.
ClosedTabForgotten == []<>(phase = "over" \/ \A t \in active : tabs[t] # "closed")

\* An open tab keeps its pane until that is quit, and everyone the panes they made.
OpenTabsKeepPanes == []LooksAfterItsOwn /\ OpenTabKeepsPane
=============================================================================
