---------------------------- MODULE AgentService ----------------------------
(***************************************************************************)
(* Starting, listing and forgetting coding agents                          *)
(* (internal/codingagent/service.go): an agent's record is stored before   *)
(* its pane exists, so a concurrent ListAgents must not take it for the    *)
(* record of a pane that has gone.  Agent IDs are never reused.            *)
(***************************************************************************)
EXTENDS Naturals, FiniteSets

CONSTANTS
    Agents,    \* agent IDs
    Tracked,   \* agents whose profile tracks the state (all kinds but one)
    Restored,  \* agents found in the database when the daemon started
    Listers    \* concurrent ListAgents requests

ASSUME ServiceAssumption == Tracked \subseteq Agents /\ Restored \subseteq Agents

VARIABLES
    stored,    \* agents with a record in the store
    owner,     \* s.owners: "none", "provisioning" or "active"
    start,     \* how far the StartAgent request of each agent has come
    watched,   \* agents the monitor has an entry for
    pane,      \* the registry's record of each agent's pane
    leaving,   \* agents PaneClosed has unwatched and not yet deleted
    lister     \* the snapshot and the panes each ListAgents works on

serviceVars == <<stored, owner, start, watched, pane, leaving, lister>>

Idle == [at |-> "idle", seen |-> [a \in {} |-> "none"], panes |-> {}]

\* A restored record has no owner and an open pane; RestoreMonitoring watches it.
ServiceInit ==
    /\ stored = Restored
    /\ owner = [a \in Agents |-> "none"]
    /\ start = [a \in Agents |-> IF a \in Restored THEN "done" ELSE "new"]
    /\ watched = Restored \intersect Tracked
    /\ pane = [a \in Agents |-> IF a \in Restored THEN "open" ELSE "none"]
    /\ leaving = {}
    /\ lister = [l \in Listers |-> Idle]

-----------------------------------------------------------------------------
(* StartAgent.                                                             *)

\* sweepInactiveOwnersLocked: owners of records that are gone are forgotten,
\* unless their start is still under way.
Swept(owners) ==
    [a \in Agents |-> IF owners[a] = "active" /\ a \notin stored THEN "none" ELSE owners[a]]

registerStart(a) ==
    /\ start[a] = "new"
    /\ start' = [start EXCEPT ![a] = "registered"]
    /\ owner' = [Swept(owner) EXCEPT ![a] = "provisioning"]
    /\ stored' = stored \union {a}
    /\ UNCHANGED <<watched, pane, leaving, lister>>

\* The monitor refuses an agent whose manifest could not be loaded.
StartMonitor(a) ==
    /\ start[a] = "registered"
    /\ \/ /\ watched' = IF a \in Tracked THEN watched \union {a} ELSE watched
          /\ start' = [start EXCEPT ![a] = "watched"]
       \/ /\ a \in Tracked
          /\ start' = [start EXCEPT ![a] = "unwatchable"]
          /\ UNCHANGED watched
    /\ UNCHANGED <<stored, owner, pane, leaving, lister>>

\* CreatePane or ClaimPane: the pane is registered, or nothing is.
ObtainPane(a) ==
    /\ start[a] = "watched"
    /\ \/ /\ pane' = [pane EXCEPT ![a] = "open"]
          /\ start' = [start EXCEPT ![a] = "placed"]
       \/ /\ start' = [start EXCEPT ![a] = "unplaced"]
          /\ UNCHANGED pane
    /\ UNCHANGED <<stored, owner, watched, leaving, lister>>

\* cleanupOwnedRecord: the record and its owner go, and the monitor entry if
\* the record was still there to delete.
cleanupOwnedRecord(a) ==
    /\ start[a] \in {"unwatchable", "unplaced"}
    /\ start' = [start EXCEPT ![a] = "failed"]
    /\ stored' = stored \ {a}
    /\ owner' = [owner EXCEPT ![a] = "none"]
    /\ watched' = IF start[a] = "unplaced" /\ owner[a] # "none" /\ a \in stored THEN watched \ {a} ELSE watched
    /\ UNCHANGED <<pane, leaving, lister>>

markOwnerState(a) ==
    /\ start[a] = "placed"
    /\ start' = [start EXCEPT ![a] = "done"]
    /\ owner' = [owner EXCEPT ![a] = IF @ = "none" THEN @ ELSE "active"]
    /\ UNCHANGED <<stored, watched, pane, leaving, lister>>

-----------------------------------------------------------------------------
(* What happens to the pane.                                               *)

\* A close is reported to the monitor, which forgets a watched agent and then,
\* outside its lock, deletes the record.
PaneClosed(a) ==
    /\ pane[a] = "open"
    /\ pane' = [pane EXCEPT ![a] = "terminal"]
    /\ watched' = watched \ {a}
    /\ leaving' = IF a \in watched /\ a \in stored THEN leaving \union {a} ELSE leaving
    /\ UNCHANGED <<stored, owner, start, lister>>

DeleteClosed(a) ==
    /\ a \in leaving
    /\ leaving' = leaving \ {a}
    /\ stored' = stored \ {a}
    /\ UNCHANGED <<owner, start, watched, pane, lister>>

\* Cleanup removes the pane's record and tells nobody.
Cleanup(a) ==
    /\ pane[a] \in {"open", "terminal"}
    /\ pane' = [pane EXCEPT ![a] = "removed"]
    /\ UNCHANGED <<stored, owner, start, watched, leaving, lister>>

-----------------------------------------------------------------------------
(* ListAgents.                                                             *)

\* snapshotAgents, under the lifecycle lock.
snapshotAgents(l) ==
    /\ lister[l].at = "idle"
    /\ owner' = Swept(owner)
    /\ lister' = [lister EXCEPT ![l] = [Idle EXCEPT !.at = "snapshot",
                                        !.seen = [a \in stored |-> owner[a]]]]
    /\ UNCHANGED <<stored, start, watched, pane, leaving>>

ListPanes(l) ==
    /\ lister[l].at = "snapshot"
    /\ lister' = [lister EXCEPT ![l].at = "panes",
                                ![l].panes = {a \in Agents : pane[a] \in {"open", "terminal"}}]
    /\ UNCHANGED <<stored, owner, start, watched, pane, leaving>>

ownerMatchesSnapshot(l, a) == (lister[l].seen[a] = "none") <=> (owner[a] = "none")

\* Slip: a record without a pane is always an orphan.
AnyoneIsOrphan(l, a) == a \notin lister[l].panes

\* Slip: restored agents, which have no owner, are never orphans.
OnlyOwnedIsOrphan(l, a) == a \notin lister[l].panes /\ lister[l].seen[a] = "active" /\ owner[a] = "active"

\* cleanupOrphan's early returns: the owner changed, or the start was still
\* under way at the snapshot or is now.
IsOrphan(l, a) ==
    /\ a \notin lister[l].panes
    /\ ownerMatchesSnapshot(l, a)
    /\ lister[l].seen[a] # "provisioning" /\ owner[a] # "provisioning"

\* One agent of the snapshot: reported, skipped, or removed as an orphan.
ListAgent(l, a) ==
    /\ lister[l].at = "panes" /\ a \in DOMAIN lister[l].seen
    /\ lister' = [lister EXCEPT ![l].seen = [b \in DOMAIN @ \ {a} |-> @[b]]]
    /\ IF IsOrphan(l, a)
       THEN /\ stored' = stored \ {a}
            /\ watched' = IF a \in stored THEN watched \ {a} ELSE watched
            /\ owner' = [owner EXCEPT ![a] = "none"]
       ELSE UNCHANGED <<stored, watched, owner>>
    /\ UNCHANGED <<start, pane, leaving>>

ListAgentsDone(l) ==
    /\ lister[l].at = "panes" /\ lister[l].seen = [a \in {} |-> "none"]
    /\ lister' = [lister EXCEPT ![l] = Idle]
    /\ UNCHANGED <<stored, owner, start, watched, pane, leaving>>

ListStep(l) ==
    snapshotAgents(l) \/ ListPanes(l) \/ ListAgentsDone(l) \/ \E a \in Agents : ListAgent(l, a)

\* A StartAgent request, once it is registered.
StartStep(a) == StartMonitor(a) \/ ObtainPane(a) \/ cleanupOwnedRecord(a) \/ markOwnerState(a)

ServiceNext ==
    \/ \E a \in Agents :
          \/ registerStart(a) \/ StartStep(a) \/ PaneClosed(a) \/ DeleteClosed(a) \/ Cleanup(a)
    \/ \E l \in Listers : ListStep(l)

-----------------------------------------------------------------------------
(* Properties.                                                             *)

\* An agent with an open pane keeps its record, and its monitor entry if it has a
\* kind that is tracked: no concurrent ListAgents removes an agent that is starting.
RunningAgentKept ==
    \A a \in Agents :
       start[a] \in {"registered", "watched", "placed", "done"} /\ pane[a] \in {"none", "open"} =>
          /\ a \in stored
          /\ a \in Tracked /\ start[a] # "registered" => a \in watched

\* A start that failed leaves neither a record nor an owner nor a monitor entry.
FailedStartLeavesNothing ==
    \A a \in Agents :
       start[a] = "failed" => a \notin stored /\ a \notin watched /\ owner[a] = "none"

\* The record of an agent whose pane was cleaned up silently does not stay: a
\* later ListAgents removes it.
OrphansRemoved ==
    []<>(\A a \in Agents : pane[a] = "removed" => a \notin stored /\ a \notin watched)

\* Starting an agent is all or nothing, whatever is listed or cleaned up meanwhile.
StartIsAllOrNothing == RunningAgentKept /\ FailedStartLeavesNothing
=============================================================================
