---------------------------- MODULE WorkerPanes ----------------------------
(***************************************************************************)
(* The daemon as the ticket manager sees it: CreatePane with its single    *)
(* flight per pane ID (internal/runtime/service.go), the record of each    *)
(* worker pane and the Zellij pane behind it.  A definition marked "Slip"  *)
(* is a plausible mistake in the one that follows and only serves to test  *)
(* the properties.                                                         *)
(*                                                                         *)
(* A worker's pane ID is a function of its ticket, so everything is        *)
(* indexed by ticket.  At most one CreatePane response is awaited, since   *)
(* the manager has one loop; a call whose client gave up keeps running.    *)
(***************************************************************************)
EXTENDS Naturals

CONSTANT Tickets  \* ticket IDs

VARIABLES
    call,     \* Service.creates: "none", "running", "made" (a Zellij pane exists
              \* that is not registered yet), "ok", "partial"
    rec,      \* the pane record: "none", "active" (starting, running), "error",
              \* "gone" (closed, exited, lost), "revived" (error after gone)
    live,     \* the Zellij pane of the record runs
    printed,  \* the completion marker stands on that pane's screen
    waiting,  \* the ticket whose CreatePane the manager awaits, or 0
    reply,    \* its response: "none", "ok", "safe", "unsafe"
    \* history
    strays    \* tickets that may have a worker no one knows of: the record was removed
              \* that kept a create nobody waits for from registering its pane, or a
              \* create failed as if it left nothing while a worker ran

paneVars == <<call, rec, live, printed, waiting, reply, strays>>

CallState == {"none", "running", "made", "ok", "partial"}
RecState  == {"none", "active", "error", "gone", "revived"}

PaneTypeOK ==
    /\ call \in [Tickets -> CallState]
    /\ rec \in [Tickets -> RecState]
    /\ live \in [Tickets -> BOOLEAN]
    /\ printed \in [Tickets -> BOOLEAN]
    /\ waiting \in Tickets \cup {0}
    /\ reply \in {"none", "ok", "safe", "unsafe"}
    /\ strays \subseteq Tickets

PaneInit ==
    /\ call = [t \in Tickets |-> "none"]
    /\ rec = [t \in Tickets |-> "none"]
    /\ live = [t \in Tickets |-> FALSE]
    /\ printed = [t \in Tickets |-> FALSE]
    /\ waiting = 0
    /\ reply = "none"
    /\ strays = {}

-----------------------------------------------------------------------------
(* CreatePane                                                              *)

\* A finished call is forgotten once its pane is no longer active.  A partial
\* one stays: worker requests have no initial input, so a partial failure never
\* has a created record to compare with.
Forgotten(t) == call[t] = "ok" /\ rec[t] # "active"

\* CreatePane arrives: it leads a new call, joins a running one, or is answered
\* from the finished one.  A worker's request is the same each time.
beginCreatePane(t) ==
    LET leads == call[t] = "none" \/ Forgotten(t)
    IN  /\ call' = IF leads THEN [call EXCEPT ![t] = "running"] ELSE call
        /\ reply' = CASE ~leads /\ call[t] = "ok"      -> "ok"
                      [] ~leads /\ call[t] = "partial" -> "unsafe"
                      [] OTHER                         -> "none"
        /\ waiting' = t

\* The leader ends: everyone who waits gets its answer; failures are evicted,
\* except those whose clean-up failed.
finishCreatePane(t, c, answer) ==
    /\ call' = [call EXCEPT ![t] = c]
    /\ reply' = IF waiting = t THEN answer ELSE reply
    /\ UNCHANGED waiting

\* The anchor pane is gone, inactive or elsewhere: not_found or bad_request.
resolveCreatePaneTarget(t) ==
    /\ call[t] = "running"
    /\ finishCreatePane(t, "none", "safe")
    /\ strays' = IF live[t] THEN strays \cup {t} ELSE strays
    /\ UNCHANGED <<rec, live, printed>>

\* Zellij refuses, or the context of the leading request ends.
BackendFails(t) ==
    /\ call[t] = "running"
    /\ finishCreatePane(t, "none", "unsafe")
    /\ UNCHANGED <<rec, live, printed, strays>>

createBackendPane(t) ==
    /\ call[t] = "running"
    /\ call' = [call EXCEPT ![t] = "made"]
    /\ UNCHANGED <<rec, live, printed, waiting, reply, strays>>

\* RegisterPane accepts an ID that has no record of any status; otherwise the
\* new Zellij pane is closed again, which may fail.
createPaneOnce(t) ==
    /\ call[t] = "made"
    /\ IF rec[t] = "none"
         THEN /\ finishCreatePane(t, "ok", "ok")
              /\ rec' = [rec EXCEPT ![t] = "active"]
              /\ live' = [live EXCEPT ![t] = TRUE]
              /\ printed' = [printed EXCEPT ![t] = FALSE]
         ELSE /\ \E c \in {"none", "partial"} : finishCreatePane(t, c, "unsafe")
              /\ UNCHANGED <<rec, live, printed>>
    /\ UNCHANGED strays

-----------------------------------------------------------------------------
(* Reads and ClosePane, as the sets of their outcomes                      *)

\* A backend error marks a record as failed; ClosePane spares terminal ones,
\* SnapshotOutput does not.
FailedClose(r)    == IF r = "active" THEN "error" ELSE r
FailedSnapshot(r) == CASE r = "active" -> "error" [] r = "gone" -> "revived" [] OTHER -> r

Unreachable(t) == [rec |-> rec[t], live |-> live[t], ok |-> FALSE]

\* The pane is closed (and the response may be lost), Zellij fails, or nobody
\* answers.
ClosePane(t) ==
    {Unreachable(t)} \cup
    IF rec[t] = "none" THEN {}
    ELSE {[rec |-> FailedClose(rec[t]), live |-> live[t], ok |-> FALSE]} \cup
         IF live[t] THEN [rec: {"gone"}, live: {FALSE}, ok: BOOLEAN] ELSE {}

\* Seen: "notfound", "error", "plain", or "marker" when an active record's screen
\* shows the completion marker.
SnapshotOutput(t) ==
    {[rec |-> rec[t], seen |-> "error"]} \cup
    IF rec[t] = "none" THEN {[rec |-> "none", seen |-> "notfound"]}
    ELSE {[rec |-> FailedSnapshot(rec[t]), seen |-> "error"]} \cup
         IF live[t] THEN {[rec |-> rec[t],
                           seen |-> IF printed[t] /\ rec[t] = "active" THEN "marker" ELSE "plain"]}
                    ELSE {}

\* Slip: a record of any status takes capacity.
anyRecordConsumesCapacity(t) == rec[t] # "none"

\* A record of any status stands for the worker.
matchesWorkerPane(t)    == rec[t] # "none"
paneConsumesCapacity(t) == rec[t] \notin {"none", "gone"}

-----------------------------------------------------------------------------
(* The worker and what the daemon notices of it                            *)

WorkerExits(t) ==
    /\ live[t]
    /\ live' = [live EXCEPT ![t] = FALSE]
    /\ printed' = [printed EXCEPT ![t] = FALSE]
    /\ UNCHANGED <<call, rec, waiting, reply, strays>>

\* The record is removed, and with it what keeps a create that still goes on from
\* registering a worker.
Removes(t, wanted) ==
    /\ rec' = [rec EXCEPT ![t] = "none"]
    /\ strays' = IF call[t] \in {"running", "made"} /\ ~wanted THEN strays \cup {t} ELSE strays

\* The subscription reports the end of the pane, or reconcile still sees it as
\* exited: the record is removed, whatever its status.
handlePaneClosed(t, wanted) ==
    /\ ~live[t] /\ rec[t] # "none"
    /\ Removes(t, wanted)
    /\ UNCHANGED <<call, live, printed, waiting, reply>>

\* Cleanup, asked for by somebody else: the pane is closed, if it runs, and its record
\* released.
Cleanup(t, wanted) ==
    /\ rec[t] # "none"
    /\ Removes(t, wanted)
    /\ live' = [live EXCEPT ![t] = FALSE]
    /\ printed' = [printed EXCEPT ![t] = FALSE]
    /\ UNCHANGED <<call, waiting, reply>>

\* The subscription ends with an error, or somebody else's clean-up, input or snapshot
\* fails; only the first spares terminal records.
PaneFails(t) ==
    /\ rec[t] \in {"active", "gone"}
    /\ rec' = [rec EXCEPT ![t] = FailedSnapshot(@)]
    /\ UNCHANGED <<call, live, printed, waiting, reply, strays>>

\* Reconcile: a missing pane is lost, a live one runs.
reconcileRecord(t) ==
    /\ \/ ~live[t] /\ rec[t] \in {"active", "error", "revived"}
       \/ live[t] /\ rec[t] = "error"
    /\ rec' = [rec EXCEPT ![t] = IF live[t] THEN "active" ELSE "gone"]
    /\ UNCHANGED <<call, live, printed, waiting, reply, strays>>

CreatePane(t) ==
    resolveCreatePaneTarget(t) \/ BackendFails(t) \/ createBackendPane(t) \/ createPaneOnce(t)

\* wanted: somebody waits for the outcome of the create under way, or will look it up.
DaemonStep(t, wanted) ==
    CreatePane(t) \/ WorkerExits(t) \/ handlePaneClosed(t, wanted) \/ reconcileRecord(t)

\* What others do to the pane.
Interference(t, wanted) == Cleanup(t, wanted) \/ PaneFails(t)

=============================================================================
