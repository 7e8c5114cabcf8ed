---------------------------- MODULE PaneRegistry ----------------------------
(***************************************************************************)
(* The registry of managed panes (internal/registry), the runtime          *)
(* operations that change it (internal/runtime), and its image in SQLite   *)
(* (internal/persistence) across crashes.                                  *)
(*                                                                         *)
(* Every runtime operation first reads records, then talks to Zellij for   *)
(* as long as that takes, then applies its verdict with the generation it  *)
(* read.  `snap' holds what each caller read; between the two steps other  *)
(* callers close, remove and re-register the same pane.                    *)
(*                                                                         *)
(* A mutation enqueues the rows session, tab, pane and generation counter. *)
(* The writer commits batches of at most 256 rows whose borders fall       *)
(* anywhere, since other producers share the FIFO: committing single rows  *)
(* reaches every durable state a crash can leave behind.                   *)
(*                                                                         *)
(* Definitions marked "Slip" are plausible mistakes in the definition that *)
(* follows; they only serve to test the properties.                        *)
(***************************************************************************)
EXTENDS Naturals, Sequences, FiniteSets

CONSTANTS
    PaneIDs, ZellijPaneIDs, SessionIDs, TabIDs,
    Callers,       \* concurrent runtime operations
    MaxGeneration, \* bound: registrations
    MaxFifo,       \* bound: rows waiting in the writer
    MaxCrashes     \* bound: daemon crashes

ASSUME RegistryAssumption ==
    /\ {MaxGeneration, MaxFifo, MaxCrashes} \subseteq Nat
    /\ ZellijPaneIDs # {} /\ SessionIDs # {} /\ TabIDs # {}

VARIABLES
    panes,          \* Registry.sessions[..].Tabs[..].Panes, by pane ID
    nextGeneration,
    latestByZellij, \* the set of pane IDs the index holds for a Zellij pane
    snap,           \* what a caller read before it talked to Zellij
    up,             \* "up", "down", or "refused": NewPersistent failed
    pending,        \* rows in the writer's FIFO
    db,             \* committed rows
    crashes,
    \* history
    committed,      \* the highest generation that ever reached the disk
    notices         \* close notifications per generation of this daemon

vars == <<panes, nextGeneration, latestByZellij, snap, up, pending, db, crashes,
          committed, notices>>

Terminal == {"closed", "exited", "lost"}
Status   == Terminal \cup {"starting", "running", "error"}

\* A record; generation 0 stands for no record.
Pane == [gen: Nat, zellij: ZellijPaneIDs, session: SessionIDs, tab: TabIDs,
         status: Status, claimed: BOOLEAN]
NoPane == [gen |-> 0, zellij |-> CHOOSE z \in ZellijPaneIDs : TRUE,
           session |-> CHOOSE s \in SessionIDs : TRUE, tab |-> CHOOSE t \in TabIDs : TRUE,
           status |-> "closed", claimed |-> FALSE]
Seen   == [gen: Nat, status: Status]
Unseen == [gen |-> 0, status |-> "closed"]

Row == [table: {"sessions"}, session: SessionIDs]
       \cup [table: {"tabs"}, session: SessionIDs, tab: TabIDs]
       \cup [table: {"panes"}, id: PaneIDs, value: Pane]
       \cup [table: {"metadata"}, gen: Nat]
Store == [sessions: SUBSET SessionIDs, tabs: SUBSET (SessionIDs \X TabIDs),
          panes: [PaneIDs -> Pane], gen: Nat]

exists(id) == panes[id].gen # 0
isTerminalPaneStatus(s) == s \in Terminal
active(p) == p.gen # 0 /\ ~isTerminalPaneStatus(p.status)
SameZellij(p, r) == p.zellij = r.zellij /\ p.session = r.session

\* closeNotificationClaimed is not exported, so it is never stored.
Stored(p) == [p EXCEPT !.claimed = FALSE]

-----------------------------------------------------------------------------
(* Registry                                                                *)

\* saveLocked: the rows of one mutation, parents first; NoPane deletes the row.
saveLocked(id, where, value, gen) ==
    /\ Len(pending) + 4 <= MaxFifo
    /\ pending' = pending \o
         << [table |-> "sessions", session |-> where.session],
            [table |-> "tabs", session |-> where.session, tab |-> where.tab],
            [table |-> "panes", id |-> id, value |-> Stored(value)],
            [table |-> "metadata", gen |-> gen] >>

put(id, p) ==
    /\ panes' = [panes EXCEPT ![id] = p]
    /\ saveLocked(id, p, p, nextGeneration)
    /\ UNCHANGED <<nextGeneration, latestByZellij>>

keep == UNCHANGED <<panes, pending, nextGeneration, latestByZellij>>

notify(g, yes) == notices' = IF yes THEN [notices EXCEPT ![g] = @ + 1] ELSE notices

\* Slip: generations are not compared.
currentAlways(c, id) == TRUE

\* The record the caller read is still the one in the registry.
current(c, id) == panes[id].gen = snap[c][id].gen

validateActiveZellijPaneUnique(s, z) ==
    \A id \in PaneIDs : ~(active(panes[id]) /\ panes[id].session = s /\ panes[id].zellij = z)

RegisterPane(id, s, t, z) ==
    LET g == nextGeneration + 1
        p == [gen |-> g, zellij |-> z, session |-> s, tab |-> t,
              status |-> "starting", claimed |-> FALSE]
    IN /\ up = "up" /\ g <= MaxGeneration
       /\ ~exists(id) /\ validateActiveZellijPaneUnique(s, z)
       /\ nextGeneration' = g
       /\ panes' = [panes EXCEPT ![id] = p]
       /\ saveLocked(id, p, p, g)
       /\ latestByZellij' = [latestByZellij EXCEPT ![z] = {id}]
       /\ UNCHANGED <<snap, up, db, crashes, committed, notices>>

\* updatePaneStatusGeneration, also applied to a terminal record.
UpdatePaneStatusGeneration(c, id, s) ==
    IF exists(id) /\ current(c, id) THEN put(id, [panes[id] EXCEPT !.status = s]) ELSE keep

UpdateActivePaneStatusGeneration(c, id, s) ==
    IF current(c, id) /\ active(panes[id]) THEN put(id, [panes[id] EXCEPT !.status = s]) ELSE keep

\* Slip: the claim is not recorded.
ClaimUnrecorded(c, id, s) ==
    IF exists(id) /\ current(c, id)
    THEN /\ put(id, [panes[id] EXCEPT !.status = IF isTerminalPaneStatus(@) THEN @ ELSE s])
         /\ notify(panes[id].gen, ~panes[id].claimed)
    ELSE keep /\ UNCHANGED notices

ClaimPaneClosureGeneration(c, id, s) ==
    IF exists(id) /\ current(c, id)
    THEN /\ put(id, [panes[id] EXCEPT !.status = IF isTerminalPaneStatus(@) THEN @ ELSE s,
                                      !.claimed = TRUE])
         /\ notify(panes[id].gen, ~panes[id].claimed)
    ELSE keep /\ UNCHANGED notices

removePaneLocked(id) ==
    /\ panes' = [panes EXCEPT ![id] = NoPane]
    /\ saveLocked(id, panes[id], NoPane, nextGeneration)
    /\ latestByZellij' = [latestByZellij EXCEPT ![panes[id].zellij] = @ \ {id}]
    /\ UNCHANGED nextGeneration

RemovePaneGeneration(c, id) ==
    IF exists(id) /\ current(c, id) THEN removePaneLocked(id) ELSE keep

RemovePaneGenerationClaimingClosure(c, id) ==
    IF exists(id) /\ current(c, id)
    THEN removePaneLocked(id) /\ notify(panes[id].gen, ~panes[id].claimed)
    ELSE keep /\ UNCHANGED notices

-----------------------------------------------------------------------------
(* Runtime operations                                                      *)

\* lookupPane, or one record of ListPanes.
Read(c, id) ==
    /\ up = "up" /\ exists(id) /\ snap[c][id] = Unseen
    /\ snap' = [snap EXCEPT ![c][id] = [gen |-> panes[id].gen, status |-> panes[id].status]]
    /\ UNCHANGED <<panes, nextGeneration, latestByZellij, up, pending, db, crashes,
                   committed, notices>>

\* The operation of c on what it read of id ends.
Ends(c, id) ==
    /\ up = "up" /\ snap[c][id].gen # 0
    /\ snap' = [snap EXCEPT ![c][id] = Unseen]
    /\ UNCHANGED <<up, db, crashes, committed>>

\* Service.reconcileRecord: the pane is missing, exited or live in the listing.
reconcileRecord(c, id) ==
    /\ Ends(c, id)
    /\ LET seen == snap[c][id].status IN
       IF seen = "exited" THEN RemovePaneGenerationClaimingClosure(c, id)
       ELSE IF isTerminalPaneStatus(seen) THEN ClaimPaneClosureGeneration(c, id, seen)
       ELSE \/ ClaimPaneClosureGeneration(c, id, "lost")
            \/ RemovePaneGenerationClaimingClosure(c, id)
            \/ seen # "running" /\ UpdateActivePaneStatusGeneration(c, id, "running")
                                /\ UNCHANGED notices
            \/ seen = "running" /\ keep /\ UNCHANGED notices

ClosePane(c, id) ==
    /\ Ends(c, id)
    /\ \/ ClaimPaneClosureGeneration(c, id, "closed")
       \/ UpdateActivePaneStatusGeneration(c, id, "error") /\ UNCHANGED notices

\* SendInput and SnapshotOutput when the backend fails.
InputOrSnapshotFails(c, id) ==
    /\ Ends(c, id)
    /\ UpdatePaneStatusGeneration(c, id, "error")
    /\ UNCHANGED notices

\* SendInput when it succeeds: the instruction text is saved with the record.
RecordPaneInstructionGeneration(c, id) ==
    /\ Ends(c, id)
    /\ IF exists(id) /\ current(c, id) THEN put(id, panes[id]) ELSE keep
    /\ UNCHANGED notices

\* Cleanup, and cleanupCreatedPane after a failed initialisation: the record is
\* released without a close notification.
Cleanup(c, id) ==
    /\ Ends(c, id)
    /\ \/ RemovePaneGeneration(c, id)
       \/ ~isTerminalPaneStatus(snap[c][id].status) /\ UpdatePaneStatusGeneration(c, id, "error")
    /\ UNCHANGED notices

\* SubscriptionManager.run and handlePaneClosed for the captured record.
Subscription(c, id) ==
    /\ Ends(c, id)
    /\ \/ RemovePaneGenerationClaimingClosure(c, id)
       \/ /\ \E s \in {"running", "error"} : UpdateActivePaneStatusGeneration(c, id, s)
          /\ UNCHANGED notices

-----------------------------------------------------------------------------
(* Writer, crash and restart                                               *)

Apply(row, store) ==
    CASE row.table = "sessions" -> [store EXCEPT !.sessions = @ \cup {row.session}]
      [] row.table = "tabs"     -> [store EXCEPT !.tabs = @ \cup {<<row.session, row.tab>>}]
      [] row.table = "panes"    -> [store EXCEPT !.panes[row.id] = row.value]
      [] OTHER                  -> [store EXCEPT !.gen = row.gen]

RowGeneration(row) ==
    CASE row.table = "panes" -> row.value.gen [] row.table = "metadata" -> row.gen [] OTHER -> 0

higher(a, b) == IF a >= b THEN a ELSE b

Commit ==
    /\ pending # <<>>
    /\ db' = Apply(Head(pending), db)
    /\ pending' = Tail(pending)
    /\ committed' = higher(committed, RowGeneration(Head(pending)))
    /\ UNCHANGED <<panes, nextGeneration, latestByZellij, snap, up, crashes, notices>>

Crash ==
    /\ up = "up" /\ crashes < MaxCrashes
    /\ up' = "down" /\ crashes' = crashes + 1 /\ pending' = <<>>
    /\ UNCHANGED <<panes, nextGeneration, latestByZellij, snap, db, committed, notices>>

\* NewPersistent rejects a pane without its tab or session, and two active panes
\* on one Zellij pane of a session.
HasParents(store, id) ==
    store.panes[id].gen # 0
        => /\ store.panes[id].session \in store.sessions
           /\ <<store.panes[id].session, store.panes[id].tab>> \in store.tabs
NoSharedZellij(store) ==
    \A i, j \in PaneIDs :
        active(store.panes[i]) /\ active(store.panes[j])
        /\ SameZellij(store.panes[i], store.panes[j]) => i = j
Loadable(store) == (\A id \in PaneIDs : HasParents(store, id)) /\ NoSharedZellij(store)

\* Slip: a record is indexed whatever its generation.
AnyRecord(store, z) == {id \in PaneIDs : store.panes[id].gen # 0 /\ store.panes[id].zellij = z}

\* The index selects the latest generation across sessions.
Latest(store, z) ==
    {id \in PaneIDs : /\ store.panes[id].gen # 0 /\ store.panes[id].zellij = z
                      /\ \A j \in PaneIDs : store.panes[j].zellij = z
                            => store.panes[j].gen <= store.panes[id].gen}

\* Slip: only the surviving panes are consulted.
RestoredFromPanes(store, g) ==
    /\ \A id \in PaneIDs : store.panes[id].gen <= g
    /\ \E id \in PaneIDs : g = store.panes[id].gen

\* The counter is at least the stored one and every stored pane's generation.
RestoredGeneration(store, g) ==
    /\ \A id \in PaneIDs : store.panes[id].gen <= g
    /\ store.gen <= g
    /\ g = store.gen \/ \E id \in PaneIDs : g = store.panes[id].gen

NewPersistent ==
    /\ up = "down"
    /\ IF Loadable(db)
       THEN /\ up' = "up" /\ panes' = db.panes
            /\ latestByZellij' = [z \in ZellijPaneIDs |-> Latest(db, z)]
            /\ \E g \in {db.gen} \cup {db.panes[id].gen : id \in PaneIDs} :
                  RestoredGeneration(db, g) /\ nextGeneration' = g
            /\ snap' = [c \in Callers |-> [id \in PaneIDs |-> Unseen]]
            /\ notices' = [g \in 1..MaxGeneration |-> 0]
       ELSE up' = "refused" /\ UNCHANGED <<panes, nextGeneration, latestByZellij, snap, notices>>
    /\ UNCHANGED <<pending, db, crashes, committed>>

-----------------------------------------------------------------------------
Init ==
    /\ panes = [id \in PaneIDs |-> NoPane]
    /\ nextGeneration = 0
    /\ latestByZellij = [z \in ZellijPaneIDs |-> {}]
    /\ snap = [c \in Callers |-> [id \in PaneIDs |-> Unseen]]
    /\ up = "up" /\ pending = <<>> /\ crashes = 0
    /\ db = [sessions |-> {}, tabs |-> {}, panes |-> [id \in PaneIDs |-> NoPane], gen |-> 0]
    /\ committed = 0 /\ notices = [g \in 1..MaxGeneration |-> 0]

Operation(c, id) ==
    \/ Read(c, id) \/ reconcileRecord(c, id) \/ ClosePane(c, id) \/ InputOrSnapshotFails(c, id)
    \/ RecordPaneInstructionGeneration(c, id) \/ Cleanup(c, id) \/ Subscription(c, id)

Next ==
    \/ \E id \in PaneIDs, s \in SessionIDs, t \in TabIDs, z \in ZellijPaneIDs :
            RegisterPane(id, s, t, z)
    \/ \E c \in Callers, id \in PaneIDs : Operation(c, id)
    \/ Commit \/ Crash \/ NewPersistent

Spec == Init /\ [][Next]_vars

-----------------------------------------------------------------------------
(* Properties                                                              *)

\* Every variable keeps its type.
TypeOK ==
    /\ panes \in [PaneIDs -> Pane]
    /\ nextGeneration \in Nat
    /\ latestByZellij \in [ZellijPaneIDs -> SUBSET PaneIDs]
    /\ snap \in [Callers -> [PaneIDs -> Seen]]
    /\ up \in {"up", "down", "refused"}
    /\ pending \in Seq(Row) /\ db \in Store
    /\ crashes \in Nat /\ committed \in Nat
    /\ notices \in [1..MaxGeneration -> Nat]

\* "Generation high-water mark, preserved after pane deletion": a generation that
\* ever reached the disk is never given out again.
HighWaterMarkKept == up = "up" => nextGeneration >= committed

\* So it is until a second crash, even when the pane was deleted and the daemon died
\* at any row of any batch.  A second crash can find the mark behind the pane it was
\* raised for, and that pane deleted.
GenerationNeverReused == crashes <= 1 => HighWaterMarkKept

\* At every crash point the stored panes have their session and tab rows, so the
\* hierarchy can always be rebuilt.
HierarchyRestorable == \A id \in PaneIDs : HasParents(db, id)

\* However many callers race to close a pane (user, reconcile, close frame), its
\* generation is announced as closed at most once per daemon lifetime.
ClosureAnnouncedOnce == \A g \in DOMAIN notices : notices[g] <= 1

\* A drained FIFO leaves SQLite equal to memory: no mutation bypasses the log or
\* overtakes another one.
DrainedStoreMatches ==
    up = "up" /\ pending = <<>> =>
        \A id \in PaneIDs : db.panes[id] = Stored(panes[id])

\* A record is only ever changed by an operation that read this very generation:
\* a caller that slept through a close and a re-registration of the pane ID
\* leaves the new pane alone.
StaleCallersAreHarmless ==
    [][up = "up" /\ up' = "up" =>
        \A id \in PaneIDs : exists(id) /\ panes'[id] # panes[id] =>
            \E c \in Callers : snap[c][id].gen = panes[id].gen /\ snap'[c][id] = Unseen]_vars

\* "NewPersistent restores the hierarchy and rebuilds derived indexes": whatever
\* the registry saved, the next daemon accepts.
RestoreNeverRefused == up # "refused"

\* The index from a Zellij pane never dangles and never names an older record
\* while a newer one of the same Zellij pane exists.
LatestIsLatest ==
    up = "up" => \A z \in ZellijPaneIDs : \A id \in latestByZellij[z] :
        /\ exists(id) /\ panes[id].zellij = z
        /\ \A j \in PaneIDs : panes[j].zellij = z => panes[j].gen <= panes[id].gen

\* Where memory has an entry, a restart that finds everything stored builds the same
\* one.  It may build one where memory has none: removePaneLocked drops the entry of the
\* newest record without going back to an older one, which NewPersistent then indexes.
RestartAgreesOnLatest ==
    up = "up" /\ pending = <<>> =>
        \A z \in ZellijPaneIDs : latestByZellij[z] # {} => latestByZellij[z] = Latest(db, z)

\* What a restart finds.  No generation is given out again (up to a second crash), and
\* every stored pane has its session and tab, whichever row was the last to reach the
\* disk.  The index, before and after, names the newest record of a Zellij pane or none.
\* A daemon that dies with nothing waiting loses no record and no entry of the index.
RestartFindsRegistry ==
    /\ GenerationNeverReused /\ HierarchyRestorable /\ LatestIsLatest
    /\ DrainedStoreMatches /\ RestartAgreesOnLatest
=============================================================================
