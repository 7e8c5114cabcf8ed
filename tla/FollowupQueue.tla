--------------------------- MODULE FollowupQueue ---------------------------
(***************************************************************************)
(* The durable queue of follow-up instructions of one coding agent         *)
(* (internal/followup).  A dispatcher scans the queue once a second and    *)
(* types the next instruction into the agent's terminal; users add, edit,  *)
(* cancel, resolve, pause and resume concurrently; every change is saved   *)
(* through the daemon's FIFO writer, whose commit can be slow, fail, or    *)
(* have an outcome its caller never learns; the daemon can crash anywhere. *)
(*                                                                         *)
(* Queues of different agents share nothing but the FIFO, so one queue is  *)
(* modelled.  The entry lock is held by the location `pc': a dispatcher    *)
(* scan or an Update that waits for a commit keeps it, "free" is unlocked. *)
(*                                                                         *)
(* An item is identified by its position: items are only ever appended.    *)
(* A queue without a row in SQLite is the empty queue.                     *)
(*                                                                         *)
(* Definitions marked "Slip" are not part of the specification.  Each is a *)
(* plausible mistake in the definition after it, and the properties are    *)
(* tested by showing that they notice it.                                  *)
(***************************************************************************)
EXTENDS Integers, Sequences, FiniteSets

CONSTANTS
    Requests,      \* request IDs clients use for idempotent adds
    NoRequest,     \* an add without a request ID
    Texts,         \* instruction texts
    MaxPending,    \* the limit of pending instructions (100 in the code)
    MaxItems,      \* bound: items ever added to the queue
    MaxFifo,       \* bound: changes of this queue waiting in the writer
    MaxCrashes,    \* bound: daemon crashes
    MaxEpoch,      \* bound: monitor restarts within one daemon lifetime
    MaxRevision    \* bound: working periods observed in one epoch

ASSUME FollowupAssumption ==
    /\ NoRequest \notin Requests
    /\ {MaxPending, MaxItems, MaxFifo, MaxCrashes, MaxEpoch, MaxRevision} \subseteq Nat

VARIABLES
    q,          \* entry.queue, the daemon's copy
    dirty,      \* entry.dirty: the last change of q is not known to be saved
    pc,         \* where the holder of entry.mu is
    wait,       \* the place in pending of the save being waited for; 0 once
                \*   committed, Refused if the writer never accepted it
    op,         \* what the Update being saved will acknowledge
    obs,        \* the observation a scan works with
    pending,    \* saves accepted by the writer, not yet committed
    durable,    \* the committed row
    ready,      \* agent: an explicit idle signal and an empty prompt
    epoch,      \* agent: monitor epoch
    rev,        \* agent: working periods the monitor has seen in this epoch
    worked,     \* LastWorkingAt is not before AttemptedAt
    late,       \* StartTimeout has passed since AttemptedAt
    crashes,
    \* history
    log,        \* instructions typed into the terminal, in order
    unsettled,  \* typed, with neither work observed nor a user's decision since
    acks,       \* user decisions that were acknowledged with success
    pauseAcked  \* a pause was acknowledged and no resume was asked for since

writerVars == <<pending, durable>>
agentVars  == <<ready, epoch, rev, worked, late>>
histVars   == <<log, unsettled, acks, pauseAcked>>
vars == <<q, dirty, pc, wait, op, obs, writerVars, agentVars, crashes, histVars>>

Refused == -1

ItemState == {"queued", "sending", "sent", "attention", "canceled"}
Phase     == {"ready", "sending", "awaiting", "working", "attention"}
Item      == [req: Requests \cup {NoRequest}, text: Texts, state: ItemState]
Queue     == [items: Seq(Item), active: Nat, phase: Phase, paused: BOOLEAN,
              base: Nat, oep: Nat]
EmptyQueue == [items |-> <<>>, active |-> 0, phase |-> "ready", paused |-> FALSE,
               base |-> 0, oep |-> 0]

\* Locations that wait for a save, and the others.
Saving  == {"recover", "update", "resave", "attn", "working", "done", "claim",
            "unclaim", "sent"}
Running == {"free", "observe", "judge", "pick", "recheck", "send", "write", "written"}
Ops     == [kind: {"none", "add", "cancel", "resolve", "pause"}, item: Nat]
NoOp    == [kind |-> "none", item |-> 0]
Obs     == [ready: BOOLEAN, epoch: Nat, rev: Nat]
NoObs   == [ready |-> FALSE, epoch |-> 0, rev |-> 0]

-----------------------------------------------------------------------------
(* Helpers                                                                 *)

PendingItems(z) == {i \in DOMAIN z.items : z.items[i].state \in {"queued", "sending", "attention"}}
PendingCount(z) == Cardinality(PendingItems(z))
QueuedItems(z)  == {i \in DOMAIN z.items : z.items[i].state = "queued"}
SetState(z, i, s) == [z EXCEPT !.items[i].state = s]

\* Slip: the queue is parked but the item is not marked.
attentionUnmarked(z) == [z EXCEPT !.phase = "attention", !.paused = TRUE]

\* Service.attention: park the queue until a user decides about the active item.
attention(z) ==
    [z EXCEPT !.phase = "attention", !.paused = TRUE,
              !.items = [i \in DOMAIN z.items |->
                            IF i = z.active THEN [z.items[i] EXCEPT !.state = "attention"]
                                            ELSE z.items[i]]]

\* The claimed item goes back to the queue: nothing was typed.
unclaim(z) == [SetState(z, z.active, "queued") EXCEPT !.active = 0, !.phase = "ready"]

\* Service.save: the copy is marked dirty, then handed to EnqueueAndWait, which
\* refuses it (cancelled context, closed writer) or appends it to the FIFO.
save(z, cont) ==
    /\ q' = z
    /\ dirty' = TRUE
    /\ pc' = cont
    /\ \/ Len(pending) < MaxFifo /\ pending' = Append(pending, z) /\ wait' = Len(pending) + 1
       \/ pending' = pending /\ wait' = Refused
    /\ UNCHANGED <<durable, crashes>>

Goto(loc) == pc' = loc /\ UNCHANGED <<q, dirty, wait, op, pending, durable, crashes>>

\* Return without saving; obs is a local of the scan.
Return == Goto("free") /\ obs' = NoObs

-----------------------------------------------------------------------------
Init ==
    /\ q = EmptyQueue /\ durable = EmptyQueue
    /\ dirty = FALSE /\ pc = "free" /\ wait = 0 /\ op = NoOp
    /\ obs = NoObs
    /\ pending = <<>>
    /\ ready = FALSE /\ epoch = 1 /\ rev = 0 /\ worked = FALSE /\ late = FALSE
    /\ crashes = 0
    /\ log = <<>> /\ unsettled = {} /\ acks = {} /\ pauseAcked = FALSE

-----------------------------------------------------------------------------
(* Service.Update                                                          *)

UpdateSaves(z, what) ==
    /\ save(z, "update")
    /\ op' = what
    /\ UNCHANGED <<obs, agentVars>>

Add(r, t) ==
    LET same == {i \in DOMAIN q.items : r # NoRequest /\ q.items[i].req = r} IN
    /\ pc = "free"
    /\ UNCHANGED <<log, unsettled, pauseAcked>>
    /\ \/ /\ same = {}
          /\ PendingCount(q) < MaxPending /\ Len(q.items) < MaxItems
          /\ UpdateSaves([q EXCEPT !.items = Append(@, [req |-> r, text |-> t, state |-> "queued"])],
                         [kind |-> "add", item |-> Len(q.items) + 1])
          /\ UNCHANGED acks
       \/ \E i \in same :
          /\ q.items[i].text = t
          /\ IF dirty
             THEN UpdateSaves(q, [kind |-> "add", item |-> i]) /\ UNCHANGED acks
             ELSE /\ acks' = acks \cup {[kind |-> "add", item |-> i]}
                  /\ Goto("free") /\ UNCHANGED <<obs, agentVars>>

\* Slip: an item that is not queued can be edited.
EditAny(i, t) ==
    /\ pc = "free" /\ i \in DOMAIN q.items
    /\ UpdateSaves([q EXCEPT !.items[i].text = t], NoOp)
    /\ UNCHANGED histVars

Edit(i, t) ==
    /\ pc = "free" /\ i \in QueuedItems(q)
    /\ UpdateSaves([q EXCEPT !.items[i].text = t], NoOp)
    /\ UNCHANGED histVars

Cancel(i) ==
    /\ pc = "free"
    /\ \/ /\ i \in QueuedItems(q)
          /\ UpdateSaves(SetState(q, i, "canceled"), [kind |-> "cancel", item |-> i])
          /\ UNCHANGED unsettled
       \/ /\ i \in DOMAIN q.items /\ q.items[i].state = "attention" /\ q.active = i
          /\ UpdateSaves([SetState(q, i, "canceled") EXCEPT
                            !.active = 0, !.phase = "ready", !.paused = TRUE],
                         [kind |-> "cancel", item |-> i])
          /\ unsettled' = unsettled \ {i}
    /\ UNCHANGED <<log, acks, pauseAcked>>

Resolve(i) ==
    /\ pc = "free"
    /\ i \in DOMAIN q.items /\ q.items[i].state = "attention" /\ q.active = i
    /\ UpdateSaves([SetState(q, i, "sent") EXCEPT !.active = 0, !.phase = "ready", !.paused = TRUE],
                   [kind |-> "resolve", item |-> i])
    /\ unsettled' = unsettled \ {i}
    /\ UNCHANGED <<log, acks, pauseAcked>>

Pause ==
    /\ pc = "free"
    /\ UpdateSaves([q EXCEPT !.paused = TRUE], [kind |-> "pause", item |-> 0])
    /\ UNCHANGED histVars

Resume ==
    /\ pc = "free" /\ q.phase # "attention"
    /\ UpdateSaves([q EXCEPT !.paused = FALSE], NoOp)
    /\ pauseAcked' = FALSE
    /\ UNCHANGED <<log, unsettled, acks>>

Update ==
    \/ \E r \in Requests \cup {NoRequest}, t \in Texts : Add(r, t)
    \/ \E i \in DOMAIN q.items : Cancel(i) \/ Resolve(i) \/ \E t \in Texts : Edit(i, t)
    \/ Pause \/ Resume

-----------------------------------------------------------------------------
(* Service.step: one scan of the queue by the dispatcher                   *)

NothingToDo == q.phase = "attention" \/ (PendingItems(q) = {} /\ q.active = 0)

\* TryLock succeeded: a dirty queue is saved again before anything else.
StepBegin ==
    /\ pc = "free"
    /\ IF dirty THEN save(q, "resave") /\ UNCHANGED op
                ELSE ~NothingToDo /\ Goto("observe")
    /\ UNCHANGED <<obs, agentVars, histVars>>

\* The agent cannot be observed: it is gone, not running or has another owner.
ObserveFails ==
    /\ pc = "observe"
    /\ IF q.active # 0 THEN save(attention(q), "attn") /\ UNCHANGED <<op, obs>> ELSE Return
    /\ UNCHANGED <<agentVars, histVars>>

Observe ==
    /\ pc = "observe"
    /\ obs' = [ready |-> ready, epoch |-> epoch, rev |-> rev]
    /\ \/ q.active = 0 /\ Goto("pick")
       \/ q.active # 0 /\ epoch # q.oep /\ save(attention(q), "attn") /\ UNCHANGED op
       \/ /\ q.active # 0 /\ epoch = q.oep
          /\ IF rev > q.base /\ worked /\ q.phase # "working"
             THEN save([q EXCEPT !.phase = "working"], "working") /\ UNCHANGED op
             ELSE Goto("judge")
    /\ UNCHANGED <<agentVars, histVars>>

\* Slip: an empty prompt alone counts as the end of the work cycle.
JudgeByPrompt ==
    /\ pc = "judge"
    /\ IF q.phase = "awaiting" /\ late THEN save(attention(q), "attn") /\ UNCHANGED <<op, obs>>
       ELSE IF ~obs.ready THEN Return
       ELSE save([q EXCEPT !.active = 0, !.phase = "ready"], "done") /\ UNCHANGED <<op, obs>>
    /\ UNCHANGED <<agentVars, histVars>>

\* Has the instruction that was typed last been worked on?  (The code also asks that the
\* observation be newer than the last work; leaving that out allows more.)
Judge ==
    /\ pc = "judge"
    /\ IF q.phase = "awaiting" /\ late THEN save(attention(q), "attn") /\ UNCHANGED <<op, obs>>
       ELSE IF q.phase # "working" \/ ~obs.ready THEN Return
       ELSE save([q EXCEPT !.active = 0, !.phase = "ready"], "done") /\ UNCHANGED <<op, obs>>
    /\ UNCHANGED <<agentVars, histVars>>

\* Slip: a paused queue is still served.
PickPaused ==
    /\ pc = "pick" /\ obs.ready
    /\ \E i \in QueuedItems(q) :
          /\ \A j \in QueuedItems(q) : i <= j
          /\ save([SetState(q, i, "sending") EXCEPT !.active = i, !.phase = "sending",
                      !.base = obs.rev, !.oep = obs.epoch], "claim")
    /\ worked' = FALSE /\ late' = FALSE
    /\ UNCHANGED <<op, obs, ready, epoch, rev, histVars>>

\* Claim the first queued item.  The claim is saved before any input.
Pick ==
    /\ pc = "pick"
    /\ \/ /\ q.paused \/ ~obs.ready \/ QueuedItems(q) = {}
          /\ Return
          /\ UNCHANGED <<worked, late>>
       \/ /\ ~q.paused /\ obs.ready
          /\ \E i \in QueuedItems(q) :
                /\ \A j \in QueuedItems(q) : i <= j
                /\ save([SetState(q, i, "sending") EXCEPT !.active = i, !.phase = "sending",
                            !.base = obs.rev, !.oep = obs.epoch], "claim")
          /\ worked' = FALSE /\ late' = FALSE
          /\ UNCHANGED <<op, obs>>
    /\ UNCHANGED <<ready, epoch, rev, histVars>>

StillReady == ready /\ epoch = obs.epoch /\ rev = obs.rev

\* Second observation, after the claim is durable.
Recheck ==
    /\ pc = "recheck"
    /\ \/ save(unclaim(q), "unclaim") /\ UNCHANGED <<op, worked, late>>
       \/ StillReady /\ Goto("send") /\ worked' = FALSE /\ late' = FALSE
    /\ UNCHANGED <<obs, ready, epoch, rev, histVars>>

\* RuntimeService.SendInput up to the backend call: BeforeSend observes a third
\* time under the pane's input lock (ErrNotReady), and the target is resolved
\* before and after it (any other error).
Send ==
    /\ pc = "send"
    /\ \/ save(unclaim(q), "unclaim") /\ UNCHANGED op
       \/ save(attention(q), "attn") /\ UNCHANGED op
       \/ StillReady /\ Goto("write")
    /\ UNCHANGED <<obs, agentVars, histVars>>

\* The backend pastes the text and presses Enter; it may fail before, between
\* or after the two.
Write ==
    /\ pc = "write"
    /\ \/ /\ Goto("written")
          /\ log' = Append(log, [item |-> q.active, text |-> q.items[q.active].text])
          /\ unsettled' = IF worked THEN unsettled ELSE unsettled \cup {q.active}
       \/ save(attention(q), "attn") /\ UNCHANGED <<op, log, unsettled>>
    /\ UNCHANGED <<obs, agentVars, acks, pauseAcked>>

Written ==
    /\ pc = "written"
    /\ \/ save([SetState(q, q.active, "sent") EXCEPT !.phase = "awaiting"], "sent")
       \/ save(attention(q), "attn")
    /\ UNCHANGED <<op, obs, agentVars, histVars>>

-----------------------------------------------------------------------------
(* Return from save                                                        *)

\* Slip: the caller does not wait for the commit.
SaveOKUnawaited ==
    /\ pc = "update"
    /\ dirty' = FALSE /\ pc' = "free"
    /\ acks' = IF op.kind \in {"add", "cancel", "resolve"} THEN acks \cup {op} ELSE acks
    /\ pauseAcked' = (pauseAcked \/ op.kind = "pause")
    /\ op' = NoOp /\ obs' = NoObs
    /\ UNCHANGED <<q, wait, writerVars, agentVars, crashes, log, unsettled>>

SaveOK ==
    /\ pc \in Saving /\ wait = 0
    /\ dirty' = FALSE
    /\ pc' = CASE pc = "resave" -> IF NothingToDo THEN "free" ELSE "observe"
               [] pc = "working" -> "judge"
               [] pc = "done" -> "pick"
               [] pc = "claim" -> "recheck"
               [] OTHER -> "free"
    /\ acks' = IF pc = "update" /\ op.kind \in {"add", "cancel", "resolve"}
               THEN acks \cup {op} ELSE acks
    /\ pauseAcked' = (pauseAcked \/ (pc = "update" /\ op.kind = "pause"))
    /\ op' = NoOp
    /\ obs' = IF pc \in {"working", "done", "claim"} THEN obs ELSE NoObs
    /\ UNCHANGED <<q, wait, writerVars, agentVars, crashes, log, unsettled>>

\* Slip: a delivery whose save is not confirmed is queued again.
SaveFailsRequeues ==
    /\ pc \in Saving \ {"recover"}
    /\ q' = IF pc \in {"claim", "sent"} THEN unclaim(q) ELSE q
    /\ pc' = "free" /\ wait' = 0 /\ op' = NoOp /\ obs' = NoObs
    /\ UNCHANGED <<dirty, writerVars, agentVars, crashes, histVars>>

\* The context ended first (possible even when the commit is already done) or
\* the writer refused.  A change that was accepted stays in the FIFO.  A claim
\* or a delivery whose save is not confirmed parks the queue.
SaveFails ==
    /\ pc \in Saving \ {"recover"}
    /\ q' = IF pc \in {"claim", "sent"} THEN attention(q) ELSE q
    /\ pc' = "free" /\ wait' = 0 /\ op' = NoOp /\ obs' = NoObs
    /\ UNCHANGED <<dirty, writerVars, agentVars, crashes, histVars>>

\* The writer commits a prefix of its FIFO in one transaction.
Commit ==
    /\ \E n \in 1..Len(pending) :
        /\ durable' = pending[n]
        /\ pending' = SubSeq(pending, n + 1, Len(pending))
        /\ wait' = IF wait > n THEN wait - n ELSE IF wait > 0 THEN 0 ELSE wait
    /\ UNCHANGED <<q, dirty, pc, op, obs, agentVars, crashes, histVars>>

-----------------------------------------------------------------------------
(* Crash, and New at the next start                                        *)

Stop == /\ pc' = "down" /\ pending' = <<>> /\ wait' = 0 /\ dirty' = FALSE /\ op' = NoOp
        /\ obs' = NoObs
        /\ UNCHANGED <<q, durable, agentVars, histVars>>

Crash == pc # "down" /\ crashes < MaxCrashes /\ crashes' = crashes + 1 /\ Stop

\* The failed save of a recovery decision makes the daemon refuse to start.
RecoveryFails == pc = "recover" /\ Stop /\ UNCHANGED crashes

\* Slip: a restored claim is taken at face value.
NewTrusting ==
    /\ pc = "down"
    /\ q' = durable /\ pc' = "free"
    /\ ready' = FALSE /\ epoch' = 1 /\ rev' = 0 /\ worked' = FALSE /\ late' = FALSE
    /\ UNCHANGED <<dirty, wait, pending, durable, crashes, op, obs, histVars>>

\* Monitor epochs are transient: the new daemon counts them from the start.
New ==
    /\ pc = "down"
    /\ IF durable.active # 0 \/ durable.phase \in {"awaiting", "working", "sending"}
       THEN save(attention(durable), "recover")
       ELSE /\ q' = durable /\ pc' = "free"
            /\ UNCHANGED <<dirty, wait, pending, durable, crashes>>
    /\ ready' = FALSE /\ epoch' = 1 /\ rev' = 0 /\ worked' = FALSE /\ late' = FALSE
    /\ UNCHANGED <<op, obs, histVars>>

-----------------------------------------------------------------------------
(* The agent and its monitor, as RuntimeAdapter.Observe reports them       *)

Agent(r, e, v, w) ==
    /\ ready' = r /\ epoch' = e /\ rev' = v /\ worked' = w
    /\ UNCHANGED <<q, dirty, pc, wait, op, obs, writerVars, late, crashes, log, acks, pauseAcked>>

AgentBecomesReady == ~ready /\ Agent(TRUE, epoch, rev, worked) /\ UNCHANGED unsettled
\* Someone types a draft, or the screen no longer shows an explicit idle prompt.
AgentNotReady == ready /\ Agent(FALSE, epoch, rev, worked) /\ UNCHANGED unsettled
AgentWorks == rev < MaxRevision /\ Agent(FALSE, epoch, rev + 1, TRUE) /\ unsettled' = {}
MonitorRebinds == epoch < MaxEpoch /\ Agent(FALSE, epoch + 1, 0, FALSE) /\ UNCHANGED unsettled

StartTimeout ==
    /\ ~late /\ q.phase = "awaiting" /\ late' = TRUE
    /\ UNCHANGED <<q, dirty, pc, wait, op, obs, writerVars, ready, epoch, rev, worked,
                   crashes, histVars>>

-----------------------------------------------------------------------------
Dispatch == StepBegin \/ ObserveFails \/ Observe \/ Judge \/ Pick \/ Recheck \/ Send
            \/ Write \/ Written
SaveReturns == SaveOK \/ SaveFails \/ RecoveryFails
Environment == AgentBecomesReady \/ AgentNotReady \/ AgentWorks \/ MonitorRebinds

Next == Update \/ Dispatch \/ SaveReturns \/ Commit \/ Crash \/ New \/ Environment
        \/ StartTimeout

Spec == Init /\ [][Next]_vars

\* The dispatcher runs on a ticker, every wait for a save is bounded by a
\* context, the clock advances, and the daemon is started again on demand.
\* Nothing is assumed of users, of the agent or of the disk.
Fairness ==
    /\ WF_vars(Dispatch) /\ WF_vars(SaveReturns) /\ WF_vars(New) /\ WF_vars(StartTimeout)

FairSpec == Spec /\ Fairness

-----------------------------------------------------------------------------
(* Properties                                                              *)

\* Every variable keeps its type, whatever users, the disk and crashes do.
TypeOK ==
    /\ q \in Queue /\ durable \in Queue /\ pending \in Seq(Queue)
    /\ dirty \in BOOLEAN /\ pc \in Saving \cup Running \cup {"down"}
    /\ wait \in Int /\ op \in Ops
    /\ obs \in Obs
    /\ ready \in BOOLEAN /\ epoch \in Nat /\ rev \in Nat
    /\ worked \in BOOLEAN /\ late \in BOOLEAN /\ crashes \in Nat
    /\ log \in Seq([item: Nat, text: Texts])
    /\ unsettled \in SUBSET Nat /\ acks \in SUBSET Ops /\ pauseAcked \in BOOLEAN

\* No instruction is typed twice and instructions are typed in the order they
\* were added, over failed saves, unknown commits, deferred sends and crashes.
DeliveredOnceInOrder ==
    \A k, l \in DOMAIN log : k < l => log[k].item < log[l].item

\* What was typed is the text of the claim that is on disk: an edit, a crash or
\* a reordered save never separates the record from what the agent was told.
TypedTextIsDurable ==
    \A k \in DOMAIN log :
        /\ log[k].item \in DOMAIN durable.items
        /\ durable.items[log[k].item].text = log[k].text

\* An add, cancel or resolve that Update acknowledged is in SQLite from then on,
\* so no crash takes it back.
AcknowledgedIsDurable ==
    \A a \in acks :
        /\ a.item \in DOMAIN durable.items
        /\ a.kind = "cancel"  => durable.items[a.item].state = "canceled"
        /\ a.kind = "resolve" => durable.items[a.item].state = "sent"

\* Whenever the queue can be edited and is parked for attention, its active item
\* is the one a user can resolve or exclude: resume is refused in this phase, so
\* a parked queue without such an item would stay parked forever.
AttentionCanBeResolved ==
    pc = "free" /\ q.phase = "attention"
        => q.active \in DOMAIN q.items /\ q.items[q.active].state = "attention"

\* The queue implements InstructionDelivery: above all, the next instruction is
\* typed only when every earlier one was followed by observed work of the agent
\* or by a decision of the user, over failed saves, monitor restarts and crashes.
DeliveredItems == [k \in 1..Len(log) |-> log[k].item]
Delivery == INSTANCE InstructionDelivery WITH
    Positions <- 1..MaxItems, delivered <- DeliveredItems, open <- unsettled
ImplementsDelivery == Delivery!Spec

\* After a pause was acknowledged nothing is typed until a resume is asked for,
\* across restarts too.
PauseHolds ==
    [][log' # log => ~pauseAcked]_vars

\* No instruction stays claimed: the dispatcher, or the recovery after a crash,
\* always gets to a state in which it is sent, queued again or up for attention.
ClaimIsTemporary ==
    (\E i \in DOMAIN q.items : q.items[i].state = "sending")
        ~> (\A i \in DOMAIN q.items : q.items[i].state # "sending")

-----------------------------------------------------------------------------
(* The inductive invariant.  A copy of the queue survives in memory, in the  *)
(* FIFO or on disk, and a crash can make any of the last two the queue again, *)
(* so each must account for everything that was typed or acknowledged.       *)

WellFormed(z) ==
    /\ z.active # 0 => /\ z.active \in DOMAIN z.items
                       /\ z.items[z.active].state \in {"sending", "sent", "attention"}
    /\ z.phase # "ready" => z.active # 0
    /\ z.phase = "attention" => z.items[z.active].state = "attention"
    /\ Len(z.items) <= MaxItems

\* Nothing at or before a typed instruction can be claimed again.
AccountsForLog(z, typed) ==
    \A k \in DOMAIN typed :
        /\ typed[k].item \in DOMAIN z.items
        /\ z.items[typed[k].item].text = typed[k].text
        /\ \A j \in 1..typed[k].item : z.items[j].state # "queued"

HoldsOpenItem(z, open) ==
    \A u \in open : z.active = u /\ z.phase \in {"sending", "awaiting", "attention"}

Honours(z, a) ==
    /\ a.item \in DOMAIN z.items
    /\ a.kind = "cancel"  => z.items[a.item].state = "canceled" /\ z.active # a.item
    /\ a.kind = "resolve" => z.items[a.item].state = "sent" /\ z.active # a.item

Image(z, typed, open, given) ==
    /\ WellFormed(z) /\ AccountsForLog(z, typed) /\ HoldsOpenItem(z, open)
    /\ \A a \in given : Honours(z, a)

\* The claimed item is beyond everything typed and everything decided.
Fresh(z, typed, open, given) ==
    /\ z.active \in DOMAIN z.items /\ z.items[z.active].state = "sending"
    /\ z.phase = "sending"
    /\ open = {}
    /\ \A k \in DOMAIN typed : typed[k].item < z.active
    /\ \A j \in 1..z.active : z.items[j].state # "queued"
    /\ \A a \in given : a.kind \in {"cancel", "resolve"} => a.item # z.active

\* A clean queue is on disk and nothing of it is on the way there.
SavedCopy == durable = q /\ pending = <<>>
CleanIsSaved == ~dirty /\ pc # "down" => SavedCopy

\* The awaited save is the last of the FIFO, or it is the durable copy.
WaitIsLast ==
    pc \in Saving =>
        /\ dirty
        /\ \/ wait = Refused
           \/ wait = 0 /\ SavedCopy
           \/ wait > 0 /\ wait = Len(pending) /\ pending[wait] = q

ClaimIsFresh ==
    pc \in {"claim", "recheck", "send", "write"} => Fresh(q, log, unsettled, acks)

Located ==
    /\ pc \in {"recheck", "send", "write", "written"} => ~dirty
    /\ pc \in {"pick", "done"} => q.active = 0
    /\ pc \in {"working", "judge", "written", "sent"} => q.active # 0
    /\ pc = "written" => q.phase = "sending"
    /\ pc = "update" /\ op.kind \in {"add", "cancel", "resolve"} => Honours(q, op)
    /\ pc = "down" => pending = <<>> /\ ~dirty

Images ==
    /\ Image(q, log, unsettled, acks) /\ Image(durable, log, unsettled, acks)
    /\ \A k \in DOMAIN pending : Image(pending[k], log, unsettled, acks)

IInv ==
    /\ DeliveredOnceInOrder /\ Images
    /\ CleanIsSaved /\ WaitIsLast /\ ClaimIsFresh /\ Located
    /\ worked => unsettled = {}

=============================================================================
