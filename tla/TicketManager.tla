--------------------------- MODULE TicketManager ---------------------------
(***************************************************************************)
(* The ticket manager (internal/ticketworker/manager.go) at work on the    *)
(* ticket queue (store.go): it claims ready tickets into its slots, starts *)
(* a coding agent in a pane for each, watches the output for the ticket's  *)
(* completion marker, marks the ticket done and closes the pane.           *)
(*                                                                         *)
(* The manager is one loop.  `todo' is what is left of the pass it is in:  *)
(* a sequence of calls still to make, each for a slot.  Between two calls  *)
(* the daemon, the workers and the users of the queue act.  Any call may   *)
(* fail, and a call that changes the daemon may fail after it did.         *)
(*                                                                         *)
(* Voice announcements and logs are left out: they change nothing here.    *)
(* Definitions marked "Slip" are plausible mistakes in the definition that *)
(* follows; they only serve to test the properties.                        *)
(***************************************************************************)
EXTENDS WorkerPanes, Sequences, FiniteSets

CONSTANTS
    MaxWorkers,   \* config.MaxWorkers
    UserActions,  \* what users do: subset of {"done", "cancel", "reopen", "next"}
    MaxOps,       \* bound: what users and other clients of the daemon do
    MaxEvents     \* bound: queued marker events of a pane

ASSUME ManagerAssumption ==
    /\ Tickets \subseteq Nat \ {0}
    /\ MaxWorkers \in Nat \ {0}
    /\ UserActions \subseteq {"done", "cancel", "reopen", "next"}
    /\ {MaxOps, MaxEvents} \subseteq Nat

Slots == 1..MaxWorkers

VARIABLES
    status,   \* tickets in the store; "none" before they are added
    slot,     \* Manager.slots
    mode,     \* "anchor", "run", "interrupted" (its context has ended),
              \* "stopping" (in shutdown), "stopped"
    todo,
    stream,   \* Manager.stream # nil
    events,   \* marker events queued in the stream, by pane
    ops,
    \* history
    owner,    \* who claimed an in-progress ticket: "none", "manager", "user", or
              \* "elsewhere": the manager, which then found it in another slot
    earned    \* a worker has printed the marker since the ticket was last opened, or
              \* before, and it was still on its way then

ticketVars == <<status, owner>>
vars == <<status, slot, mode, todo, stream, events, ops, owner, earned, paneVars>>

Status    == {"none", "ready", "in_progress", "done", "cancelled"}
SlotState == {"empty", "starting", "working", "completing", "closing", "cleanup_failed"}
Slot      == [state: SlotState, ticket: Tickets \cup {0}, paneCreated: BOOLEAN,
              creationUncertain: BOOLEAN, done: BOOLEAN]
EmptySlot == [state |-> "empty", ticket |-> 0, paneCreated |-> FALSE,
              creationUncertain |-> FALSE, done |-> FALSE]

Op == {"retry", "connect", "snapshot", "fill", "stop",     \* the passes of the loop
       "prepare", "await", "requeue", "verify", "exists",   \* inside one of them
       "complete", "close", "absent", "cleanup", "putback",
       "recreate", "reawait", "reinspect"}

TypeOK ==
    /\ PaneTypeOK
    /\ status \in [Tickets -> Status]
    /\ slot \in [Slots -> Slot]
    /\ mode \in {"anchor", "run", "interrupted", "stopping", "stopped"}
    /\ todo \in Seq([op: Op, s: 0..MaxWorkers])
    /\ stream \in BOOLEAN
    /\ events \in [Tickets -> 0..MaxEvents]
    /\ ops \in 0..MaxOps
    /\ owner \in [Tickets -> {"none", "manager", "user", "elsewhere"}]
    /\ earned \in [Tickets -> BOOLEAN]

Init ==
    /\ PaneInit
    /\ status = [t \in Tickets |-> "none"]
    /\ slot = [s \in Slots |-> EmptySlot]
    /\ mode = "anchor"
    /\ todo = <<>>
    /\ stream = FALSE
    /\ events = [t \in Tickets |-> 0]
    /\ ops = 0
    /\ owner = [t \in Tickets |-> "none"]
    /\ earned = [t \in Tickets |-> FALSE]

-----------------------------------------------------------------------------
(* The pass                                                                *)

Pass(op)   == [s \in Slots |-> [op |-> op, s |-> s]]
At(op, s)  == todo # <<>> /\ todo[1] = [op |-> op, s |-> s]
Return     == todo' = Tail(todo)                    \* on to the next slot
Goto(op,s) == todo' = <<[op |-> op, s |-> s]>> \o Tail(todo)
EndPass    == todo' = <<>>
Idle       == mode = "run" /\ todo = <<>>           \* the select of Run

\* A context that has ended makes every call fail.
Alive == mode # "interrupted"

Release(s) == slot' = [slot EXCEPT ![s] = EmptySlot]
T(s)       == slot[s].ticket

-----------------------------------------------------------------------------
(* Users of the queue: zellij-agent ticket-worker ...                      *)

Ready == {t \in Tickets : status[t] = "ready"}
\* Next takes the oldest; IDs grow with the creation time.
Oldest == CHOOSE t \in Ready : \A u \in Ready : t <= u

\* IDs are handed out in order.
Add(t) ==
    /\ status[t] = "none" /\ \A u \in Tickets : u < t => status[u] # "none"
    /\ status' = [status EXCEPT ![t] = "ready"]
    /\ ops < MaxOps /\ ops' = ops + 1
    /\ UNCHANGED <<slot, mode, todo, stream, events, owner, earned, paneVars>>

allowedTransitions ==
    [done   |-> [from |-> {"in_progress"},          to |-> "done"],
     cancel |-> [from |-> {"ready", "in_progress"}, to |-> "cancelled"],
     reopen |-> [from |-> {"done", "cancelled"},    to |-> "ready"]]

\* A marker of the ticket is on a screen, in the stream, or being acted on.
OnItsWay(t) ==
    \/ printed[t] \/ events[t] > 0
    \/ \E s \in Slots : /\ slot[s].state # "empty" /\ slot[s].ticket = t
                        /\ slot[s].state = "completing" \/ At("verify", s) \/ At("exists", s)

Transition(t, action) ==
    /\ action \in UserActions \ {"next"} /\ ops < MaxOps
    /\ status[t] \in allowedTransitions[action].from
    /\ status' = [status EXCEPT ![t] = allowedTransitions[action].to]
    /\ owner' = [owner EXCEPT ![t] = "none"]
    /\ earned' = [earned EXCEPT ![t] = @ /\ (action # "reopen" \/ OnItsWay(t))]
    /\ ops' = ops + 1
    /\ UNCHANGED <<slot, mode, todo, stream, events, paneVars>>

UserNext ==
    /\ "next" \in UserActions /\ ops < MaxOps /\ Ready # {}
    /\ status' = [status EXCEPT ![Oldest] = "in_progress"]
    /\ owner' = [owner EXCEPT ![Oldest] = "user"]
    /\ ops' = ops + 1
    /\ UNCHANGED <<slot, mode, todo, stream, events, earned, paneVars>>

-----------------------------------------------------------------------------
(* Run                                                                     *)

\* The anchor is ready and the stream connected, or Run returns an error.
Start ==
    /\ mode = "anchor"
    /\ \/ mode' = "run" /\ stream' = TRUE /\ todo' = Pass("fill")
       \/ mode' = "stopped" /\ UNCHANGED <<stream, todo>>
    /\ UNCHANGED <<status, slot, events, ops, owner, earned, paneVars>>

Tick ==
    /\ Idle
    /\ todo' = Pass("retry") \o <<[op |-> "connect", s |-> 0]>> \o Pass("snapshot") \o Pass("fill")
    /\ UNCHANGED <<status, slot, mode, stream, events, ops, owner, earned, paneVars>>

connectStream ==
    /\ At("connect", 0)
    /\ \/ (stream \/ Alive) /\ stream' = TRUE /\ Return
       \/ ~stream /\ EndPass /\ UNCHANGED stream
    /\ UNCHANGED <<status, slot, mode, events, ops, owner, earned, paneVars>>

\* What was queued in the stream is lost with it.
disconnectStream ==
    /\ Idle /\ stream
    /\ stream' = FALSE
    /\ events' = [t \in Tickets |-> 0]
    /\ UNCHANGED <<status, slot, mode, todo, ops, owner, earned, paneVars>>

Interrupt ==
    /\ mode = "run"
    /\ mode' = "interrupted"
    /\ UNCHANGED <<status, slot, todo, stream, events, ops, owner, earned, paneVars>>

shutdown ==
    /\ mode = "interrupted" /\ todo = <<>>
    /\ mode' = "stopping" /\ stream' = FALSE
    /\ events' = [t \in Tickets |-> 0]
    /\ todo' = Pass("stop")
    /\ UNCHANGED <<status, slot, ops, owner, earned, paneVars>>

Exit ==
    /\ mode = "stopping" /\ todo = <<>>
    /\ mode' = "stopped"
    /\ UNCHANGED <<status, slot, todo, stream, events, ops, owner, earned, paneVars>>

\* Slots that the pass has nothing to do for.
Skip(s) ==
    /\ \/ At("retry", s) /\ slot[s].state \in {"empty", "starting", "working"}
       \/ At("snapshot", s) /\ slot[s].state # "working"
       \/ At("fill", s) /\ Alive /\ slot[s].state # "empty"
       \/ At("stop", s) /\ slot[s].state = "empty"
    /\ Return
    /\ UNCHANGED <<status, slot, mode, stream, events, ops, owner, earned, paneVars>>

-----------------------------------------------------------------------------
(* fillEmptySlots, startSlot                                               *)

ticketAssignedElsewhere(s, t) ==
    \E o \in Slots \ {s} : slot[o].state # "empty" /\ slot[o].ticket = t

\* The context has ended, the queue is empty, or the store fails: stop filling.
NothingToClaim(s) ==
    /\ At("fill", s) /\ (~Alive \/ slot[s].state = "empty")
    /\ EndPass
    /\ UNCHANGED <<status, slot, mode, stream, events, ops, owner, earned, paneVars>>

Claim(s) ==
    /\ At("fill", s) /\ Alive /\ slot[s].state = "empty" /\ Ready # {}
    /\ status' = [status EXCEPT ![Oldest] = "in_progress"]
    /\ owner' = [owner EXCEPT ![Oldest] = IF ticketAssignedElsewhere(s, Oldest) THEN "elsewhere" ELSE "manager"]
    /\ IF ticketAssignedElsewhere(s, Oldest)
         THEN Return /\ UNCHANGED slot
         ELSE /\ slot' = [slot EXCEPT ![s] = [EmptySlot EXCEPT !.state = "starting", !.ticket = Oldest]]
              /\ Goto("prepare", s)
    /\ UNCHANGED <<mode, stream, events, ops, earned, paneVars>>

\* Rendering the prompt or preparing the worktree fails.
PrepareFails(s) ==
    /\ At("prepare", s)
    /\ todo' = <<[op |-> "requeue", s |-> s]>>
    /\ UNCHANGED <<status, slot, mode, stream, events, ops, owner, earned, paneVars>>

\* The request reaches the daemon, or nobody answers.
SendCreate(s) ==
    /\ At("prepare", s) \/ At("recreate", s)
    /\ \/ Alive /\ beginCreatePane(T(s))
       \/ waiting' = 0 /\ reply' = "unsafe" /\ UNCHANGED call
    /\ Goto(IF At("prepare", s) THEN "await" ELSE "reawait", s)
    /\ UNCHANGED <<status, slot, mode, stream, events, ops, owner, earned, rec, live, printed, strays>>

\* The response to CreatePane; a timeout or a lost response is outcome-unknown
\* at any time.
Answer(r) ==
    /\ reply = r \/ r = "unsafe"
    /\ waiting' = 0 /\ reply' = "none"
    /\ UNCHANGED <<call, rec, live, printed, strays>>

\* Slip: every failed create counts as one that left nothing behind.
CreateFailureIsSafe(s) ==
    /\ At("await", s)
    /\ \/ /\ Answer("ok")
          /\ slot' = [slot EXCEPT ![s].state = "working", ![s].paneCreated = TRUE]
          /\ Return
       \/ \E r \in {"safe", "unsafe"} : Answer(r)
          /\ todo' = <<[op |-> "requeue", s |-> s]>> /\ UNCHANGED slot
    /\ UNCHANGED <<status, mode, stream, events, ops, owner, earned>>

CreateReturns(s) ==
    /\ At("await", s)
    /\ \/ /\ Answer("ok")
          /\ slot' = [slot EXCEPT ![s].state = "working", ![s].paneCreated = TRUE]
          /\ Return
       \/ /\ Answer("safe")                       \* safeCreateFailure
          /\ todo' = <<[op |-> "requeue", s |-> s]>>
          /\ UNCHANGED slot
       \/ /\ Answer("unsafe")
          /\ slot' = [slot EXCEPT ![s].state = "cleanup_failed", ![s].creationUncertain = TRUE]
          /\ EndPass
    /\ UNCHANGED <<status, mode, stream, events, ops, owner, earned>>

\* Store.Requeue changes an in-progress ticket only.
Requeue(t) ==
    /\ status[t] = "in_progress"
    /\ status' = [status EXCEPT ![t] = "ready"]
    /\ owner' = [owner EXCEPT ![t] = "none"]

requeueWithoutPane(s) ==
    /\ At("requeue", s)
    /\ \/ Alive /\ Requeue(T(s)) /\ Release(s)
       \/ slot' = [slot EXCEPT ![s].state = "cleanup_failed"] /\ UNCHANGED ticketVars
    /\ EndPass
    /\ UNCHANGED <<mode, stream, events, ops, earned, paneVars>>

-----------------------------------------------------------------------------
(* Completion                                                              *)

\* A worker puts the marker on its screen, or prints more below it.  Output
\* events carry the screen; a full or absent stream drops them.
WorkerPrints(t) ==
    /\ live[t]
    /\ printed' = [printed EXCEPT ![t] = TRUE]
    /\ earned' = [earned EXCEPT ![t] = @ \/ ~printed[t]]
    /\ \/ UNCHANGED events
       \/ /\ stream /\ events[t] < MaxEvents
          /\ events' = [events EXCEPT ![t] = @ + 1]
    /\ UNCHANGED <<status, slot, mode, todo, stream, ops, owner, call, rec, live, waiting, reply, strays>>

\* Slip: the event is matched with any working slot, whatever its pane.
handleEventOfAnyPane(t) ==
    /\ Idle /\ stream /\ events[t] > 0
    /\ events' = [events EXCEPT ![t] = @ - 1]
    /\ \/ \E s \in Slots : slot[s].state = "working" /\ todo' = <<[op |-> "verify", s |-> s]>>
       \/ (\A s \in Slots : slot[s].state # "working") /\ UNCHANGED todo
    /\ UNCHANGED <<status, slot, mode, stream, ops, owner, earned, paneVars>>

handleEvent(t) ==
    /\ Idle /\ stream /\ events[t] > 0
    /\ events' = [events EXCEPT ![t] = @ - 1]
    /\ LET Working(s) == slot[s].state = "working" /\ T(s) = t
       IN  \/ \E s \in Slots : Working(s) /\ todo' = <<[op |-> "verify", s |-> s]>>
           \/ (\A s \in Slots : ~Working(s)) /\ UNCHANGED todo
    /\ UNCHANGED <<status, slot, mode, stream, ops, owner, earned, paneVars>>

completeSlot(s) ==
    /\ slot' = [slot EXCEPT ![s].state = "completing"]
    /\ Goto("complete", s)

\* The event carries a summary, or the snapshot failed: is there a record?
workerExists(s) ==
    /\ At("verify", s) \/ At("exists", s)
    /\ \/ Alive /\ matchesWorkerPane(T(s)) /\ completeSlot(s)
       \/ Return /\ UNCHANGED slot
    /\ UNCHANGED <<status, mode, stream, events, ops, owner, earned, paneVars>>

\* The event carries no summary: the screen has to be that of an active worker.
CompletionSnapshot(s) ==
    /\ At("verify", s)
    /\ \E o \in SnapshotOutput(T(s)) :
         /\ rec' = [rec EXCEPT ![T(s)] = o.rec]
         /\ \/ o.seen \in {"notfound", "error"} /\ Goto("exists", s) /\ UNCHANGED slot
            \/ o.seen \in {"marker", "plain"} /\ Alive
               /\ IF rec[T(s)] = "active" THEN completeSlot(s) ELSE Return /\ UNCHANGED slot
    /\ UNCHANGED <<status, mode, stream, events, ops, owner, earned, call, live, printed, waiting, reply, strays>>

\* One worker of recoverSnapshots.
recoverSnapshot(s) ==
    /\ At("snapshot", s) /\ slot[s].state = "working"
    /\ \E o \in SnapshotOutput(T(s)) :
         /\ Alive \/ o.seen = "error"
         /\ rec' = [rec EXCEPT ![T(s)] = o.rec]
         /\ CASE o.seen = "notfound" -> /\ slot' = [slot EXCEPT ![s].state = "cleanup_failed"]
                                        /\ Goto("cleanup", s)
              [] o.seen = "marker"   -> completeSlot(s)
              [] OTHER               -> Return /\ UNCHANGED slot
    /\ UNCHANGED <<status, mode, stream, events, ops, owner, earned, call, live, printed, waiting, reply, strays>>

\* Transition(done) succeeds, also when somebody else was faster; any other
\* failure leaves the slot for the next tick.
retryComplete(s) ==
    /\ At("complete", s) \/ (At("retry", s) /\ slot[s].state = "completing")
    /\ \/ /\ Alive /\ status[T(s)] \in {"in_progress", "done"}
          /\ status' = [status EXCEPT ![T(s)] = "done"]
          /\ owner' = [owner EXCEPT ![T(s)] = "none"]
          /\ slot' = [slot EXCEPT ![s].state = "closing", ![s].done = TRUE]
          /\ Goto("close", s)
       \/ Return /\ UNCHANGED <<slot, ticketVars>>
    /\ UNCHANGED <<mode, stream, events, ops, earned, paneVars>>

-----------------------------------------------------------------------------
(* retryClose, retryCleanup, shutdown: closing panes and releasing slots   *)

\* retryCleanup and shutdown look at a slot in the same order.
Cleaning(s) == \/ At("cleanup", s)
               \/ At("retry", s) /\ slot[s].state = "cleanup_failed"
               \/ At("stop", s) /\ slot[s].state # "empty"

WantsClose(s) == \/ At("close", s)
                 \/ At("retry", s) /\ slot[s].state = "closing"
                 \/ Cleaning(s) /\ ~slot[s].creationUncertain /\ slot[s].paneCreated

\* The pane is closed or absent: a completed slot is free, any other ticket goes
\* back to the queue.
Closed(s) ==
    IF slot[s].done
      THEN Release(s) /\ Return
      ELSE /\ slot' = [slot EXCEPT ![s].paneCreated = mode = "stopping"]
           /\ Goto("putback", s)

\* Slip: a failed ClosePane counts as a closed pane.
closeUnconfirmed(s) ==
    /\ WantsClose(s)
    /\ \E o \in ClosePane(T(s)) :
         /\ rec' = [rec EXCEPT ![T(s)] = o.rec]
         /\ live' = [live EXCEPT ![T(s)] = o.live]
         /\ printed' = [printed EXCEPT ![T(s)] = @ /\ o.live]
         /\ Closed(s)
    /\ UNCHANGED <<status, mode, stream, events, ops, owner, earned, call, waiting, reply, strays>>

close(s) ==
    /\ WantsClose(s)
    /\ \E o \in ClosePane(T(s)) :
         /\ rec' = [rec EXCEPT ![T(s)] = o.rec]
         /\ live' = [live EXCEPT ![T(s)] = o.live]
         /\ printed' = [printed EXCEPT ![T(s)] = @ /\ o.live]
         /\ \/ o.ok /\ Alive /\ Closed(s)
            \/ ~o.ok /\ Goto("absent", s) /\ UNCHANGED slot
    /\ UNCHANGED <<status, mode, stream, events, ops, owner, earned, call, waiting, reply, strays>>

\* ClosePane failed: ask the runtime whether the pane still counts.
orAbsent(s) ==
    /\ At("absent", s)
    /\ \/ Alive /\ ~paneConsumesCapacity(T(s)) /\ Closed(s)
       \/ Return /\ UNCHANGED slot
    /\ UNCHANGED <<status, mode, stream, events, ops, owner, earned, paneVars>>

\* Slip: a store that fails also frees the slot.
PutBackUnchecked(s) ==
    /\ \/ At("putback", s)
       \/ Cleaning(s) /\ ~slot[s].creationUncertain /\ ~slot[s].paneCreated
    /\ Release(s)
    /\ (Alive /\ Requeue(T(s))) \/ UNCHANGED ticketVars
    /\ Return
    /\ UNCHANGED <<mode, stream, events, ops, earned, paneVars>>

\* Requeue the ticket of a slot without a pane.  A running manager also gives up
\* a ticket that is no longer in progress; shutdown reports it.
PutBack(s) ==
    /\ \/ At("putback", s)
       \/ Cleaning(s) /\ ~slot[s].creationUncertain /\ ~slot[s].paneCreated
    /\ \/ Alive /\ Requeue(T(s)) /\ Release(s)
       \/ /\ mode = "run" /\ status[T(s)] # "in_progress"
          /\ Release(s) /\ UNCHANGED ticketVars
       \/ UNCHANGED <<slot, ticketVars>>
    /\ Return
    /\ UNCHANGED <<mode, stream, events, ops, earned, paneVars>>

\* resolveUncertainCreation: a pane that is there is closed; one that is not is
\* created again, so that the outcome becomes known.
Found(s) ==
    /\ slot' = [slot EXCEPT ![s].creationUncertain = FALSE, ![s].paneCreated = TRUE]
    /\ Goto(IF mode = "stopping" THEN "stop" ELSE "cleanup", s)

Inspect(s) ==
    /\ Cleaning(s) /\ slot[s].creationUncertain
    /\ \/ Alive /\ matchesWorkerPane(T(s)) /\ Found(s)
       \/ Alive /\ ~matchesWorkerPane(T(s)) /\ Goto("recreate", s) /\ UNCHANGED slot
       \/ Return /\ UNCHANGED slot
    /\ UNCHANGED <<status, mode, stream, events, ops, owner, earned, paneVars>>

RecreateReturns(s) ==
    /\ At("reawait", s)
    /\ \/ Answer("ok") /\ Found(s)
       \/ /\ Answer("safe")
          /\ slot' = [slot EXCEPT ![s].creationUncertain = FALSE]
          /\ Goto("putback", s)
       \/ Answer("unsafe") /\ Goto("reinspect", s) /\ UNCHANGED slot
    /\ UNCHANGED <<status, mode, stream, events, ops, owner, earned>>

Reinspect(s) ==
    /\ At("reinspect", s)
    /\ \/ Alive /\ matchesWorkerPane(T(s)) /\ Found(s)
       \/ Return /\ UNCHANGED slot
    /\ UNCHANGED <<status, mode, stream, events, ops, owner, earned, paneVars>>

-----------------------------------------------------------------------------
SlotStep(s) ==
    \/ Skip(s) \/ NothingToClaim(s) \/ Claim(s) \/ PrepareFails(s) \/ SendCreate(s)
    \/ CreateReturns(s) \/ requeueWithoutPane(s)
    \/ workerExists(s) \/ CompletionSnapshot(s) \/ recoverSnapshot(s) \/ retryComplete(s)
    \/ close(s) \/ orAbsent(s) \/ PutBack(s) \/ Inspect(s) \/ RecreateReturns(s) \/ Reinspect(s)

ManagerStep ==
    \/ connectStream \/ shutdown \/ Exit
    \/ \E s \in Slots : SlotStep(s)

\* A slot whose CreatePane has not returned, or whose outcome it does not know.
Wanted(t) ==
    \E s \in Slots : /\ slot[s].state # "empty" /\ slot[s].ticket = t
                     /\ slot[s].creationUncertain \/ At("await", s)

Daemon(t) ==
    /\ DaemonStep(t, Wanted(t))
    /\ UNCHANGED <<status, slot, mode, todo, stream, events, ops, owner, earned>>

Others(t) ==
    /\ ops < MaxOps /\ ops' = ops + 1
    /\ Interference(t, Wanted(t))
    /\ UNCHANGED <<status, slot, mode, todo, stream, events, owner, earned>>

Next ==
    \/ Start \/ Tick \/ disconnectStream \/ Interrupt \/ ManagerStep \/ UserNext
    \/ \E t \in Tickets :
         \/ Add(t) \/ handleEvent(t) \/ WorkerPrints(t) \/ Daemon(t) \/ Others(t)
         \/ \E a \in UserActions : Transition(t, a)

Spec == Init /\ [][Next]_vars

\* Timers expire, calls return or time out, and reconcile runs; a close, an
\* inspection or a store operation that is repeated does not fail for ever.
\* Nothing is assumed of users, workers and the event stream.
Fairness ==
    /\ WF_vars(ManagerStep) /\ SF_vars(Tick)
    /\ \A s \in Slots :
         /\ SF_vars(close(s) /\ slot' # slot)
         /\ SF_vars(orAbsent(s) /\ slot' # slot)
         /\ SF_vars(PutBack(s) /\ slot' # slot)
    /\ \A t \in Tickets : WF_vars(reconcileRecord(t) /\ Daemon(t))

FairSpec == Spec /\ Fairness

-----------------------------------------------------------------------------
(* Properties                                                              *)

\* A registered worker that runs is accounted for: a slot holds its ticket, also
\* after shutdown, which reports the slots it could not clear.  Capacity follows.
\* Strays are the exception.  A create may go on after the manager found the record of
\* an earlier worker and took it for its own: if that record is removed before the create
\* registers its pane, no slot knows of it.  And a worker whose record is marked as
\* failed does not answer for its create: another one is led, and if the anchor is gone
\* by then, the manager takes it that nothing was left behind.
WorkersAreHeld ==
    \A t \in Tickets \ strays : rec[t] # "none" /\ live[t]
        => \E s \in Slots : slot[s].state # "empty" /\ slot[s].ticket = t

\* The manager puts a ticket back only when no registered worker of it runs (with the
\* same exception).
RequeueAfterClose ==
    [][ \A t \in Tickets \ strays : owner[t] = "manager" /\ status'[t] = "ready"
            => ~(rec[t] # "none" /\ live[t]) ]_vars

\* A ticket that the manager claimed for a slot and that is still in progress is in a
\* slot that has not completed it: somebody will finish it or put it back.  Users may
\* finish, cancel, reopen and claim it meanwhile.  Not so a ticket that was reopened
\* while a slot still had it: startSlot claims it, finds it elsewhere and leaves it.
InProgressIsOwned ==
    \A t \in Tickets : owner[t] = "manager"
        => \E s \in Slots : slot[s].state # "empty" /\ slot[s].ticket = t /\ ~slot[s].done

\* The manager reports a ticket done only if a worker has printed its marker since the
\* ticket was last opened, or a marker from before was still on its way then: markers
\* name the ticket, not the claim.
CompletionIsEarned ==
    [][ \A t \in Tickets : ops' = ops /\ status[t] # "done" /\ status'[t] = "done"
            => earned[t] ]_vars

\* A running manager gets every slot back whose pane it is closing or whose
\* ticket it is putting back, also when the pane disappears by itself, the
\* response to the close is lost or a user decides about the ticket.
SlotsAreReleased ==
    \A s \in Slots :
        /\ mode = "run" /\ ~slot[s].creationUncertain
        /\ slot[s].state \in {"closing", "cleanup_failed"}
        ~> mode # "run" \/ slot[s].state = "empty"

\* Two slots never work on one ticket, whatever users do to it meanwhile.
OneSlotPerTicket ==
    \A s, o \in Slots : s # o /\ slot[s].state # "empty" /\ slot[o].state # "empty"
                        => slot[s].ticket # slot[o].ticket

\* Every worker has one slot, no fewer (it would run unnoticed) and no more (two
\* slots would close and complete it).
EachWorkerHasOneSlot == WorkersAreHeld /\ OneSlotPerTicket
=============================================================================
