----------------------------- MODULE PaneStream -----------------------------
(***************************************************************************)
(* How what a pane shows reaches the daemon: the SubscriptionManager       *)
(* (internal/runtime/subscriptions.go) keeps one `zellij subscribe'        *)
(* process per pane, a reader squeezes its lines through a one-slot        *)
(* channel, a worker applies them to the registry, tells the monitor and   *)
(* publishes on the event bus, where WaitForOutputMarker                   *)
(* (internal/runtime/marker_watch.go) and the HTTP event stream listen.    *)
(*                                                                         *)
(* One pane ID, whose record is replaced by later generations while starts,*)
(* stops and workers of the earlier ones are still under way.              *)
(***************************************************************************)
EXTENDS EventBus, FiniteSets

CONSTANTS
    Texts,          \* what a pane can show
    Blank,          \* the empty viewport
    Marker,         \* the text that contains the awaited line
    Ready,          \* the texts from which a semantic event is derived
    Lines,          \* what a subscribe process may print
    Watchers,       \* callers of WaitForOutputMarker
    Streams,        \* clients of GET /v1/events/stream
    MaxGeneration,  \* bound: how often the pane ID is registered
    MaxLines        \* bound: lines printed by all processes, and the calls of SnapshotOutput
                    \* and others that write the record

ASSUME StreamAssumption ==
    /\ Blank \in Texts /\ Marker \in Texts \ {Blank} /\ Ready \subseteq Texts
    /\ Lines \subseteq [form: {"blank", "garbage", "event"}, name: {"pane_update", "pane_closed", "other"},
                       owner: {"none", "mine", "other"}, text: Texts]
    /\ Subscribers = Watchers \union Streams /\ Watchers \intersect Streams = {}
    /\ MaxGeneration \in Nat \ {0} /\ MaxLines \in Nat

Generations == 1 .. MaxGeneration

\* A subscription is named by the StartPane that installed it and the
\* generation it is for: no StartPane installs two for the same generation.
Subs == { s \in Generations \X Generations : s[1] <= s[2] }
NoSub == <<0, 0>>

VARIABLES
    pane,      \* the registry's record of the pane ID: generation, status and LastOutput;
               \* history: it was settled once, and who is owed the marker (see Owed)
    start,     \* one StartPane call per registration
    sub,       \* the subscription workers and their readers
    current,   \* cancelByPaneID
    rendered,  \* lastRendered, by generation
    closed,    \* the manager's Close was called
    stopper,   \* the generation a StopPaneGeneration is about to stop, or 0
    seen,      \* what the monitor was last told, by generation; "snapshot" is the output
               \* of a SnapshotOutput after an error
    watch,     \* the WaitForOutputMarker calls
    printed    \* lines printed and calls made so far

streamVars == <<pane, start, sub, current, rendered, closed, stopper, seen, watch, printed>>
vars == <<bus, streamVars>>

-----------------------------------------------------------------------------
(* Lines and frames (internal/runtime/parser.go).                          *)

Frame(kind, owner, text) == [kind |-> kind, owner |-> owner, text |-> text]
NoFrame == Frame("none", "none", Blank)

\* A line is blank, not JSON, or an event with a name, a pane and a text.  An
\* unnamed event with content for a pane counts as an update; every other line
\* is unknown and loses its pane.
ParseSubscribeNDJSONLine(line) ==
    CASE line.form = "garbage" -> Frame("error", "none", Blank)
      [] line.form = "event" /\ line.name = "pane_update" -> Frame("update", line.owner, line.text)
      [] line.form = "event" /\ line.name = "pane_closed" -> Frame("closed", line.owner, Blank)
      [] line.form = "event" /\ line.name = "other" /\ line.owner # "none" /\ line.text # Blank
            -> Frame("update", line.owner, line.text)
      [] OTHER -> Frame("unknown", "none", Blank)

IsUpdate(frame) == frame.kind = "update"

\* Semantic events follow the raw output they were derived from.
SemanticEventsFromText(text) ==
    IF text \in Ready THEN <<[type |-> "server_ready", text |-> text]>> ELSE <<>>

-----------------------------------------------------------------------------
(* The registry and the subscription table.                                *)

Active == pane.st \in {"starting", "running", "error"}
Exists == pane.st # "absent"

\* What the monitor was told of a generation that it knows is not watched.
Reported == {"error", "snapshot"}

IsCurrentGeneration(s) == Exists /\ pane.gen = s[2]

\* ctx, table and registry are read one after the other; each can only turn
\* false for good, so the three reads amount to one.
subscriptionIsCurrent(s) ==
    ~sub[s].cancelled /\ current = s /\ IsCurrentGeneration(s)

\* takeSubscription and the cancel that follows it.
Taken(subs, s) ==
    [subs EXCEPT ![s].cancelled = TRUE]
AfterTake(s) ==
    /\ current' = IF current = s THEN NoSub ELSE current
    /\ rendered' = IF current = s THEN [rendered EXCEPT ![s[2]] = <<>>] ELSE rendered

NewWorker == [pc |-> "off", cancelled |-> FALSE, eof |-> "open",
              hand |-> <<>>, slot |-> <<>>, frame |-> NoFrame, todo |-> <<>>,
              latest |-> NoFrame, handled |-> NoFrame, shadowed |-> FALSE, owed |-> 0]
Ended == [NewWorker EXCEPT !.pc = "done", !.cancelled = TRUE, !.eof = "clean"]

\* Earlier generations may have come and gone, a part of the lines may have been
\* printed to them, and a caller may not want to wait.
StreamInit ==
    /\ \E g \in 0 .. MaxGeneration - 1 :
         pane = [gen |-> g, st |-> "absent", out |-> Blank, settled |-> FALSE, due |-> {}]
    /\ start = [g \in Generations |-> [pc |-> "idle", got |-> 0]]
    /\ sub = [s \in Subs |-> NewWorker]
    /\ current = NoSub
    /\ rendered = [g \in Generations |-> <<>>]
    /\ closed = FALSE
    /\ stopper = 0
    /\ seen = [g \in Generations |-> "nothing"]
    /\ watch \in [Watchers -> {"idle", "failed"}]
    /\ printed \in 0 .. MaxLines

\* findMarkerLine, for texts that either have the line or do not.
HasMarker(text) == text = Marker

\* The waiters that are owed the marker: it came to the record from the stream after they
\* had looked there, or it stands there for those who have yet to look.
Looked == {w \in pane.due : watch[w] = "waiting"}
Owed(text) == IF HasMarker(text) THEN Watchers ELSE Looked

\* RegisterPane, and the StartPane that CreatePane, ClaimPane or Recover calls.
RegisterPane ==
    /\ pane.st = "absent" /\ pane.gen < MaxGeneration /\ ~closed
    /\ pane' = [gen |-> pane.gen + 1, st |-> "starting", out |-> Blank, settled |-> FALSE, due |-> Looked]
    /\ start' = [start EXCEPT ![pane.gen + 1].pc = "get"]
    /\ UNCHANGED <<bus, sub, current, rendered, closed, stopper, seen, watch, printed>>

\* ClosePane, Cleanup or Reconcile settles the record, then stops the
\* generation it settled; a removal of a settled record follows later.
SettlePane(st) ==
    /\ Active \/ (pane.st = "closed" /\ st = "absent")
    /\ stopper = 0
    /\ pane' = IF st = "absent" THEN [pane EXCEPT !.st = st, !.settled = TRUE, !.out = Blank, !.due = Looked]
                              ELSE [pane EXCEPT !.st = st, !.settled = TRUE]
    /\ stopper' = pane.gen
    /\ UNCHANGED <<bus, start, sub, current, rendered, closed, seen, watch, printed>>

\* Service.SnapshotOutput for any client, to its end: the record gets the screen, whatever
\* its status, and the monitor hears of it, but nothing is published.  The generation it
\* looked up before the dump has to be the current one still, so that the call amounts to
\* its last step.
SnapshotPane(text) ==
    /\ Exists /\ printed < MaxLines
    /\ printed' = printed + 1
    /\ pane' = [pane EXCEPT !.out = text,
                           !.due = IF HasMarker(text) THEN pane.due \union {w \in Watchers : watch[w] # "waiting"}
                                                      ELSE Looked]
    /\ seen' = [seen EXCEPT ![pane.gen] = IF seen[pane.gen] \in Reported THEN "snapshot" ELSE "output"]
    /\ UNCHANGED <<bus, start, sub, current, rendered, closed, stopper, watch>>

\* The dump fails, or an input or a clean-up does: the record says so, a settled one too,
\* and nobody is told.
PaneFails ==
    /\ Exists /\ pane.st # "error" /\ printed < MaxLines
    /\ printed' = printed + 1
    /\ pane' = [pane EXCEPT !.st = "error"]
    /\ UNCHANGED <<bus, start, sub, current, rendered, closed, stopper, seen, watch>>

\* Slip: the stop of an old generation takes whatever is in the table.
StopAnyGeneration ==
    /\ stopper # 0
    /\ stopper' = 0
    /\ IF current # NoSub
       THEN sub' = Taken(sub, current) /\ AfterTake(current)
       ELSE UNCHANGED <<sub, current, rendered>>
    /\ UNCHANGED <<bus, pane, start, closed, seen, watch, printed>>

StopPaneGeneration ==
    /\ stopper # 0
    /\ stopper' = 0
    /\ IF current # NoSub /\ current[2] = stopper
       THEN /\ sub' = Taken(sub, current)
            /\ AfterTake(current)
       ELSE UNCHANGED <<sub, current, rendered>>
    /\ UNCHANGED <<bus, pane, start, closed, seen, watch, printed>>

-----------------------------------------------------------------------------
(* StartPane: read the record, install a subscription for its generation,  *)
(* then look whether the generation is still the current one.              *)

StartGet(g) ==
    /\ start[g].pc = "get"
    /\ start' = [start EXCEPT ![g] = IF Exists THEN [pc |-> "install", got |-> pane.gen]
                                               ELSE [pc |-> "done", got |-> 0]]
    /\ UNCHANGED <<bus, pane, sub, current, rendered, closed, stopper, seen, watch, printed>>

StartInstall(g) ==
    LET gen == start[g].got
        s == <<g, gen>>
    IN  /\ start[g].pc = "install"
        /\ \/ /\ closed \/ (current # NoSub /\ current[2] = gen)
              /\ start' = [start EXCEPT ![g].pc = "done"]
              /\ UNCHANGED <<sub, current>>
           \/ /\ ~closed /\ current # NoSub /\ current[2] > gen
              /\ start' = [start EXCEPT ![g].pc = "get"]
              /\ UNCHANGED <<sub, current>>
           \/ /\ ~closed /\ (current = NoSub \/ current[2] < gen)
              /\ start' = [start EXCEPT ![g].pc = "check"]
              /\ current' = s
              /\ sub' = IF current = NoSub THEN [sub EXCEPT ![s].pc = "installed"]
                        ELSE Taken([sub EXCEPT ![s].pc = "installed"], current)
        /\ UNCHANGED <<bus, pane, rendered, closed, stopper, seen, watch, printed>>

StartCheck(g) ==
    LET s == <<g, start[g].got>>
    IN  /\ start[g].pc = "check"
        /\ IF IsCurrentGeneration(s)
           THEN /\ start' = [start EXCEPT ![g].pc = "done"]
                /\ sub' = [sub EXCEPT ![s].pc = "launch"]
                /\ UNCHANGED <<current, rendered>>
           ELSE /\ start' = [start EXCEPT ![g].pc = IF Exists THEN "get" ELSE "done"]
                /\ sub' = [sub EXCEPT ![s] = Ended]
                /\ AfterTake(s)
        /\ UNCHANGED <<bus, pane, closed, stopper, seen, watch, printed>>

\* Close cancels what is in the table and waits for the workers to end.
CloseManager ==
    /\ ~closed
    /\ closed' = TRUE
    /\ sub' = IF current = NoSub THEN sub ELSE Taken(sub, current)
    /\ current' = NoSub
    /\ rendered' = [g \in Generations |-> <<>>]
    /\ UNCHANGED <<bus, pane, start, stopper, seen, watch, printed>>

-----------------------------------------------------------------------------
(* The worker (run).  What it publishes waits in `todo': one Publish a step.*)

ErrorEvent == [type |-> "subscribe_error", text |-> Blank]
HealthEvent == [type |-> "health_changed", text |-> Blank]
ClosedEvent == [type |-> "pane_closed", text |-> Blank]
RawOutput(text) == [type |-> "raw_output", text |-> text]

Goto(s, pc) == [sub EXCEPT ![s].pc = pc]
Publishing(s, pc, events) == [sub EXCEPT ![s].pc = pc, ![s].todo = events]
\* publishStreamError and its siblings: the monitor hears of it only while the
\* generation is current and not settled.
TellError(s) ==
    seen' = IF IsCurrentGeneration(s) /\ Active THEN [seen EXCEPT ![s[2]] = "error"] ELSE seen

Quiet(s) == sub[s].todo = <<>>

\* The process starts and the record becomes running, or the start fails and
\* the record says so; a settled or replaced record ends the worker silently.
Launch(s, ok) ==
    /\ sub[s].pc = "launch" /\ Quiet(s)
    /\ \/ /\ ok /\ IsCurrentGeneration(s) /\ Active
          /\ pane' = [pane EXCEPT !.st = "running"]
          /\ sub' = Goto(s, "take")
          /\ UNCHANGED seen
       \/ /\ ok /\ ~(IsCurrentGeneration(s) /\ Active)
          /\ sub' = [sub EXCEPT ![s].pc = "leave", ![s].eof = "clean"]
          /\ UNCHANGED <<pane, seen>>
       \/ /\ ~ok
          /\ IF subscriptionIsCurrent(s)
             THEN /\ pane' = IF Active THEN [pane EXCEPT !.st = "error"] ELSE pane
                  /\ TellError(s)
                  /\ sub' = [Publishing(s, "leave", <<ErrorEvent, HealthEvent>>) EXCEPT ![s].eof = "clean"]
             ELSE /\ sub' = [sub EXCEPT ![s].pc = "leave", ![s].eof = "clean"]
                  /\ UNCHANGED <<pane, seen>>
    /\ UNCHANGED <<bus, start, current, rendered, closed, stopper, watch, printed>>

\* for frame := range frames, until the reader has closed the channel.
Take(s) ==
    /\ sub[s].pc = "take" /\ Quiet(s)
    /\ \/ /\ sub[s].slot # <<>>
          /\ sub' = [sub EXCEPT ![s].pc = "handle", ![s].frame = Head(sub[s].slot), ![s].slot = <<>>]
       \/ /\ sub[s].slot = <<>> /\ sub[s].hand = <<>> /\ sub[s].eof # "open"
          /\ sub' = Goto(s, "drained")
    /\ UNCHANGED <<bus, pane, start, current, rendered, closed, stopper, seen, watch, printed>>

\* handleParsedLine up to the change it makes outside the manager.
HandleFrame(s) ==
    LET frame == sub[s].frame
        mine == frame.owner # "other"
        done == [sub[s] EXCEPT !.pc = "take", !.frame = NoFrame,
                               !.handled = IF IsUpdate(frame) THEN frame ELSE @,
                               !.owed = IF IsUpdate(frame) THEN @ ELSE @ - 1]
    IN  /\ sub[s].pc = "handle"
        /\ \/ /\ ~subscriptionIsCurrent(s) \/ (frame.kind # "error" /\ ~mine)
              /\ sub' = [sub EXCEPT ![s] = done]
              /\ UNCHANGED <<current, rendered, seen>>
           \/ /\ subscriptionIsCurrent(s) /\ frame.kind = "error"
              /\ TellError(s)
              /\ sub' = [sub EXCEPT ![s] = [done EXCEPT !.todo = <<ErrorEvent>>]]
              /\ UNCHANGED <<current, rendered>>
           \/ /\ subscriptionIsCurrent(s) /\ frame.kind = "closed" /\ mine
              /\ sub' = [sub EXCEPT ![s] = [done EXCEPT !.pc = "remove", !.cancelled = TRUE]]
              /\ AfterTake(s)
              /\ UNCHANGED seen
           \/ /\ subscriptionIsCurrent(s) /\ IsUpdate(frame) /\ mine
              /\ sub' = [sub EXCEPT ![s] = [done EXCEPT !.pc = "render", !.frame = frame]]
              /\ UNCHANGED <<current, rendered, seen>>
        /\ UNCHANGED <<bus, pane, start, closed, stopper, watch, printed>>

\* handlePaneUpdate: a viewport equal to the last one is not new.
Render(s) ==
    LET text == sub[s].frame.text
    IN  /\ sub[s].pc = "render"
        /\ \/ /\ rendered[s[2]] = <<text>>
              /\ sub' = [sub EXCEPT ![s].pc = "take", ![s].frame = NoFrame]
              /\ UNCHANGED rendered
           \/ /\ rendered[s[2]] # <<text>>
              /\ sub' = Goto(s, "apply")
              /\ rendered' = [rendered EXCEPT ![s[2]] = <<text>>]
        /\ UNCHANGED <<bus, pane, start, current, closed, stopper, seen, watch, printed>>

\* UpdateActivePaneOutputGeneration, the monitor and the events.
Apply(s) ==
    LET text == sub[s].frame.text
    IN  /\ sub[s].pc = "apply"
        /\ \/ /\ ~(IsCurrentGeneration(s) /\ Active)
              /\ sub' = [sub EXCEPT ![s].pc = "take", ![s].frame = NoFrame]
              /\ UNCHANGED <<pane, seen>>
           \/ /\ IsCurrentGeneration(s) /\ Active
              /\ pane' = [pane EXCEPT !.out = text, !.due = Owed(text)]
              /\ seen' = [seen EXCEPT ![s[2]] = "output"]
              /\ sub' = [Publishing(s, "take", <<RawOutput(text)>> \o SemanticEventsFromText(text)) EXCEPT ![s].frame = NoFrame]
        /\ UNCHANGED <<bus, start, current, rendered, closed, stopper, watch, printed>>

\* handlePaneClosed: the record of this generation, if it is still there, goes.
RemoveClosed(s) ==
    /\ sub[s].pc = "remove"
    /\ \/ /\ IsCurrentGeneration(s)
          /\ pane' = [pane EXCEPT !.st = "absent", !.out = Blank, !.due = Looked]
          /\ seen' = [seen EXCEPT ![s[2]] = "closed"]
          /\ sub' = Publishing(s, "take", <<ClosedEvent>>)
       \/ /\ ~IsCurrentGeneration(s)
          /\ sub' = Goto(s, "take")
          /\ UNCHANGED <<pane, seen>>
    /\ UNCHANGED <<bus, start, current, rendered, closed, stopper, watch, printed>>

\* The stream has ended: a read error, a failed process and a clean but
\* unexpected exit each count as an error of a current subscription.
Drained(s, waitFails) ==
    /\ sub[s].pc = "drained" /\ Quiet(s)
    /\ IF subscriptionIsCurrent(s)
       THEN /\ TellError(s)
            /\ sub' = Publishing(s, "exited",
                        IF sub[s].eof = "error" /\ waitFails THEN <<ErrorEvent, ErrorEvent>> ELSE <<ErrorEvent>>)
       ELSE /\ sub' = Goto(s, "exited")
            /\ UNCHANGED seen
    /\ UNCHANGED <<bus, pane, start, current, rendered, closed, stopper, watch, printed>>

Exited(s) ==
    /\ sub[s].pc = "exited" /\ Quiet(s)
    /\ sub' = IF subscriptionIsCurrent(s) THEN Publishing(s, "leave", <<HealthEvent>>) ELSE Goto(s, "leave")
    /\ UNCHANGED <<bus, pane, start, current, rendered, closed, stopper, seen, watch, printed>>

\* The deferred clean-up takes only its own entry out of the table.
Leave(s) ==
    /\ sub[s].pc = "leave" /\ Quiet(s)
    /\ sub' = [sub EXCEPT ![s] = Ended]
    /\ AfterTake(s)
    /\ UNCHANGED <<bus, pane, start, closed, stopper, seen, watch, printed>>

PublishNext(s) ==
    /\ ~Quiet(s)
    /\ bus' = Published(bus, Head(sub[s].todo))
    /\ sub' = [sub EXCEPT ![s].todo = Tail(@)]
    /\ UNCHANGED <<pane, start, current, rendered, closed, stopper, seen, watch, printed>>

-----------------------------------------------------------------------------
(* The subscribe process and readLatestSubscribeFrames.                    *)

Running(s) == sub[s].pc \notin {"off", "installed", "launch", "leave", "done"}
Reading(s) == Running(s) /\ sub[s].eof = "open" /\ sub[s].hand = <<>>

\* A line of no meaning is not offered.
ReadLine(s, line) ==
    LET frame == ParseSubscribeNDJSONLine(line)
    IN  /\ Reading(s) /\ printed < MaxLines
        /\ printed' = printed + 1
        /\ sub' = IF frame.kind = "unknown" THEN sub
                  ELSE [sub EXCEPT ![s].hand = <<frame>>,
                                   ![s].latest = IF IsUpdate(frame) THEN frame ELSE NoFrame,
                                   ![s].owed = IF IsUpdate(frame) THEN @ ELSE @ + 1]
        /\ UNCHANGED <<bus, pane, start, current, rendered, closed, stopper, seen, watch>>

StreamEnds(s, how) ==
    /\ Reading(s)
    /\ sub' = [sub EXCEPT ![s].eof = how]
    /\ UNCHANGED <<bus, pane, start, current, rendered, closed, stopper, seen, watch, printed>>

\* Slip: the newest frame replaces anything.
OfferReplacesAny(s) ==
    /\ sub[s].hand # <<>>
    /\ sub' = [sub EXCEPT ![s].slot = sub[s].hand, ![s].hand = <<>>]
    /\ UNCHANGED <<bus, pane, start, current, rendered, closed, stopper, seen, watch, printed>>
\* offerSubscribeFrame: a viewport may be replaced by any later frame; an update
\* behind a waiting close or error is given up; a close or error waits its turn.
Offer(s) ==
    LET frame == sub[s].hand[1]
        givesWay == \A i \in DOMAIN sub[s].slot : IsUpdate(sub[s].slot[i])
    IN  /\ sub[s].hand # <<>>
        /\ \/ /\ givesWay
              /\ sub' = [sub EXCEPT ![s].slot = <<frame>>, ![s].hand = <<>>]
           \/ /\ ~givesWay /\ IsUpdate(frame)
              /\ sub' = [sub EXCEPT ![s].hand = <<>>, ![s].shadowed = TRUE]
        /\ UNCHANGED <<bus, pane, start, current, rendered, closed, stopper, seen, watch, printed>>

-----------------------------------------------------------------------------
(* WaitForOutputMarker and the event stream handler.                       *)

WatchOver(w, b, outcome) ==
    /\ watch' = [watch EXCEPT ![w] = outcome]
    /\ bus' = Unregistered(b, w)

WatchSubscribe(w) ==
    /\ watch[w] = "idle"
    /\ watch' = [watch EXCEPT ![w] = "subscribed"]
    /\ bus' = Subscribed(bus, w)
    /\ UNCHANGED <<pane, start, sub, current, rendered, closed, stopper, seen, printed>>

WatchInspect(w) ==
    /\ watch[w] = "subscribed"
    /\ \/ /\ ~Exists
          /\ WatchOver(w, bus, "failed")
       \/ /\ Exists /\ HasMarker(pane.out)
          /\ WatchOver(w, bus, "found")
       \/ /\ Exists /\ ~HasMarker(pane.out)
          /\ watch' = [watch EXCEPT ![w] = "waiting"]
          /\ UNCHANGED bus
    /\ UNCHANGED <<pane, start, sub, current, rendered, closed, stopper, seen, printed>>

\* Slip: only semantic events are looked at.
WatchSemanticEvent(w) ==
    /\ watch[w] = "waiting" /\ Pending(bus, w)
    /\ LET event == Received(bus, w)
       IN  IF event.type = "server_ready" /\ HasMarker(event.text)
           THEN WatchOver(w, Rest(bus, w), "found")
           ELSE bus' = Rest(bus, w) /\ UNCHANGED watch
    /\ UNCHANGED <<pane, start, sub, current, rendered, closed, stopper, seen, printed>>

WatchEvent(w) ==
    /\ watch[w] = "waiting" /\ Pending(bus, w)
    /\ LET event == Received(bus, w)
       IN  IF event.type = "raw_output" /\ HasMarker(event.text)
           THEN WatchOver(w, Rest(bus, w), "found")
           ELSE bus' = Rest(bus, w) /\ UNCHANGED watch
    /\ UNCHANGED <<pane, start, sub, current, rendered, closed, stopper, seen, printed>>

WatchCancelled(w) ==
    /\ watch[w] \in {"subscribed", "waiting"}
    /\ WatchOver(w, bus, "failed")
    /\ UNCHANGED <<pane, start, sub, current, rendered, closed, stopper, seen, printed>>

\* handleEventStream: subscribe, then encode one event after the other until
\* the client goes away.
EventStream(c) ==
    /\ \/ bus.chan[c].state = "none" /\ bus' = Subscribed(bus, c)
       \/ Pending(bus, c) /\ bus' = Rest(bus, c)
       \/ bus.chan[c].state = "open" /\ bus' = Unregistered(bus, c)
    /\ UNCHANGED streamVars

-----------------------------------------------------------------------------
Worker(s) ==
    \/ \E ok \in BOOLEAN : Launch(s, ok) \/ Drained(s, ok)
    \/ Take(s) \/ HandleFrame(s) \/ Render(s) \/ Apply(s) \/ RemoveClosed(s)
    \/ Exited(s) \/ Leave(s) \/ PublishNext(s)

Reader(s) ==
    \/ \E line \in Lines : ReadLine(s, line)
    \/ \E how \in {"clean", "error"} : StreamEnds(s, how)
    \/ Offer(s)

Starter(g) == StartGet(g) \/ StartInstall(g) \/ StartCheck(g)

Watcher(w) == WatchSubscribe(w) \/ WatchInspect(w) \/ WatchEvent(w) \/ WatchCancelled(w)

\* Everything has come to its end.  Every behaviour is finite within the bounds,
\* so a state without a successor that is not this one is a worker, a reader or a
\* start that waits for ever: the run checks for deadlock.
Finished ==
    /\ \A g \in Generations : start[g].pc \in {"idle", "done"}
    /\ \A s \in Subs : sub[s].pc \in {"off", "done"}
    /\ UNCHANGED vars

StreamNext ==
    \/ RegisterPane \/ StopPaneGeneration \/ CloseManager \/ PaneFails
    \/ \E text \in Texts : SnapshotPane(text)
    \/ \E st \in {"closed", "absent"} : SettlePane(st)
    \/ \E g \in Generations : Starter(g)
    \/ \E s \in Subs : Worker(s) \/ Reader(s)
    \/ \E w \in Watchers : Watcher(w)
    \/ \E c \in Streams : EventStream(c)
    \/ Finished

-----------------------------------------------------------------------------
(* Properties.                                                             *)

\* No subscribe process outlives its place in the table: a worker that has not
\* ended and was not cancelled is the current subscription (startRecord,
\* stopPaneGeneration, takeSubscription, Close).
NoOrphanProcess ==
    \A s \in Subs : sub[s].pc \notin {"off", "done"} /\ ~sub[s].cancelled => current = s

\* A live record that was never settled.  Settled ones that a failing snapshot, input or
\* clean-up marked as failed count as active again, with nobody to watch them.
Unsettled == Active /\ ~pane.settled

\* However registrations, stops of earlier generations and retried starts
\* interleave, a live pane whose starts have returned is watched by a
\* subscription of its own generation, or is being removed, or the monitor was told of
\* an error of that generation, and heard nothing from the stream since: what it knows
\* of the screen is not taken for current, unless somebody asks for a snapshot.
UnwatchedIsReported ==
    (Unsettled /\ ~closed /\ stopper = 0 /\ \A g \in Generations : start[g].pc \in {"idle", "done"})
        => \/ current # NoSub /\ current[2] = pane.gen
           \/ seen[pane.gen] \in Reported
           \/ \E s \in Subs : s[2] = pane.gen /\ sub[s].pc = "remove"

\* The close and error frames among the given ones.
Controls(frames) == Cardinality({i \in DOMAIN frames : ~IsUpdate(frames[i])})

\* No close and no error frame is lost in the one-slot channel, whatever
\* viewports surround it (offerSubscribeFrame).
ControlFramesDelivered ==
    \A s \in Subs :
        sub[s].owed = Controls(sub[s].hand) + Controls(sub[s].slot)
                      + (IF sub[s].pc = "handle" THEN Controls(<<sub[s].frame>>) ELSE 0)

\* A drained stream that ended on a viewport has handled that viewport, unless
\* it was given up behind a waiting error or close.
LatestViewportHandled ==
    \A s \in Subs :
        sub[s].pc \in {"drained", "exited"} /\ sub[s].latest # NoFrame /\ ~sub[s].shadowed
            => sub[s].handled = sub[s].latest

\* A marker that the stream brings to the record while somebody waits for it is on its way
\* to the waiter, and so is one that stood there when the waiter came and was not
\* overwritten before it looked: it subscribed before it looked, and only a full channel can
\* lose the event.  A marker that a snapshot brings is found only by those who look later.
MarkerNotMissed ==
    \A w \in pane.due :
        (watch[w] = "waiting" /\ ~bus.chan[w].lost)
            => \/ \E i \in DOMAIN bus.chan[w].buf : bus.chan[w].buf[i].event = RawOutput(Marker)
               \/ \E s \in Subs : \E i \in DOMAIN sub[s].todo : sub[s].todo[i] = RawOutput(Marker)

\* One process watches each live pane: none is left running for a pane that was
\* replaced, and none is missing without a report.
OneProcessPerPane == NoOrphanProcess /\ UnwatchedIsReported

\* What a process reports reaches whoever looks: no control frame is pushed out by a
\* viewport, the last viewport is handled, and the bus delivers in order, with gaps
\* only where it counted a drop.
FramesAreDelivered == ControlFramesDelivered /\ LatestViewportHandled /\ BusIsFaithful
=============================================================================
