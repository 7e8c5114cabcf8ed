-------------------------- MODULE PaneStreamProofs --------------------------
(***************************************************************************)
(* The proofs about the subscription manager with its readers and workers, *)
(* the event bus they publish on and those who listen to it: the watch for *)
(* a marker and the driver of a debate                                     *)
(* (internal/runtime/subscriptions.go, internal/eventbus/bus.go,           *)
(* internal/runtime/marker_watch.go, internal/debate/debate.go).           *)
(***************************************************************************)
EXTENDS PaneStream, Debate, SequenceTheorems, FiniteSetTheorems, WellFoundedInduction, TLAPS

\* Clients of the event stream may already have come and gone.
ClientsInit ==
    \E gone \in SUBSET Streams :
       bus = [count |-> 0, history |-> <<>>,
              chan |-> [c \in Subscribers |->
                          [state |-> IF c \in gone THEN "closed" ELSE "none", buf |-> <<>>, lost |-> FALSE]]]

\* The pane ID with everything that happens to it.
StreamSpec == StreamInit /\ ClientsInit /\ [][StreamNext]_vars

-----------------------------------------------------------------------------
(* The types.                                                              *)

Ends == {"open", "clean", "error"}
Steps == {"off", "installed", "launch", "take", "handle", "render", "apply", "remove",
          "drained", "exited", "leave", "done"}
FrameType == [kind: {"none", "error", "update", "closed", "unknown"},
              owner: {"none", "mine", "other"}, text: Texts]
\* The contents of the one-slot channel, and of the reader's hand.
Channel == {<<>>} \union {<<f>> : f \in FrameType}
EventType == [type: {"subscribe_error", "health_changed", "pane_closed", "raw_output", "server_ready"},
              text: Texts]
WorkerType == [pc: Steps, cancelled: BOOLEAN, eof: Ends, hand: Channel, slot: Channel,
               frame: FrameType, todo: Seq(EventType), latest: FrameType, handled: FrameType,
               shadowed: BOOLEAN, owed: Nat]
ItemType == [n: Nat, event: EventType]
ChanType == [state: {"none", "open", "closed"}, buf: Seq(ItemType), lost: BOOLEAN]
BusType == [count: Nat, history: Seq(ItemType), chan: [Subscribers -> ChanType]]
PaneType == [gen: 0 .. MaxGeneration, st: {"absent", "starting", "running", "error", "closed"}, out: Texts,
             settled: BOOLEAN, due: SUBSET Watchers]
StartType == [pc: {"idle", "get", "install", "check", "done"}, got: 0 .. MaxGeneration]
Told == {"nothing", "error", "output", "closed", "snapshot"}
WatchType == {"idle", "failed", "subscribed", "waiting", "found"}

\* The variables of the subscription manager, of the bus and of the watchers keep
\* their types.
StreamTypeOK ==
    /\ bus \in BusType
    /\ pane \in PaneType
    /\ start \in [Generations -> StartType]
    /\ sub \in [Subs -> WorkerType]
    /\ current \in Subs \union {NoSub}
    /\ stopper \in 0 .. MaxGeneration
    /\ seen \in [Generations -> Told]
    /\ watch \in [Watchers -> WatchType]

-----------------------------------------------------------------------------
(* The frames between a reader and its worker.                             *)

\* No close or error is lost, of one worker.
Accounted(w) ==
    w.owed = Controls(w.hand) + Controls(w.slot) + (IF w.pc = "handle" THEN Controls(<<w.frame>>) ELSE 0)

\* Where the newest frame is, when it is a viewport that was not given up: in the
\* hand, in the slot, with the worker, or handled.
NewestKept(w) ==
    /\ w.latest = NoFrame \/ IsUpdate(w.latest)
    /\ w.hand # <<>> => w.latest = (IF IsUpdate(w.hand[1]) THEN w.hand[1] ELSE NoFrame)
    /\ (w.hand = <<>> /\ w.latest # NoFrame /\ ~w.shadowed) =>
          /\ w.slot # <<>> => w.slot[1] = w.latest
          /\ w.slot = <<>> /\ w.pc = "handle" => w.frame = w.latest
          /\ w.slot = <<>> /\ w.pc # "handle" => w.handled = w.latest

\* A worker that was not started holds nothing, one that has read everything finds
\* nothing more, and one in the middle of a frame has nothing left to publish.
StepsAgree(w) ==
    /\ w.pc = "off" => w = NewWorker
    /\ w.pc \in {"drained", "exited"} => w.hand = <<>> /\ w.slot = <<>> /\ w.eof # "open"
    /\ w.pc \in {"installed", "handle", "render", "apply", "remove", "done"} => w.todo = <<>>

WorkerOK(w) == Accounted(w) /\ NewestKept(w) /\ StepsAgree(w)
WorkersOK == \A s \in Subs : WorkerOK(sub[s])

-----------------------------------------------------------------------------
(* Starts, the table and the pane.                                         *)

Live(s) == sub[s].pc \notin {"off", "done"}

\* A StartPane works on generations that exist, and installs each at most once.
StartsOnce ==
    \A g \in Generations :
       /\ start[g].pc # "idle" => g <= pane.gen
       /\ start[g].pc \in {"install", "check"} => g <= start[g].got /\ start[g].got <= pane.gen
       /\ \A n \in Generations : g <= n /\ sub[<<g, n>>].pc # "off" =>
             /\ start[g].pc # "idle" /\ n <= pane.gen
             /\ start[g].pc = "get" => n < pane.gen
             /\ start[g].pc = "install" => n < start[g].got
             /\ start[g].pc = "check" => n <= start[g].got
       /\ start[g].pc = "check" => sub[<<g, start[g].got>>].pc = "installed"

\* A worker that was not cancelled is in the table, and one that was is not.
InTable ==
    \A s \in Subs : /\ Live(s) /\ ~sub[s].cancelled => current = s
                    /\ current = s => Live(s) /\ ~sub[s].cancelled

\* A record that exists was registered, and a stop is under way only for a generation
\* that is settled, whatever was made of its record since.
SettledBeforeStop ==
    /\ pane.st # "absent" => pane.gen # 0
    /\ stopper <= pane.gen
    /\ stopper # 0 /\ stopper = pane.gen => pane.settled
    /\ pane.st = "closed" => pane.settled

\* A worker for a live record is in the table until it removes the record; when it
\* comes to its end there, the monitor has been told.
CurrentUntilTold ==
    (Unsettled /\ ~closed) =>
       \A s \in Subs : s[2] = pane.gen =>
          /\ Live(s) => current = s \/ sub[s].pc = "remove"
          /\ current = s /\ sub[s].pc \in {"exited", "leave"} => seen[pane.gen] \in Reported

\* A live record is watched, or a start is on its way to that, or it is known why not.
WatchedOrStarting ==
    (Unsettled /\ ~closed) =>
       \/ current # NoSub /\ current[2] = pane.gen
       \/ seen[pane.gen] \in Reported
       \/ \E s \in Subs : s[2] = pane.gen /\ sub[s].pc = "remove"
       \/ \E g \in Generations : start[g].pc = "get"
       \/ \E g \in Generations : start[g].pc = "install" /\ start[g].got = pane.gen

TableOK == StartsOnce /\ InTable /\ SettledBeforeStop /\ CurrentUntilTold /\ WatchedOrStarting

-----------------------------------------------------------------------------
(* The bus.                                                                *)

\* Each event of the history, and of an open channel that lost none, is at its
\* distance from the last one published.
Numbered(s, count) == \A i \in 1 .. Len(s) : s[i].n + Len(s) = count + i

HistoryOK(history, count) ==
    /\ Numbered(history, count)
    /\ Len(history) = (IF count < HistoryN THEN count ELSE HistoryN)

ChanOK(ch, count) ==
    ~ch.lost => /\ Consecutive(ch.buf)
                /\ ch.state = "open" => Numbered(ch.buf, count)

GoodBus(b) == HistoryOK(b.history, b.count) /\ \A c \in Subscribers : ChanOK(b.chan[c], b.count)

BusOK == GoodBus(bus)

\* Who waits is subscribed.
WaiterIsSubscribed == \A w \in Watchers : watch[w] \in {"subscribed", "waiting"} => bus.chan[w].state = "open"

\* Who is owed the marker and has yet to look finds it in the record.
DueIsShown == \A w \in pane.due : watch[w] \in {"idle", "subscribed"} => HasMarker(pane.out)

\* The inductive invariant.
StreamInv ==
    /\ StreamTypeOK /\ WorkersOK /\ TableOK /\ BusOK /\ WaiterIsSubscribed /\ MarkerNotMissed
    /\ DueIsShown

-----------------------------------------------------------------------------
(* Frames and events.                                                      *)

LEMMA ControlsOf ==
    /\ Controls(<<>>) = 0
    /\ \A f : Controls(<<f>>) = IF IsUpdate(f) THEN 0 ELSE 1
<1>1. Controls(<<>>) = 0
  <2>1. {i \in DOMAIN <<>> : ~IsUpdate(<<>>[i])} = {}
    OBVIOUS
  <2> QED BY <2>1, FS_EmptySet DEF Controls
<1>2. ASSUME NEW f PROVE Controls(<<f>>) = IF IsUpdate(f) THEN 0 ELSE 1
  <2>1. DOMAIN <<f>> = {1} /\ <<f>>[1] = f
    OBVIOUS
  <2>2. CASE IsUpdate(f)
    <3>1. {i \in DOMAIN <<f>> : ~IsUpdate(<<f>>[i])} = {}
      BY <2>1, <2>2
    <3> QED BY <3>1, <2>2, FS_EmptySet DEF Controls
  <2>3. CASE ~IsUpdate(f)
    <3>1. {i \in DOMAIN <<f>> : ~IsUpdate(<<f>>[i])} = {1}
      BY <2>1, <2>3
    <3> QED BY <3>1, <2>3, FS_Singleton DEF Controls
  <2> QED BY <2>2, <2>3
<1> QED BY <1>1, <1>2

LEMMA NoFrameIsFrame == NoFrame \in FrameType /\ ~IsUpdate(NoFrame)
BY StreamAssumption DEF NoFrame, Frame, FrameType, IsUpdate

LEMMA ParsedIsFrame ==
    ASSUME NEW line \in Lines
    PROVE  ParseSubscribeNDJSONLine(line) \in FrameType
BY StreamAssumption DEF ParseSubscribeNDJSONLine, Frame, FrameType

LEMMA EventsAreEvents ==
    /\ ErrorEvent \in EventType /\ HealthEvent \in EventType /\ ClosedEvent \in EventType
    /\ \A text \in Texts : RawOutput(text) \in EventType
BY StreamAssumption DEF ErrorEvent, HealthEvent, ClosedEvent, RawOutput, EventType

\* Of what Apply publishes, the raw output comes first.
LEMMA OutputFirst ==
    ASSUME NEW text \in Texts, NEW events, events = <<RawOutput(text)>> \o SemanticEventsFromText(text)
    PROVE  events \in Seq(EventType) /\ events # <<>> /\ events[1] = RawOutput(text)
<1>1. RawOutput(text) \in EventType
  BY EventsAreEvents
<1>2. SemanticEventsFromText(text) \in Seq(EventType)
  <2>1. [type |-> "server_ready", text |-> text] \in EventType
    BY DEF EventType
  <2>2. <<[type |-> "server_ready", text |-> text]>> \in Seq(EventType) /\ <<>> \in Seq(EventType)
    BY <2>1
  <2> QED BY <2>2 DEF SemanticEventsFromText
<1>3. <<RawOutput(text)>> \in Seq(EventType) /\ Len(<<RawOutput(text)>>) = 1 /\ <<RawOutput(text)>>[1] = RawOutput(text)
  BY <1>1
<1> DEFINE first == <<RawOutput(text)>>
           more == SemanticEventsFromText(text)
<1> HIDE DEF first, more
<1>4. first \in Seq(EventType) /\ Len(first) = 1 /\ first[1] = RawOutput(text) /\ more \in Seq(EventType)
      /\ events = first \o more
  BY <1>2, <1>3 DEF first, more
<1>5. /\ first \o more \in Seq(EventType)
      /\ Len(first \o more) = Len(first) + Len(more)
      /\ \A i \in 1 .. Len(first) + Len(more) : (first \o more)[i] =
            IF i <= Len(first) THEN first[i] ELSE more[i - Len(first)]
  BY <1>4, ConcatProperties, Zenon
<1>6. 1 \in 1 .. Len(first) + Len(more) /\ 1 <= Len(first)
  BY <1>4
<1>7. (first \o more)[1] = first[1] /\ Len(first \o more) # 0
  BY <1>4, <1>5, <1>6
<1>8. events \in Seq(EventType) /\ events[1] = RawOutput(text) /\ Len(events) # 0
  BY <1>4, <1>5, <1>7, Zenon
<1>9. \A e : Len(e) # 0 => e # <<>>
  OBVIOUS
<1> QED BY <1>8, <1>9, Zenon

-----------------------------------------------------------------------------
(* One worker.                                                             *)

LEMMA NewWorkerOK ==
    /\ NewWorker \in WorkerType /\ WorkerOK(NewWorker) /\ NewWorker.pc = "off" /\ ~NewWorker.cancelled
    /\ Ended \in WorkerType /\ WorkerOK(Ended) /\ Ended.pc = "done" /\ Ended.cancelled /\ Ended.todo = <<>>
<1>1. NewWorker \in WorkerType
  BY NoFrameIsFrame DEF NewWorker, WorkerType, Steps, Ends, Channel
<1>2. Ended \in WorkerType
  <2>1. {"done"} \subseteq Steps /\ {"clean"} \subseteq Ends
    BY DEF Steps, Ends
  <2> QED BY <1>1, <2>1 DEF Ended, WorkerType
<1>3. /\ NewWorker.pc = "off" /\ ~NewWorker.cancelled
      /\ NewWorker.hand = <<>> /\ NewWorker.slot = <<>> /\ NewWorker.owed = 0 /\ NewWorker.latest = NoFrame
  BY DEF NewWorker
<1>4. /\ Ended.pc = "done" /\ Ended.cancelled /\ Ended.todo = <<>>
      /\ Ended.hand = <<>> /\ Ended.slot = <<>> /\ Ended.owed = 0 /\ Ended.latest = NoFrame
  BY DEF NewWorker, Ended
<1>5. WorkerOK(NewWorker)
  BY <1>3, ControlsOf DEF WorkerOK, Accounted, NewestKept, StepsAgree
<1>6. WorkerOK(Ended)
  BY <1>4, ControlsOf DEF WorkerOK, Accounted, NewestKept, StepsAgree
<1> QED BY <1>1, <1>2, <1>3, <1>4, <1>5, <1>6

\* A step that touches no frame.
LEMMA StepKeeps ==
    ASSUME NEW w \in WorkerType, NEW v \in WorkerType, WorkerOK(w),
           v.pc = "handle" <=> w.pc = "handle", v.pc = "handle" => v.frame = w.frame, v.pc # "off",
           v.hand = w.hand, v.slot = w.slot, v.latest = w.latest, v.handled = w.handled,
           v.shadowed = w.shadowed, v.owed = w.owed,
           v.pc \in {"drained", "exited"} => w.hand = <<>> /\ w.slot = <<>> /\ v.eof # "open",
           v.pc \in {"installed", "handle", "render", "apply", "remove", "done"} => v.todo = <<>>
    PROVE  WorkerOK(v)
<1>1. Accounted(v)
  BY DEF WorkerOK, Accounted
<1>2. NewestKept(v)
  BY DEF WorkerOK, NewestKept
<1>3. StepsAgree(v)
  BY DEF StepsAgree
<1> QED BY <1>1, <1>2, <1>3 DEF WorkerOK

\* The worker takes the frame out of the slot.
LEMMA TakeKeeps ==
    ASSUME NEW w \in WorkerType, NEW v \in WorkerType, WorkerOK(w),
           w.pc = "take", w.slot # <<>>, w.todo = <<>>,
           v = [w EXCEPT !.pc = "handle", !.frame = Head(w.slot), !.slot = <<>>]
    PROVE  WorkerOK(v)
<1>1. PICK f \in FrameType : w.slot = <<f>>
  BY DEF WorkerType, Channel
<1>2. /\ v.pc = "handle" /\ v.frame = f /\ v.slot = <<>> /\ v.hand = w.hand /\ v.latest = w.latest
      /\ v.shadowed = w.shadowed /\ v.owed = w.owed /\ v.todo = <<>>
  BY <1>1 DEF WorkerType
<1>3. w.owed = Controls(w.hand) + Controls(<<f>>) + 0
  BY <1>1 DEF WorkerOK, Accounted
<1>4. Accounted(v)
  <2>1. Controls(w.hand) \in Nat /\ Controls(<<f>>) \in Nat
    BY ControlsOf DEF WorkerType, Channel
  <2> QED BY <1>2, <1>3, <2>1, ControlsOf DEF Accounted
<1>5. NewestKept(v)
  BY <1>1, <1>2 DEF WorkerOK, NewestKept
<1>6. StepsAgree(v)
  BY <1>2 DEF StepsAgree
<1> QED BY <1>4, <1>5, <1>6 DEF WorkerOK

\* The worker is done with the frame, or has found it to be a viewport to show.
LEMMA HandleKeeps ==
    ASSUME NEW w \in WorkerType, NEW v \in WorkerType, WorkerOK(w), w.pc = "handle",
           v.pc \in {"take", "remove", "render"}, v.pc # "take" => v.todo = <<>>,
           v.handled = (IF IsUpdate(w.frame) THEN w.frame ELSE w.handled),
           v.owed = (IF IsUpdate(w.frame) THEN w.owed ELSE w.owed - 1),
           v.hand = w.hand, v.slot = w.slot, v.latest = w.latest, v.shadowed = w.shadowed
    PROVE  WorkerOK(v)
<1>1. Controls(w.hand) \in Nat /\ Controls(w.slot) \in Nat
  BY ControlsOf DEF WorkerType, Channel
<1>2. w.owed = Controls(w.hand) + Controls(w.slot) + (IF IsUpdate(w.frame) THEN 0 ELSE 1)
  BY ControlsOf DEF WorkerOK, Accounted
<1>3. v.owed = Controls(w.hand) + Controls(w.slot)
  BY <1>1, <1>2
<1>4. Accounted(v)
  BY <1>1, <1>3 DEF Accounted
<1>5. NewestKept(v)
  BY NoFrameIsFrame DEF WorkerOK, NewestKept
<1>6. StepsAgree(v)
  BY DEF StepsAgree
<1> QED BY <1>4, <1>5, <1>6 DEF WorkerOK

\* The number of control frames counted down stays a natural number.
LEMMA OwedIsNat ==
    ASSUME NEW w \in WorkerType, WorkerOK(w), w.pc = "handle", ~IsUpdate(w.frame)
    PROVE  w.owed - 1 \in Nat
<1>1. Controls(w.hand) \in Nat /\ Controls(w.slot) \in Nat
  BY ControlsOf DEF WorkerType, Channel
<1>2. w.owed = Controls(w.hand) + Controls(w.slot) + 1
  BY ControlsOf DEF WorkerOK, Accounted
<1> QED BY <1>1, <1>2

\* The reader reads a frame.
LEMMA ReadKeeps ==
    ASSUME NEW w \in WorkerType, NEW v \in WorkerType, WorkerOK(w), NEW f \in FrameType,
           w.hand = <<>>, w.eof = "open", w.pc # "off",
           v = [w EXCEPT !.hand = <<f>>, !.latest = IF IsUpdate(f) THEN f ELSE NoFrame,
                         !.owed = IF IsUpdate(f) THEN @ ELSE @ + 1]
    PROVE  WorkerOK(v)
<1>1. /\ v.hand = <<f>> /\ v.latest = (IF IsUpdate(f) THEN f ELSE NoFrame)
      /\ v.owed = (IF IsUpdate(f) THEN w.owed ELSE w.owed + 1)
      /\ v.slot = w.slot /\ v.pc = w.pc /\ v.frame = w.frame /\ v.eof = "open" /\ v.todo = w.todo
      /\ v.pc # "off" /\ v.hand # <<>> /\ v.hand[1] = f
  BY DEF WorkerType
<1>2. PICK n : n = (IF w.pc = "handle" THEN Controls(<<w.frame>>) ELSE 0)
  OBVIOUS
<1>3. Controls(w.slot) \in Nat /\ n \in Nat
  BY <1>2, ControlsOf DEF WorkerType, Channel
<1>4. w.owed = 0 + Controls(w.slot) + n
  BY <1>2, ControlsOf DEF WorkerOK, Accounted
<1>5. v.owed = (IF IsUpdate(f) THEN 0 ELSE 1) + Controls(w.slot) + n
  BY <1>1, <1>3, <1>4
<1>6. Accounted(v)
  BY <1>1, <1>2, <1>5, ControlsOf DEF Accounted
<1>7. NewestKept(v)
  BY <1>1 DEF NewestKept
<1>8. StepsAgree(v)
  BY <1>1 DEF WorkerOK, StepsAgree
<1> QED BY <1>6, <1>7, <1>8 DEF WorkerOK

\* The reader offers its frame, and it goes into the slot.
LEMMA OfferKeeps ==
    ASSUME NEW w \in WorkerType, NEW v \in WorkerType, WorkerOK(w),
           w.hand # <<>>, \A i \in DOMAIN w.slot : IsUpdate(w.slot[i]),
           v = [w EXCEPT !.slot = <<w.hand[1]>>, !.hand = <<>>]
    PROVE  WorkerOK(v)
<1>1. PICK f \in FrameType : w.hand = <<f>>
  BY DEF WorkerType, Channel
<1>2. /\ v.hand = <<>> /\ v.slot = <<f>> /\ v.latest = w.latest /\ v.owed = w.owed /\ v.pc = w.pc
      /\ v.frame = w.frame /\ v.eof = w.eof /\ v.todo = w.todo /\ v.slot # <<>> /\ v.slot[1] = f
  BY <1>1 DEF WorkerType
<1>3. w.pc # "off" /\ w.pc \notin {"drained", "exited"}
  BY <1>1 DEF WorkerOK, StepsAgree, NewWorker
<1>4. PICK n : n = (IF w.pc = "handle" THEN Controls(<<w.frame>>) ELSE 0)
  OBVIOUS
<1>5. Controls(w.slot) = 0
  BY ControlsOf DEF WorkerType, Channel
<1>6. w.owed = Controls(<<f>>) + 0 + n /\ n \in Nat /\ Controls(<<f>>) \in Nat
  BY <1>1, <1>4, <1>5, ControlsOf DEF WorkerOK, Accounted
<1>7. v.owed = 0 + Controls(<<f>>) + n
  BY <1>2, <1>6
<1>8. Accounted(v)
  BY <1>2, <1>4, <1>7, ControlsOf DEF Accounted
<1>9. NewestKept(v)
  BY <1>1, <1>2 DEF WorkerOK, NewestKept
<1>10. StepsAgree(v)
  BY <1>2, <1>3 DEF WorkerOK, StepsAgree
<1> QED BY <1>8, <1>9, <1>10 DEF WorkerOK

\* The reader gives a viewport up behind a close or an error.
LEMMA GiveUpKeeps ==
    ASSUME NEW w \in WorkerType, NEW v \in WorkerType, WorkerOK(w),
           w.hand # <<>>, IsUpdate(w.hand[1]),
           v = [w EXCEPT !.hand = <<>>, !.shadowed = TRUE]
    PROVE  WorkerOK(v)
<1>1. PICK f \in FrameType : w.hand = <<f>>
  BY DEF WorkerType, Channel
<1>2. /\ v.hand = <<>> /\ v.slot = w.slot /\ v.latest = w.latest /\ v.owed = w.owed /\ v.pc = w.pc
      /\ v.frame = w.frame /\ v.eof = w.eof /\ v.todo = w.todo /\ v.shadowed
  BY DEF WorkerType
<1>3. w.pc # "off" /\ w.pc \notin {"drained", "exited"}
  <2>1. NewWorker.hand = <<>> /\ w.hand # <<>>
    BY DEF NewWorker
  <2> QED BY <2>1 DEF WorkerOK, StepsAgree
<1>4. Controls(w.hand) = 0
  BY <1>1, ControlsOf
<1>5. Accounted(v)
  BY <1>2, <1>4, ControlsOf DEF WorkerOK, Accounted
<1>6. NewestKept(v)
  BY <1>2 DEF WorkerOK, NewestKept
<1>7. StepsAgree(v)
  BY <1>2, <1>3 DEF WorkerOK, StepsAgree
<1> QED BY <1>5, <1>6, <1>7 DEF WorkerOK

-----------------------------------------------------------------------------
(* What a step of a worker or a reader leaves alone.                       *)

\* Only subscription s is another one after the step.
Others(s) == \A t \in Subs \ {s} : sub'[t] = sub[t]

LEMMA SubsFacts ==
    /\ NoSub \notin Subs
    /\ \A s \in Subs : s[1] \in Generations /\ s[2] \in Generations /\ s[1] <= s[2] /\ s = <<s[1], s[2]>>
    /\ \A g, n \in Generations : g <= n => <<g, n>> \in Subs
    /\ \A g \in Generations : g \in Nat /\ g # 0 /\ g <= MaxGeneration
BY StreamAssumption DEF Subs, NoSub, Generations

\* The subscription that a start installs, or has installed, is one of Subs.
LEMMA StartNames ==
    ASSUME StreamTypeOK, StartsOnce, NEW g \in Generations, start[g].pc \in {"install", "check"}
    PROVE  start[g].got \in Generations /\ <<g, start[g].got>> \in Subs /\ start[g].got <= pane.gen
<1>1. g <= start[g].got /\ start[g].got <= pane.gen
  BY DEF StartsOnce
<1>2. start[g].got \in 0 .. MaxGeneration
  BY DEF StreamTypeOK, StartType
<1>3. start[g].got \in Generations
  BY <1>1, <1>2, StreamAssumption DEF Generations
<1> QED BY <1>1, <1>3, SubsFacts

\* Starts that do not move are disturbed by no step of a worker.
LEMMA StartsStay ==
    ASSUME StreamTypeOK, StartsOnce, start' = start, pane'.gen = pane.gen,
           \A t \in Subs : sub[t].pc = "off" => sub'[t].pc = "off",
           \A t \in Subs : sub[t].pc = "installed" => sub'[t].pc = "installed"
    PROVE  StartsOnce'
<1> SUFFICES ASSUME NEW g \in Generations
             PROVE  /\ start[g].pc # "idle" => g <= pane.gen
                    /\ start[g].pc \in {"install", "check"} => g <= start[g].got /\ start[g].got <= pane.gen
                    /\ \A n \in Generations : g <= n /\ sub'[<<g, n>>].pc # "off" =>
                          /\ start[g].pc # "idle" /\ n <= pane.gen
                          /\ start[g].pc = "get" => n < pane.gen
                          /\ start[g].pc = "install" => n < start[g].got
                          /\ start[g].pc = "check" => n <= start[g].got
                    /\ start[g].pc = "check" => sub'[<<g, start[g].got>>].pc = "installed"
  BY DEF StartsOnce
<1>1. \A n \in Generations : g <= n => (sub[<<g, n>>].pc = "off" => sub'[<<g, n>>].pc = "off")
  BY SubsFacts
<1>2. start[g].pc = "check" => <<g, start[g].got>> \in Subs
  BY StartNames
<1> QED BY <1>1, <1>2 DEF StartsOnce

LEMMA WorkersStep ==
    ASSUME WorkersOK, NEW s \in Subs, Others(s), WorkerOK(sub'[s])
    PROVE  WorkersOK'
BY DEF WorkersOK, Others

\* A step of a worker in the middle of its work keeps the table, when the monitor
\* hears of the end of a current worker, and a record is not left half removed.
LEMMA TableStep ==
    ASSUME StreamTypeOK, TableOK, NEW s \in Subs, Others(s), pane' \in PaneType,
           UNCHANGED <<start, current, closed, stopper>>,
           pane'.gen = pane.gen, pane'.settled = pane.settled, Unsettled' => Unsettled,
           pane.st = "absent" => pane'.st = "absent", pane'.st = "closed" => pane.st = "closed",
           sub[s].pc \notin {"off", "installed", "done"}, sub'[s].pc \notin {"off", "installed", "done"},
           sub'[s].cancelled = sub[s].cancelled,
           (Unsettled' /\ s[2] = pane.gen) =>
               /\ sub[s].pc = "remove" => sub'[s].pc = "remove"
               /\ ~closed /\ current = s /\ sub'[s].pc \in {"exited", "leave"} => seen'[pane.gen] \in Reported,
           Unsettled' => \/ seen'[pane.gen] \in Reported \/ seen'[pane.gen] = seen[pane.gen]
                         \/ closed \/ (current = s /\ s[2] = pane.gen /\ sub'[s].pc \notin {"exited", "leave"})
    PROVE  TableOK'
<1> USE SubsFacts
<1>1. /\ \A t \in Subs : sub[t].pc = "off" <=> sub'[t].pc = "off"
      /\ \A t \in Subs : sub[t].pc = "installed" <=> sub'[t].pc = "installed"
      /\ \A t \in Subs : sub[t].pc = "done" <=> sub'[t].pc = "done"
      /\ \A t \in Subs : sub'[t].cancelled = sub[t].cancelled
  BY DEF Others
<1>2. StartsOnce'
  BY <1>1, StartsStay DEF TableOK
<1>3. InTable'
  BY <1>1 DEF TableOK, InTable, Live
<1>4. SettledBeforeStop'
  BY DEF TableOK, SettledBeforeStop
<1>5. CurrentUntilTold'
  BY <1>1 DEF TableOK, CurrentUntilTold, Live, Others
<1>6. WatchedOrStarting'
  BY DEF TableOK, WatchedOrStarting, Others
<1> QED BY <1>2, <1>3, <1>4, <1>5, <1>6 DEF TableOK

\* The same, for a step that changes neither the record nor what the monitor knows.
LEMMA TableGoesOn ==
    ASSUME StreamTypeOK, TableOK, NEW s \in Subs, Others(s),
           UNCHANGED <<pane, start, current, closed, stopper, seen>>,
           sub[s].pc \notin {"off", "installed", "done"}, sub'[s].pc \notin {"off", "installed", "done"},
           sub'[s].cancelled = sub[s].cancelled,
           Unsettled /\ s[2] = pane.gen /\ sub[s].pc = "remove" => sub'[s].pc = "remove",
           Unsettled /\ s[2] = pane.gen /\ current = s /\ sub'[s].pc \in {"exited", "leave"}
              => sub[s].pc \in {"exited", "leave"}
    PROVE  TableOK'
<1>1. Unsettled' = Unsettled /\ pane' \in PaneType
  BY DEF Unsettled, Active, StreamTypeOK
<1>2. Unsettled /\ ~closed /\ s[2] = pane.gen /\ current = s /\ sub'[s].pc \in {"exited", "leave"} => seen[pane.gen] \in Reported
  BY DEF TableOK, CurrentUntilTold
<1> QED BY <1>1, <1>2, TableStep

\* Nothing of the table changes.
LEMMA TableStays ==
    ASSUME TableOK, UNCHANGED <<pane, start, current, closed, stopper, seen, sub>>
    PROVE  TableOK'
BY DEF TableOK, StartsOnce, InTable, SettledBeforeStop, CurrentUntilTold, WatchedOrStarting, Live, Unsettled, Active

LEMMA BusStays ==
    ASSUME BusOK, WaiterIsSubscribed, UNCHANGED <<bus, watch>>
    PROVE  BusOK' /\ WaiterIsSubscribed'
BY DEF BusOK, WaiterIsSubscribed

\* Who is owed the marker was owed it before, by a record that still has what it had
\* unless they have looked, or has yet to look and will find it.
DueKept ==
    \A w \in pane'.due : \/ w \in pane.due /\ (watch[w] = "waiting" \/ pane'.out = pane.out)
                         \/ watch[w] # "waiting" /\ HasMarker(pane'.out)

\* Who waits for the marker goes on waiting for what is on its way, or finds what
\* was just sent on its way.
LEMMA MarkerStep ==
    ASSUME MarkerNotMissed, DueIsShown, NEW s \in Subs, Others(s), UNCHANGED <<bus, watch>>,
           \/ DueKept /\ (sub'[s].todo = sub[s].todo \/ sub[s].todo = <<>>)
           \/ HasMarker(pane'.out) /\ 1 \in DOMAIN sub'[s].todo /\ sub'[s].todo[1] = RawOutput(Marker)
    PROVE  MarkerNotMissed' /\ DueIsShown'
<1>1. DueIsShown'
  BY DEF DueIsShown, DueKept, HasMarker
<1>2. ASSUME NEW w \in pane'.due, watch[w] = "waiting", ~bus.chan[w].lost,
             ~\E i \in DOMAIN bus.chan[w].buf : bus.chan[w].buf[i].event = RawOutput(Marker)
      PROVE  \E t \in Subs : \E i \in DOMAIN sub'[t].todo : sub'[t].todo[i] = RawOutput(Marker)
  <2>1. CASE 1 \in DOMAIN sub'[s].todo /\ sub'[s].todo[1] = RawOutput(Marker)
    BY <2>1
  <2>2. CASE DueKept /\ (sub'[s].todo = sub[s].todo \/ sub[s].todo = <<>>)
    <3>1. w \in pane.due
      BY <1>2, <2>2 DEF DueKept
    <3>2. PICK t \in Subs : \E i \in DOMAIN sub[t].todo : sub[t].todo[i] = RawOutput(Marker)
      BY <1>2, <3>1 DEF MarkerNotMissed
    <3>3. sub'[t].todo = sub[t].todo
      BY <2>2, <3>2 DEF Others
    <3> QED BY <3>2, <3>3
  <2> QED BY <2>1, <2>2
<1>3. MarkerNotMissed'
  BY <1>2 DEF MarkerNotMissed, RawOutput
<1> QED BY <1>1, <1>3

\* A step of a worker or a reader that publishes nothing, for the whole invariant.
LEMMA WorkerStep ==
    ASSUME StreamInv, NEW s \in Subs, Others(s), sub' \in [Subs -> WorkerType], WorkerOK(sub'[s]),
           UNCHANGED <<bus, start, current, closed, stopper, watch>>,
           pane' \in PaneType, seen' \in [Generations -> Told],
           TableOK',
           \/ DueKept /\ (sub'[s].todo = sub[s].todo \/ sub[s].todo = <<>>)
           \/ HasMarker(pane'.out) /\ 1 \in DOMAIN sub'[s].todo /\ sub'[s].todo[1] = RawOutput(Marker)
    PROVE  StreamInv'
<1>1. StreamTypeOK'
  BY DEF StreamInv, StreamTypeOK
<1>2. WorkersOK'
  BY WorkersStep DEF StreamInv
<1>3. BusOK' /\ WaiterIsSubscribed'
  BY BusStays DEF StreamInv
<1>4. MarkerNotMissed' /\ DueIsShown'
  BY MarkerStep DEF StreamInv
<1> QED BY <1>1, <1>2, <1>3, <1>4 DEF StreamInv

-----------------------------------------------------------------------------
(* The steps of a worker that leave the table alone.                       *)

LEMMA Typed ==
    ASSUME StreamInv, NEW s \in Subs
    PROVE  /\ sub \in [Subs -> WorkerType] /\ sub[s] \in WorkerType /\ WorkerOK(sub[s])
           /\ pane \in PaneType /\ pane.gen \in Nat /\ TableOK /\ StreamTypeOK
           /\ seen \in [Generations -> Told]
           /\ s[2] \in Generations
BY SubsFacts, StreamAssumption DEF StreamInv, StreamTypeOK, WorkersOK, PaneType

\* What TellError does.
LEMMA TellErrorFacts ==
    ASSUME StreamInv, NEW s \in Subs, TellError(s)
    PROVE  /\ seen' \in [Generations -> Told]
           /\ IsCurrentGeneration(s) /\ Active => seen'[pane.gen] \in Reported
           /\ ~(IsCurrentGeneration(s) /\ Active) => seen' = seen
           /\ Active => seen'[pane.gen] \in Reported \/ seen'[pane.gen] = seen[pane.gen]
BY Typed DEF TellError, IsCurrentGeneration, Reported, Told

\* A worker that is not current, of a live record, is not in the table.
LEMMA NotCurrent ==
    ASSUME StreamInv, NEW s \in Subs, ~subscriptionIsCurrent(s), Active
    PROVE  ~(current = s /\ s[2] = pane.gen)
BY Typed DEF subscriptionIsCurrent, IsCurrentGeneration, Exists, Active, TableOK, InTable

LEMMA ReplaceEffect ==
    ASSUME sub \in [Subs -> WorkerType], NEW s \in Subs, NEW w \in WorkerType, sub' = [sub EXCEPT ![s] = w]
    PROVE  sub' \in [Subs -> WorkerType] /\ sub'[s] = w /\ Others(s)
BY DEF Others

\* What the shorthands of the worker's steps do to its record.
LEMMA GotoEffect ==
    ASSUME sub \in [Subs -> WorkerType], NEW s \in Subs, NEW pc \in Steps, sub' = [sub EXCEPT ![s].pc = pc]
    PROVE  sub' \in [Subs -> WorkerType] /\ Others(s) /\ sub'[s] = [sub[s] EXCEPT !.pc = pc]
<1>1. sub' = [sub EXCEPT ![s] = [sub[s] EXCEPT !.pc = pc]]
  BY DEF WorkerType
<1>2. [sub[s] EXCEPT !.pc = pc] \in WorkerType
  BY DEF WorkerType
<1> QED BY <1>1, <1>2, ReplaceEffect

LEMMA LeaveEffect ==
    ASSUME sub \in [Subs -> WorkerType], NEW s \in Subs, sub' = [sub EXCEPT ![s].pc = "leave", ![s].eof = "clean"]
    PROVE  sub' \in [Subs -> WorkerType] /\ Others(s) /\ sub'[s] = [sub[s] EXCEPT !.pc = "leave", !.eof = "clean"]
<1>1. sub' = [sub EXCEPT ![s] = [sub[s] EXCEPT !.pc = "leave", !.eof = "clean"]]
  BY DEF WorkerType
<1>2. "leave" \in Steps /\ "clean" \in Ends
  BY DEF Steps, Ends
<1>3. [sub[s] EXCEPT !.pc = "leave", !.eof = "clean"] \in WorkerType
  BY <1>2 DEF WorkerType
<1> QED BY <1>1, <1>3, ReplaceEffect

LEMMA SkipEffect ==
    ASSUME sub \in [Subs -> WorkerType], NEW s \in Subs, sub' = [sub EXCEPT ![s].pc = "take", ![s].frame = NoFrame]
    PROVE  sub' \in [Subs -> WorkerType] /\ Others(s) /\ sub'[s] = [sub[s] EXCEPT !.pc = "take", !.frame = NoFrame]
<1>1. sub' = [sub EXCEPT ![s] = [sub[s] EXCEPT !.pc = "take", !.frame = NoFrame]]
  BY DEF WorkerType
<1>2. "take" \in Steps /\ NoFrame \in FrameType
  BY NoFrameIsFrame DEF Steps
<1>3. [sub[s] EXCEPT !.pc = "take", !.frame = NoFrame] \in WorkerType
  BY <1>2 DEF WorkerType
<1> QED BY <1>1, <1>3, ReplaceEffect

LEMMA EofEffect ==
    ASSUME NEW f \in [Subs -> WorkerType], NEW s \in Subs, NEW how \in Ends, NEW g, g = [f EXCEPT ![s].eof = how]
    PROVE  g \in [Subs -> WorkerType] /\ g[s] = [f[s] EXCEPT !.eof = how] /\ \A t \in Subs \ {s} : g[t] = f[t]
BY DEF WorkerType

LEMMA FailEffect ==
    ASSUME sub \in [Subs -> WorkerType], NEW s \in Subs, NEW events \in Seq(EventType),
           sub' = [Publishing(s, "leave", events) EXCEPT ![s].eof = "clean"]
    PROVE  /\ sub' \in [Subs -> WorkerType] /\ Others(s)
           /\ sub'[s] = [sub[s] EXCEPT !.pc = "leave", !.todo = events, !.eof = "clean"]
<1>1. "leave" \in Steps /\ "clean" \in Ends
  BY DEF Steps, Ends
<1>2. PICK f : f = [sub EXCEPT ![s].pc = "leave", ![s].todo = events]
  OBVIOUS
<1>3. f \in [Subs -> WorkerType] /\ f[s] = [sub[s] EXCEPT !.pc = "leave", !.todo = events] /\ \A t \in Subs \ {s} : f[t] = sub[t]
  <2>1. f = [sub EXCEPT ![s] = [sub[s] EXCEPT !.pc = "leave", !.todo = events]]
    BY <1>2 DEF WorkerType
  <2>2. [sub[s] EXCEPT !.pc = "leave", !.todo = events] \in WorkerType
    BY <1>1 DEF WorkerType
  <2> QED BY <2>1, <2>2
<1>4. sub' = [f EXCEPT ![s].eof = "clean"]
  BY <1>2 DEF Publishing
<1>5. sub' \in [Subs -> WorkerType] /\ sub'[s] = [f[s] EXCEPT !.eof = "clean"] /\ \A t \in Subs \ {s} : sub'[t] = f[t]
  <2>1. f \in [Subs -> WorkerType]
    BY <1>3
  <2>2. \A g : g = [f EXCEPT ![s].eof = "clean"] =>
           g \in [Subs -> WorkerType] /\ g[s] = [f[s] EXCEPT !.eof = "clean"] /\ \A t \in Subs \ {s} : g[t] = f[t]
    BY <1>1, <2>1, EofEffect
  <2> QED BY <1>4, <2>2, Zenon
<1> QED BY <1>3, <1>5 DEF Others

LEMMA LaunchInv ==
    ASSUME StreamInv, NEW s \in Subs, NEW ok \in BOOLEAN, Launch(s, ok)
    PROVE  StreamInv'
<1>0. /\ sub \in [Subs -> WorkerType] /\ sub[s] \in WorkerType /\ WorkerOK(sub[s])
      /\ pane \in PaneType /\ seen \in [Generations -> Told]
      /\ TableOK /\ StreamTypeOK
  BY Typed
<1> USE <1>0
<1>1. /\ sub[s].pc = "launch" /\ sub[s].todo = <<>>
      /\ UNCHANGED <<bus, start, current, closed, stopper, watch>>
  BY DEF Launch, Quiet
<1>2. CASE ok /\ IsCurrentGeneration(s) /\ Active /\ pane' = [pane EXCEPT !.st = "running"]
           /\ sub' = Goto(s, "take") /\ UNCHANGED seen
  <2>1. /\ sub' \in [Subs -> WorkerType] /\ Others(s) /\ sub'[s] = [sub[s] EXCEPT !.pc = "take"]
    BY <1>2, GotoEffect DEF Goto, Steps
  <2>2. WorkerOK(sub'[s])
    BY <1>1, <2>1, StepKeeps DEF WorkerType
  <2>3. pane' \in PaneType /\ pane'.gen = pane.gen /\ pane'.out = pane.out /\ pane'.st = "running"
        /\ pane'.settled = pane.settled /\ pane'.due = pane.due
    BY <1>2 DEF PaneType
  <2>4. TableOK'
    <3>1. sub'[s].pc = "take" /\ sub'[s].cancelled = sub[s].cancelled
      BY <2>1 DEF WorkerType
    <3>2. Unsettled' => Unsettled
      BY <1>2, <2>3 DEF Unsettled
    <3> QED BY <1>1, <1>2, <2>1, <2>3, <3>1, <3>2, TableStep DEF Active
  <2> QED BY <1>1, <1>2, <2>1, <2>2, <2>3, <2>4, WorkerStep DEF DueKept
<1>3. CASE /\ sub' = [sub EXCEPT ![s].pc = "leave", ![s].eof = "clean"]
           /\ ~(IsCurrentGeneration(s) /\ Active) \/ ~subscriptionIsCurrent(s)
           /\ UNCHANGED <<pane, seen>>
  <2>1. /\ sub' \in [Subs -> WorkerType] /\ Others(s) /\ sub'[s] = [sub[s] EXCEPT !.pc = "leave", !.eof = "clean"]
    BY <1>3, LeaveEffect
  <2>2. WorkerOK(sub'[s])
    BY <1>1, <2>1, StepKeeps DEF WorkerType
  <2>3. Unsettled => ~(current = s /\ s[2] = pane.gen)
    BY <1>3, NotCurrent DEF IsCurrentGeneration, Exists, Unsettled, Active, subscriptionIsCurrent
  <2>4. TableOK'
    <3>1. sub'[s].pc = "leave" /\ sub'[s].cancelled = sub[s].cancelled
      BY <2>1 DEF WorkerType
    <3> QED BY <1>1, <1>3, <2>1, <2>3, <3>1, TableGoesOn
  <2> QED BY <1>1, <1>3, <2>1, <2>2, <2>4, WorkerStep DEF DueKept
<1>4. CASE /\ subscriptionIsCurrent(s)
           /\ pane' = IF Active THEN [pane EXCEPT !.st = "error"] ELSE pane
           /\ TellError(s)
           /\ sub' = [Publishing(s, "leave", <<ErrorEvent, HealthEvent>>) EXCEPT ![s].eof = "clean"]
  <2>1. /\ sub' \in [Subs -> WorkerType] /\ Others(s)
        /\ sub'[s] = [sub[s] EXCEPT !.pc = "leave", !.todo = <<ErrorEvent, HealthEvent>>, !.eof = "clean"]
    <3>1. <<ErrorEvent, HealthEvent>> \in Seq(EventType)
      BY EventsAreEvents
    <3> QED BY <1>4, <3>1, FailEffect
  <2>2. WorkerOK(sub'[s])
    BY <1>1, <2>1, StepKeeps DEF WorkerType
  <2>3. pane' \in PaneType /\ pane'.gen = pane.gen /\ pane'.out = pane.out
        /\ pane'.settled = pane.settled /\ pane'.due = pane.due /\ (Unsettled' => Unsettled /\ Active)
        /\ (pane.st = "absent" => pane'.st = "absent") /\ (pane'.st = "closed" => pane.st = "closed")
    BY <1>4 DEF PaneType, Unsettled, Active
  <2>4. TableOK'
    <3>1. sub'[s].pc = "leave" /\ sub'[s].cancelled = sub[s].cancelled
      BY <2>1 DEF WorkerType
    <3> QED BY <1>1, <1>4, <2>1, <2>3, <3>1, TellErrorFacts, TableStep DEF subscriptionIsCurrent
  <2> QED BY <1>1, <1>4, <2>1, <2>2, <2>3, <2>4, TellErrorFacts, WorkerStep DEF DueKept
<1> QED BY <1>2, <1>3, <1>4 DEF Launch

LEMMA TakeInv ==
    ASSUME StreamInv, NEW s \in Subs, Take(s)
    PROVE  StreamInv'
<1>0. /\ sub \in [Subs -> WorkerType] /\ sub[s] \in WorkerType /\ WorkerOK(sub[s]) /\ TableOK /\ StreamTypeOK
      /\ pane \in PaneType /\ seen \in [Generations -> Told]
  BY Typed
<1> USE <1>0
<1>1. /\ sub[s].pc = "take" /\ sub[s].todo = <<>>
      /\ UNCHANGED <<bus, pane, start, current, closed, stopper, seen, watch>>
  BY DEF Take, Quiet
<1>2. CASE /\ sub[s].slot # <<>>
           /\ sub' = [sub EXCEPT ![s].pc = "handle", ![s].frame = Head(sub[s].slot), ![s].slot = <<>>]
  <2>1. /\ sub' \in [Subs -> WorkerType] /\ Others(s)
        /\ sub'[s] = [sub[s] EXCEPT !.pc = "handle", !.frame = Head(sub[s].slot), !.slot = <<>>]
    <3>1. Head(sub[s].slot) \in FrameType /\ <<>> \in Channel
      BY <1>2 DEF WorkerType, Channel
    <3> QED BY <1>2, <3>1 DEF WorkerType, Steps, Others
  <2>2. WorkerOK(sub'[s])
    BY <1>1, <1>2, <2>1, TakeKeeps
  <2>3. TableOK'
    <3>1. sub'[s].pc = "handle" /\ sub'[s].cancelled = sub[s].cancelled
      BY <2>1 DEF WorkerType
    <3> QED BY <1>1, <2>1, <3>1, TableGoesOn
  <2> QED BY <1>1, <2>1, <2>2, <2>3, WorkerStep DEF DueKept
<1>3. CASE /\ sub[s].slot = <<>> /\ sub[s].hand = <<>> /\ sub[s].eof # "open"
           /\ sub' = Goto(s, "drained")
  <2>1. /\ sub' \in [Subs -> WorkerType] /\ Others(s) /\ sub'[s] = [sub[s] EXCEPT !.pc = "drained"]
    BY <1>3, GotoEffect DEF Goto, Steps
  <2>2. WorkerOK(sub'[s])
    BY <1>1, <1>3, <2>1, StepKeeps DEF WorkerType
  <2>3. TableOK'
    <3>1. sub'[s].pc = "drained" /\ sub'[s].cancelled = sub[s].cancelled
      BY <2>1 DEF WorkerType
    <3> QED BY <1>1, <2>1, <3>1, TableGoesOn
  <2> QED BY <1>1, <2>1, <2>2, <2>3, WorkerStep DEF DueKept
<1> QED BY <1>2, <1>3 DEF Take

\* The record of a worker that is done with its frame, and what becomes of it.
HandledFrame(w) ==
    [w EXCEPT !.pc = "take", !.frame = NoFrame,
              !.handled = IF IsUpdate(w.frame) THEN w.frame ELSE @,
              !.owed = IF IsUpdate(w.frame) THEN @ ELSE @ - 1]

LEMMA HandledFrameOK ==
    ASSUME NEW w \in WorkerType, WorkerOK(w), w.pc = "handle", NEW events \in Seq(EventType),
           NEW v, v \in { HandledFrame(w), [HandledFrame(w) EXCEPT !.todo = events],
                          [HandledFrame(w) EXCEPT !.pc = "remove", !.cancelled = TRUE],
                          [HandledFrame(w) EXCEPT !.pc = "render", !.frame = w.frame] }
    PROVE  v \in WorkerType /\ WorkerOK(v)
<1>1. PICK h, o : /\ h = (IF IsUpdate(w.frame) THEN w.frame ELSE w.handled)
                  /\ o = (IF IsUpdate(w.frame) THEN w.owed ELSE w.owed - 1)
  OBVIOUS
<1>2. h \in FrameType /\ o \in Nat /\ NoFrame \in FrameType /\ w.todo = <<>>
  BY <1>1, OwedIsNat, NoFrameIsFrame DEF WorkerType, WorkerOK, StepsAgree
<1>3. {"take", "remove", "render"} \subseteq Steps
  BY DEF Steps
<1>4. PICK u : u = HandledFrame(w)
  OBVIOUS
<1>5. u = [w EXCEPT !.pc = "take", !.frame = NoFrame, !.handled = h, !.owed = o]
  BY <1>1, <1>4 DEF HandledFrame, WorkerType
<1>6. u \in WorkerType
  BY <1>2, <1>3, <1>5 DEF WorkerType
<1>7. /\ u.pc = "take" /\ u.handled = h /\ u.owed = o /\ u.todo = <<>>
      /\ u.hand = w.hand /\ u.slot = w.slot /\ u.latest = w.latest /\ u.shadowed = w.shadowed
  BY <1>2, <1>5 DEF WorkerType
<1>8. /\ v \in WorkerType /\ v.pc \in {"take", "remove", "render"} /\ (v.pc # "take" => v.todo = <<>>)
      /\ v.handled = h /\ v.owed = o
      /\ v.hand = w.hand /\ v.slot = w.slot /\ v.latest = w.latest /\ v.shadowed = w.shadowed
  <2>1. CASE v = u
    BY <2>1, <1>6, <1>7
  <2>2. CASE v = [u EXCEPT !.todo = events]
    BY <2>2, <1>6, <1>7 DEF WorkerType
  <2>3. CASE v = [u EXCEPT !.pc = "remove", !.cancelled = TRUE]
    BY <2>3, <1>3, <1>6, <1>7 DEF WorkerType
  <2>4. CASE v = [u EXCEPT !.pc = "render", !.frame = w.frame]
    BY <2>4, <1>3, <1>6, <1>7 DEF WorkerType
  <2> QED BY <1>4, <2>1, <2>2, <2>3, <2>4
<1> QED BY <1>1, <1>8, HandleKeeps

\* A pane that is closed leaves the table; its record is about to be removed.
LEMMA TableClosed ==
    ASSUME StreamTypeOK, TableOK, NEW s \in Subs, Others(s), current = s, s[2] = pane.gen, AfterTake(s),
           UNCHANGED <<pane, start, closed, stopper, seen>>,
           sub[s].pc = "handle", sub'[s].pc = "remove", sub'[s].cancelled
    PROVE  TableOK'
<1> USE SubsFacts
<1>1. current' = NoSub /\ Unsettled' = Unsettled
  BY DEF AfterTake, Unsettled, Active
<1>2. /\ \A t \in Subs : sub[t].pc = "off" => sub'[t].pc = "off"
      /\ \A t \in Subs : sub[t].pc = "installed" => sub'[t].pc = "installed"
  BY DEF Others
<1>3. StartsOnce'
  BY <1>2, StartsStay DEF TableOK
<1>4. InTable'
  BY <1>1 DEF TableOK, InTable, Live, Others
<1>5. SettledBeforeStop'
  BY <1>1 DEF TableOK, SettledBeforeStop
<1>6. CurrentUntilTold'
  BY <1>1 DEF TableOK, CurrentUntilTold, Live, Others
<1>7. WatchedOrStarting'
  BY DEF WatchedOrStarting
<1> QED BY <1>3, <1>4, <1>5, <1>6, <1>7 DEF TableOK

\* A step that changes the table and publishes nothing, for the whole invariant.
LEMMA TableChange ==
    ASSUME StreamInv, StreamTypeOK', WorkersOK', TableOK', UNCHANGED <<bus, watch>>, DueKept,
           \A t \in Subs : sub'[t].todo = sub[t].todo \/ sub[t].todo = <<>>
    PROVE  StreamInv'
<1>1. BusOK' /\ WaiterIsSubscribed'
  BY BusStays DEF StreamInv
<1>2. ASSUME NEW w \in pane'.due, watch[w] = "waiting", ~bus.chan[w].lost,
             ~\E i \in DOMAIN bus.chan[w].buf : bus.chan[w].buf[i].event = RawOutput(Marker)
      PROVE  \E t \in Subs : \E i \in DOMAIN sub'[t].todo : sub'[t].todo[i] = RawOutput(Marker)
  <2>1. w \in pane.due
    BY <1>2 DEF DueKept
  <2>2. PICK t \in Subs : \E i \in DOMAIN sub[t].todo : sub[t].todo[i] = RawOutput(Marker)
    BY <1>2, <2>1 DEF StreamInv, MarkerNotMissed
  <2>3. sub'[t].todo = sub[t].todo
    BY <2>2
  <2> QED BY <2>2, <2>3
<1>3. MarkerNotMissed'
  BY <1>2 DEF MarkerNotMissed, RawOutput
<1>4. DueIsShown'
  BY DEF StreamInv, DueIsShown, DueKept, HasMarker
<1> QED BY <1>1, <1>3, <1>4 DEF StreamInv

LEMMA HandleFrameInv ==
    ASSUME StreamInv, NEW s \in Subs, HandleFrame(s)
    PROVE  StreamInv'
<1>0. /\ sub \in [Subs -> WorkerType] /\ sub[s] \in WorkerType /\ WorkerOK(sub[s]) /\ TableOK /\ StreamTypeOK
      /\ pane \in PaneType /\ seen \in [Generations -> Told]
  BY Typed
<1> USE <1>0
<1>1. /\ sub[s].pc = "handle" /\ sub[s].todo = <<>>
      /\ UNCHANGED <<bus, pane, start, closed, stopper, watch>>
  BY DEF HandleFrame, WorkerOK, StepsAgree
<1>2. <<ErrorEvent>> \in Seq(EventType)
  BY EventsAreEvents
<1> DEFINE done == HandledFrame(sub[s])
<1>3. done \in [pc: {"take"}, cancelled: {sub[s].cancelled}, eof: Ends, hand: Channel, slot: Channel,
                frame: FrameType, todo: {<<>>}, latest: FrameType, handled: FrameType,
                shadowed: BOOLEAN, owed: Nat]
  <2>1. done \in WorkerType
    BY <1>1, <1>2, HandledFrameOK
  <2>2. done.pc = "take" /\ done.cancelled = sub[s].cancelled /\ done.todo = <<>>
    BY <1>1 DEF HandledFrame, WorkerType
  <2> HIDE DEF done
  <2> QED BY <2>1, <2>2 DEF WorkerType
<1>4. CASE sub' = [sub EXCEPT ![s] = done] /\ UNCHANGED <<current, rendered, seen>>
  <2>1. done \in WorkerType /\ WorkerOK(done)
    BY <1>1, <1>2, HandledFrameOK
  <2>2. sub' \in [Subs -> WorkerType] /\ sub'[s] = done /\ Others(s)
    BY <1>4, <2>1, ReplaceEffect
  <2> HIDE DEF done
  <2>3. sub'[s].pc = "take" /\ sub'[s].cancelled = sub[s].cancelled /\ WorkerOK(sub'[s])
    BY <1>3, <2>1, <2>2
  <2>4. TableOK'
    BY <1>1, <1>4, <2>2, <2>3, TableGoesOn
  <2> QED BY <1>1, <1>4, <2>2, <2>3, <2>4, WorkerStep DEF DueKept
<1>5. CASE /\ subscriptionIsCurrent(s) /\ TellError(s) /\ UNCHANGED <<current, rendered>>
           /\ sub' = [sub EXCEPT ![s] = [done EXCEPT !.todo = <<ErrorEvent>>]]
  <2>1. PICK v : v = [done EXCEPT !.todo = <<ErrorEvent>>]
    OBVIOUS
  <2>2. v \in WorkerType /\ WorkerOK(v)
    BY <1>1, <1>2, <2>1, HandledFrameOK
  <2>3. sub' \in [Subs -> WorkerType] /\ sub'[s] = v /\ Others(s)
    BY <1>5, <2>1, <2>2, ReplaceEffect
  <2> HIDE DEF done
  <2>4. sub'[s].pc = "take" /\ sub'[s].cancelled = sub[s].cancelled /\ WorkerOK(sub'[s])
    BY <1>3, <2>1, <2>2, <2>3
  <2>5. Unsettled' = Unsettled /\ (Unsettled => Active)
    BY <1>1 DEF Unsettled, Active
  <2>6. TableOK'
    BY <1>1, <1>5, <2>3, <2>4, <2>5, TellErrorFacts, TableStep
  <2> QED BY <1>1, <1>5, <2>3, <2>4, <2>6, TellErrorFacts, WorkerStep DEF DueKept
<1>6. CASE /\ subscriptionIsCurrent(s) /\ AfterTake(s) /\ UNCHANGED seen
           /\ sub' = [sub EXCEPT ![s] = [done EXCEPT !.pc = "remove", !.cancelled = TRUE]]
  <2>1. PICK v : v = [done EXCEPT !.pc = "remove", !.cancelled = TRUE]
    OBVIOUS
  <2>2. v \in WorkerType /\ WorkerOK(v)
    BY <1>1, <1>2, <2>1, HandledFrameOK
  <2>3. sub' \in [Subs -> WorkerType] /\ sub'[s] = v /\ Others(s)
    BY <1>6, <2>1, <2>2, ReplaceEffect
  <2> HIDE DEF done
  <2>4. sub'[s].pc = "remove" /\ sub'[s].cancelled /\ sub'[s].todo = <<>>
    BY <1>3, <2>1, <2>3
  <2>5. current = s /\ s[2] = pane.gen /\ current' = NoSub
    BY <1>6 DEF subscriptionIsCurrent, IsCurrentGeneration, AfterTake
  <2>6. TableOK'
    BY <1>1, <1>6, <2>3, <2>4, <2>5, TableClosed
  <2>7. WorkersOK'
    BY <2>2, <2>3, WorkersStep DEF StreamInv
  <2>8. StreamTypeOK'
    BY <1>1, <1>6, <2>3, <2>5 DEF StreamTypeOK
  <2>9. \A t \in Subs : sub'[t].todo = sub[t].todo \/ sub[t].todo = <<>>
    BY <1>1, <2>3 DEF Others
  <2> QED BY <1>1, <2>6, <2>7, <2>8, <2>9, TableChange DEF DueKept
<1>7. CASE /\ subscriptionIsCurrent(s) /\ UNCHANGED <<current, rendered, seen>>
           /\ sub' = [sub EXCEPT ![s] = [done EXCEPT !.pc = "render", !.frame = sub[s].frame]]
  <2>1. PICK v : v = [done EXCEPT !.pc = "render", !.frame = sub[s].frame]
    OBVIOUS
  <2>2. v \in WorkerType /\ WorkerOK(v)
    BY <1>1, <1>2, <2>1, HandledFrameOK
  <2>3. sub' \in [Subs -> WorkerType] /\ sub'[s] = v /\ Others(s)
    BY <1>7, <2>1, <2>2, ReplaceEffect
  <2> HIDE DEF done
  <2>4. sub'[s].pc = "render" /\ sub'[s].cancelled = sub[s].cancelled /\ WorkerOK(sub'[s]) /\ sub'[s].todo = <<>>
    BY <1>3, <2>1, <2>2, <2>3
  <2>5. TableOK'
    BY <1>1, <1>7, <2>3, <2>4, TableGoesOn
  <2> QED BY <1>1, <1>7, <2>3, <2>4, <2>5, WorkerStep DEF DueKept
<1> QED BY <1>4, <1>5, <1>6, <1>7 DEF HandleFrame, HandledFrame

LEMMA RenderInv ==
    ASSUME StreamInv, NEW s \in Subs, Render(s)
    PROVE  StreamInv'
<1>0. /\ sub \in [Subs -> WorkerType] /\ sub[s] \in WorkerType /\ WorkerOK(sub[s]) /\ TableOK /\ StreamTypeOK
      /\ pane \in PaneType /\ seen \in [Generations -> Told]
  BY Typed
<1> USE <1>0
<1>1. /\ sub[s].pc = "render" /\ sub[s].todo = <<>>
      /\ UNCHANGED <<bus, pane, start, current, closed, stopper, seen, watch>>
  BY DEF Render, WorkerOK, StepsAgree
<1>2. CASE sub' = [sub EXCEPT ![s].pc = "take", ![s].frame = NoFrame]
  <2>1. sub' \in [Subs -> WorkerType] /\ Others(s) /\ sub'[s] = [sub[s] EXCEPT !.pc = "take", !.frame = NoFrame]
    BY <1>2, SkipEffect
  <2>2. WorkerOK(sub'[s]) /\ sub'[s].pc = "take" /\ sub'[s].cancelled = sub[s].cancelled
    BY <1>1, <2>1, StepKeeps DEF WorkerType
  <2>3. TableOK'
    BY <1>1, <2>1, <2>2, TableGoesOn
  <2> QED BY <1>1, <2>1, <2>2, <2>3, WorkerStep DEF DueKept
<1>3. CASE sub' = Goto(s, "apply")
  <2>1. sub' \in [Subs -> WorkerType] /\ Others(s) /\ sub'[s] = [sub[s] EXCEPT !.pc = "apply"]
    BY <1>3, GotoEffect DEF Goto, Steps
  <2>2. WorkerOK(sub'[s]) /\ sub'[s].pc = "apply" /\ sub'[s].cancelled = sub[s].cancelled
    BY <1>1, <2>1, StepKeeps DEF WorkerType
  <2>3. TableOK'
    BY <1>1, <2>1, <2>2, TableGoesOn
  <2> QED BY <1>1, <2>1, <2>2, <2>3, WorkerStep DEF DueKept
<1> QED BY <1>2, <1>3 DEF Render

LEMMA OwedToWatchers ==
    ASSUME StreamTypeOK
    PROVE  Looked \in SUBSET Watchers /\ \A text : Owed(text) \in SUBSET Watchers
BY DEF StreamTypeOK, PaneType, Looked, Owed

LEMMA ApplyInv ==
    ASSUME StreamInv, NEW s \in Subs, Apply(s)
    PROVE  StreamInv'
<1>0. /\ sub \in [Subs -> WorkerType] /\ sub[s] \in WorkerType /\ WorkerOK(sub[s]) /\ TableOK /\ StreamTypeOK
      /\ pane \in PaneType /\ seen \in [Generations -> Told]
      /\ s[2] \in Generations
  BY Typed
<1> USE <1>0
<1>1. /\ sub[s].pc = "apply" /\ sub[s].todo = <<>>
      /\ UNCHANGED <<bus, start, current, closed, stopper, watch>>
  BY DEF Apply, WorkerOK, StepsAgree
<1>2. CASE sub' = [sub EXCEPT ![s].pc = "take", ![s].frame = NoFrame] /\ UNCHANGED <<pane, seen>>
  <2>1. sub' \in [Subs -> WorkerType] /\ Others(s) /\ sub'[s] = [sub[s] EXCEPT !.pc = "take", !.frame = NoFrame]
    BY <1>2, SkipEffect
  <2>2. WorkerOK(sub'[s]) /\ sub'[s].pc = "take" /\ sub'[s].cancelled = sub[s].cancelled
    BY <1>1, <2>1, StepKeeps DEF WorkerType
  <2>3. TableOK'
    BY <1>1, <1>2, <2>1, <2>2, TableGoesOn
  <2> QED BY <1>1, <1>2, <2>1, <2>2, <2>3, WorkerStep DEF DueKept
<1>3. ASSUME NEW text, text = sub[s].frame.text, IsCurrentGeneration(s), Active,
             pane' = [pane EXCEPT !.out = text, !.due = Owed(text)], seen' = [seen EXCEPT ![s[2]] = "output"],
             NEW events, events = <<RawOutput(text)>> \o SemanticEventsFromText(text),
             sub' = [Publishing(s, "take", events) EXCEPT ![s].frame = NoFrame]
      PROVE  StreamInv'
  <2>1. text \in Texts
    BY <1>3 DEF WorkerType, FrameType
  <2>2. events \in Seq(EventType) /\ events # <<>> /\ events[1] = RawOutput(text)
    BY <1>3, <2>1, OutputFirst
  <2>3. /\ sub' \in [Subs -> WorkerType] /\ Others(s)
        /\ sub'[s] = [sub[s] EXCEPT !.pc = "take", !.todo = events, !.frame = NoFrame]
    <3>1. sub' = [sub EXCEPT ![s] = [sub[s] EXCEPT !.pc = "take", !.todo = events, !.frame = NoFrame]]
      BY <1>3 DEF Publishing, WorkerType
    <3>2. [sub[s] EXCEPT !.pc = "take", !.todo = events, !.frame = NoFrame] \in WorkerType
      BY <2>2, NoFrameIsFrame DEF WorkerType, Steps
    <3> QED BY <3>1, <3>2, ReplaceEffect
  <2>4. WorkerOK(sub'[s]) /\ sub'[s].pc = "take" /\ sub'[s].cancelled = sub[s].cancelled /\ sub'[s].todo = events
    BY <1>1, <2>3, StepKeeps DEF WorkerType
  <2>5. pane' \in PaneType /\ pane'.gen = pane.gen /\ pane'.st = pane.st /\ pane'.out = text
        /\ pane'.settled = pane.settled /\ pane'.due = Owed(text)
    BY <1>3, <2>1, OwedToWatchers DEF PaneType
  <2>6. Unsettled' = Unsettled /\ s[2] = pane.gen
    BY <1>3, <2>5 DEF Unsettled, Active, IsCurrentGeneration
  <2>7. seen' \in [Generations -> Told]
    BY <1>3 DEF Told
  <2>8. Unsettled => closed \/ current = s
    BY <1>1, <1>3, <2>6 DEF TableOK, CurrentUntilTold, Live
  <2>9. TableOK'
    BY <1>1, <2>3, <2>4, <2>5, <2>6, <2>8, TableStep
  <2>10. 1 \in DOMAIN sub'[s].todo /\ sub'[s].todo[1] = RawOutput(text)
    BY <2>2, <2>4
  <2>11. DueKept \/ (HasMarker(pane'.out) /\ text = Marker)
    BY <2>5 DEF DueKept, Owed, Looked, HasMarker
  <2> QED BY <1>1, <2>3, <2>4, <2>5, <2>7, <2>9, <2>10, <2>11, WorkerStep
<1> QED BY <1>2, <1>3 DEF Apply

LEMMA RemoveClosedInv ==
    ASSUME StreamInv, NEW s \in Subs, RemoveClosed(s)
    PROVE  StreamInv'
<1>0. /\ sub \in [Subs -> WorkerType] /\ sub[s] \in WorkerType /\ WorkerOK(sub[s]) /\ TableOK /\ StreamTypeOK
      /\ pane \in PaneType /\ seen \in [Generations -> Told]
      /\ s[2] \in Generations
  BY Typed
<1> USE <1>0
<1>1. /\ sub[s].pc = "remove" /\ sub[s].todo = <<>>
      /\ UNCHANGED <<bus, start, current, closed, stopper, watch>>
  BY DEF RemoveClosed, WorkerOK, StepsAgree
<1>2. ASSUME IsCurrentGeneration(s), pane' = [pane EXCEPT !.st = "absent", !.out = Blank, !.due = Looked],
             seen' = [seen EXCEPT ![s[2]] = "closed"],
             NEW events \in Seq(EventType), sub' = Publishing(s, "take", events)
      PROVE  StreamInv'
  <2>2. sub' \in [Subs -> WorkerType] /\ Others(s) /\ sub'[s] = [sub[s] EXCEPT !.pc = "take", !.todo = events]
    <3>1. sub' = [sub EXCEPT ![s] = [sub[s] EXCEPT !.pc = "take", !.todo = events]]
      BY <1>2 DEF Publishing, WorkerType
    <3>2. "take" \in Steps
      BY DEF Steps
    <3>3. [sub[s] EXCEPT !.pc = "take", !.todo = events] \in WorkerType
      BY <1>2, <3>2 DEF WorkerType
    <3> QED BY <3>1, <3>3, ReplaceEffect
  <2>3. WorkerOK(sub'[s]) /\ sub'[s].pc = "take" /\ sub'[s].cancelled = sub[s].cancelled
    BY <1>1, <2>2, StepKeeps DEF WorkerType
  <2>4. pane' \in PaneType /\ pane'.gen = pane.gen /\ pane'.st = "absent" /\ pane'.out = Blank
        /\ pane'.settled = pane.settled /\ pane'.due = Looked
    BY <1>2, OwedToWatchers, StreamAssumption DEF PaneType
  <2>5. ~Unsettled' /\ DueKept
    BY <2>4 DEF Unsettled, Active, DueKept, Looked
  <2>6. seen' \in [Generations -> Told]
    BY <1>2 DEF Told
  <2>7. TableOK'
    BY <1>1, <2>2, <2>3, <2>4, <2>5, TableStep
  <2> QED BY <1>1, <2>2, <2>3, <2>4, <2>5, <2>6, <2>7, WorkerStep
<1>3. CASE ~IsCurrentGeneration(s) /\ sub' = Goto(s, "take") /\ UNCHANGED <<pane, seen>>
  <2>1. sub' \in [Subs -> WorkerType] /\ Others(s) /\ sub'[s] = [sub[s] EXCEPT !.pc = "take"]
    BY <1>3, GotoEffect DEF Goto, Steps
  <2>2. WorkerOK(sub'[s]) /\ sub'[s].pc = "take" /\ sub'[s].cancelled = sub[s].cancelled
    BY <1>1, <2>1, StepKeeps DEF WorkerType
  <2>3. ~(Unsettled /\ s[2] = pane.gen)
    BY <1>3 DEF IsCurrentGeneration, Exists, Unsettled, Active
  <2>4. TableOK'
    BY <1>1, <1>3, <2>1, <2>2, <2>3, TableGoesOn
  <2> QED BY <1>1, <1>3, <2>1, <2>2, <2>4, WorkerStep DEF DueKept
<1>4. <<ClosedEvent>> \in Seq(EventType)
  BY EventsAreEvents
<1> QED BY <1>2, <1>3, <1>4 DEF RemoveClosed

LEMMA DrainedInv ==
    ASSUME StreamInv, NEW s \in Subs, NEW waitFails \in BOOLEAN, Drained(s, waitFails)
    PROVE  StreamInv'
<1>0. /\ sub \in [Subs -> WorkerType] /\ sub[s] \in WorkerType /\ WorkerOK(sub[s]) /\ TableOK /\ StreamTypeOK
      /\ pane \in PaneType /\ seen \in [Generations -> Told]
  BY Typed
<1> USE <1>0
<1>1. /\ sub[s].pc = "drained" /\ sub[s].todo = <<>>
      /\ UNCHANGED <<bus, pane, start, current, closed, stopper, watch>>
      /\ sub[s].hand = <<>> /\ sub[s].slot = <<>> /\ sub[s].eof # "open"
  BY DEF Drained, Quiet, WorkerOK, StepsAgree
<1>2. ASSUME subscriptionIsCurrent(s), TellError(s), NEW events \in Seq(EventType), sub' = Publishing(s, "exited", events)
      PROVE  StreamInv'
  <2>1. sub' \in [Subs -> WorkerType] /\ Others(s) /\ sub'[s] = [sub[s] EXCEPT !.pc = "exited", !.todo = events]
    <3>1. sub' = [sub EXCEPT ![s] = [sub[s] EXCEPT !.pc = "exited", !.todo = events]]
      BY <1>2 DEF Publishing, WorkerType
    <3>2. "exited" \in Steps
      BY DEF Steps
    <3>3. [sub[s] EXCEPT !.pc = "exited", !.todo = events] \in WorkerType
      BY <1>2, <3>2 DEF WorkerType
    <3> QED BY <3>1, <3>3, ReplaceEffect
  <2>2. WorkerOK(sub'[s]) /\ sub'[s].pc = "exited" /\ sub'[s].cancelled = sub[s].cancelled
    BY <1>1, <2>1, StepKeeps DEF WorkerType
  <2>3. Unsettled' = Unsettled /\ (Unsettled => Active)
    BY <1>1 DEF Unsettled, Active
  <2>4. TableOK'
    BY <1>1, <1>2, <2>1, <2>2, <2>3, TellErrorFacts, TableStep DEF subscriptionIsCurrent
  <2> QED BY <1>1, <1>2, <2>1, <2>2, <2>4, TellErrorFacts, WorkerStep DEF DueKept
<1>3. CASE ~subscriptionIsCurrent(s) /\ sub' = Goto(s, "exited") /\ UNCHANGED seen
  <2>1. sub' \in [Subs -> WorkerType] /\ Others(s) /\ sub'[s] = [sub[s] EXCEPT !.pc = "exited"]
    BY <1>3, GotoEffect DEF Goto, Steps
  <2>2. WorkerOK(sub'[s]) /\ sub'[s].pc = "exited" /\ sub'[s].cancelled = sub[s].cancelled
    BY <1>1, <2>1, StepKeeps DEF WorkerType
  <2>3. TableOK'
    BY <1>1, <1>3, <2>1, <2>2, NotCurrent, TableGoesOn DEF Unsettled
  <2> QED BY <1>1, <1>3, <2>1, <2>2, <2>3, WorkerStep DEF DueKept
<1>4. <<ErrorEvent>> \in Seq(EventType) /\ <<ErrorEvent, ErrorEvent>> \in Seq(EventType)
  BY EventsAreEvents
<1> QED BY <1>2, <1>3, <1>4 DEF Drained

LEMMA ExitedInv ==
    ASSUME StreamInv, NEW s \in Subs, Exited(s)
    PROVE  StreamInv'
<1>0. /\ sub \in [Subs -> WorkerType] /\ sub[s] \in WorkerType /\ WorkerOK(sub[s]) /\ TableOK /\ StreamTypeOK
      /\ pane \in PaneType /\ seen \in [Generations -> Told]
  BY Typed
<1> USE <1>0
<1>1. /\ sub[s].pc = "exited" /\ sub[s].todo = <<>>
      /\ UNCHANGED <<bus, pane, start, current, closed, stopper, seen, watch>>
  BY DEF Exited, Quiet
<1>2. ASSUME sub' \in [Subs -> WorkerType], Others(s), WorkerOK(sub'[s]), sub'[s].pc = "leave",
             sub'[s].cancelled = sub[s].cancelled
      PROVE  StreamInv'
  <2>1. TableOK'
    BY <1>1, <1>2, TableGoesOn
  <2> QED BY <1>1, <1>2, <2>1, WorkerStep DEF DueKept
<1>3. ASSUME NEW events \in Seq(EventType), sub' = Publishing(s, "leave", events)
      PROVE  StreamInv'
  <2>1. sub' \in [Subs -> WorkerType] /\ Others(s) /\ sub'[s] = [sub[s] EXCEPT !.pc = "leave", !.todo = events]
    <3>1. sub' = [sub EXCEPT ![s] = [sub[s] EXCEPT !.pc = "leave", !.todo = events]]
      BY <1>3 DEF Publishing, WorkerType
    <3>2. "leave" \in Steps
      BY DEF Steps
    <3>3. [sub[s] EXCEPT !.pc = "leave", !.todo = events] \in WorkerType
      BY <1>3, <3>2 DEF WorkerType
    <3> QED BY <3>1, <3>3, ReplaceEffect
  <2> QED BY <1>1, <1>2, <2>1, StepKeeps DEF WorkerType
<1>4. CASE sub' = Goto(s, "leave")
  <2>1. sub' \in [Subs -> WorkerType] /\ Others(s) /\ sub'[s] = [sub[s] EXCEPT !.pc = "leave"]
    BY <1>4, GotoEffect DEF Goto, Steps
  <2> QED BY <1>1, <1>2, <2>1, StepKeeps DEF WorkerType
<1>5. <<HealthEvent>> \in Seq(EventType)
  BY EventsAreEvents
<1> QED BY <1>3, <1>4, <1>5 DEF Exited

-----------------------------------------------------------------------------
(* The reader.                                                             *)

LEMMA ReadLineInv ==
    ASSUME StreamInv, NEW s \in Subs, NEW line \in Lines, ReadLine(s, line)
    PROVE  StreamInv'
<1>0. /\ sub \in [Subs -> WorkerType] /\ sub[s] \in WorkerType /\ WorkerOK(sub[s]) /\ TableOK /\ StreamTypeOK
      /\ pane \in PaneType /\ seen \in [Generations -> Told]
  BY Typed
<1> USE <1>0
<1>1. PICK f \in FrameType : f = ParseSubscribeNDJSONLine(line)
  BY ParsedIsFrame
<1>2. /\ sub[s].pc \notin {"off", "installed", "launch", "leave", "done"} /\ sub[s].eof = "open" /\ sub[s].hand = <<>>
      /\ UNCHANGED <<bus, pane, start, current, closed, stopper, seen, watch>>
  BY DEF ReadLine, Reading, Running
<1>3. CASE sub' = sub
  BY <1>2, <1>3, TableStays, TableChange DEF StreamInv, StreamTypeOK, WorkersOK, DueKept
<1>4. CASE sub' = [sub EXCEPT ![s].hand = <<f>>,
                              ![s].latest = IF IsUpdate(f) THEN f ELSE NoFrame,
                              ![s].owed = IF IsUpdate(f) THEN @ ELSE @ + 1]
  <2>1. PICK l, o, h : /\ l = (IF IsUpdate(f) THEN f ELSE NoFrame) /\ h = <<f>>
                       /\ o = (IF IsUpdate(f) THEN sub[s].owed ELSE sub[s].owed + 1)
    OBVIOUS
  <2>2. l \in FrameType /\ o \in Nat /\ h \in Channel
    BY <2>1, NoFrameIsFrame DEF WorkerType, Channel
  <2>3. PICK v : v = [sub[s] EXCEPT !.hand = h, !.latest = l, !.owed = o]
    OBVIOUS
  <2>4. v \in WorkerType
    BY <2>2, <2>3 DEF WorkerType
  <2>5. sub' = [sub EXCEPT ![s] = v]
    BY <1>4, <2>1, <2>3 DEF WorkerType
  <2>6. sub' \in [Subs -> WorkerType] /\ sub'[s] = v /\ Others(s)
    BY <2>4, <2>5, ReplaceEffect
  <2>7. WorkerOK(v)
    BY <1>2, <2>1, <2>3, <2>4, ReadKeeps DEF WorkerType
  <2>8. v.pc = sub[s].pc /\ v.cancelled = sub[s].cancelled /\ v.todo = sub[s].todo
    BY <2>3 DEF WorkerType
  <2>9. TableOK'
    BY <1>2, <2>6, <2>8, TableGoesOn
  <2> QED BY <1>2, <2>6, <2>7, <2>8, <2>9, WorkerStep DEF DueKept
<1> QED BY <1>1, <1>3, <1>4 DEF ReadLine

LEMMA StreamEndsInv ==
    ASSUME StreamInv, NEW s \in Subs, NEW how \in {"clean", "error"}, StreamEnds(s, how)
    PROVE  StreamInv'
<1>0. /\ sub \in [Subs -> WorkerType] /\ sub[s] \in WorkerType /\ WorkerOK(sub[s]) /\ TableOK /\ StreamTypeOK
      /\ pane \in PaneType /\ seen \in [Generations -> Told]
  BY Typed
<1> USE <1>0
<1>1. /\ sub[s].pc \notin {"off", "installed", "launch", "leave", "done"} /\ sub[s].eof = "open" /\ sub[s].hand = <<>>
      /\ UNCHANGED <<bus, pane, start, current, closed, stopper, seen, watch>>
      /\ sub' = [sub EXCEPT ![s].eof = how] /\ how \in Ends
  BY DEF StreamEnds, Reading, Running, Ends
<1>2. sub' \in [Subs -> WorkerType] /\ sub'[s] = [sub[s] EXCEPT !.eof = how] /\ Others(s)
  BY <1>1 DEF WorkerType, Others
<1>3. WorkerOK(sub'[s]) /\ sub'[s].pc = sub[s].pc /\ sub'[s].cancelled = sub[s].cancelled /\ sub'[s].todo = sub[s].todo
  <2>1. PICK v : v = sub'[s]
    OBVIOUS
  <2>2. /\ v \in WorkerType /\ v.pc = sub[s].pc /\ v.cancelled = sub[s].cancelled /\ v.todo = sub[s].todo
        /\ v.frame = sub[s].frame /\ v.hand = sub[s].hand /\ v.slot = sub[s].slot /\ v.latest = sub[s].latest
        /\ v.handled = sub[s].handled /\ v.shadowed = sub[s].shadowed /\ v.owed = sub[s].owed
    BY <1>2, <2>1 DEF WorkerType
  <2>3. /\ v.pc \notin {"drained", "exited"}
        /\ v.pc \in {"installed", "handle", "render", "apply", "remove", "done"} => v.todo = <<>>
    BY <1>1, <2>2 DEF WorkerOK, StepsAgree
  <2>4. WorkerOK(v)
    BY <1>1, <2>2, <2>3, StepKeeps
  <2> QED BY <2>1, <2>2, <2>4
<1>4. TableOK'
  BY <1>1, <1>2, <1>3, TableGoesOn
<1> QED BY <1>1, <1>2, <1>3, <1>4, WorkerStep DEF DueKept

LEMMA OfferInv ==
    ASSUME StreamInv, NEW s \in Subs, Offer(s)
    PROVE  StreamInv'
<1>0. /\ sub \in [Subs -> WorkerType] /\ sub[s] \in WorkerType /\ WorkerOK(sub[s]) /\ TableOK /\ StreamTypeOK
      /\ pane \in PaneType /\ seen \in [Generations -> Told]
  BY Typed
<1> USE <1>0
<1>1. /\ sub[s].hand # <<>> /\ UNCHANGED <<bus, pane, start, current, closed, stopper, seen, watch>>
  BY DEF Offer
<1>2. PICK f \in FrameType : sub[s].hand = <<f>> /\ sub[s].hand[1] = f
  BY <1>1 DEF WorkerType, Channel
<1>3. ASSUME NEW v \in WorkerType, WorkerOK(v), sub' = [sub EXCEPT ![s] = v],
             v.pc = sub[s].pc, v.cancelled = sub[s].cancelled, v.todo = sub[s].todo
      PROVE  StreamInv'
  <2>1. sub' \in [Subs -> WorkerType] /\ sub'[s] = v /\ Others(s)
    BY <1>3, ReplaceEffect
  <2>2. TableOK'
    <3>1. CASE sub[s].pc \in {"off", "installed", "done"}
      <4>1. /\ \A t \in Subs : sub'[t].pc = sub[t].pc /\ sub'[t].cancelled = sub[t].cancelled
            /\ Unsettled' = Unsettled
        BY <1>1, <1>3, <2>1 DEF Others, Unsettled, Active
      <4>2. StartsOnce'
        BY <1>1, <4>1, StartsStay DEF TableOK
      <4> QED BY <1>1, <4>1, <4>2 DEF TableOK, InTable, SettledBeforeStop, CurrentUntilTold, WatchedOrStarting, Live
    <3>2. CASE sub[s].pc \notin {"off", "installed", "done"}
      BY <1>1, <1>3, <2>1, <3>2, TableGoesOn
    <3> QED BY <3>1, <3>2
  <2> QED BY <1>1, <1>3, <2>1, <2>2, WorkerStep DEF DueKept
<1>4. CASE /\ \A i \in DOMAIN sub[s].slot : IsUpdate(sub[s].slot[i])
           /\ sub' = [sub EXCEPT ![s].slot = <<sub[s].hand[1]>>, ![s].hand = <<>>]
  <2>1. PICK h : h = <<sub[s].hand[1]>>
    OBVIOUS
  <2>2. h \in Channel /\ <<>> \in Channel
    BY <1>2, <2>1 DEF Channel
  <2>3. PICK v : v = [sub[s] EXCEPT !.slot = h, !.hand = <<>>]
    OBVIOUS
  <2>4. v \in WorkerType
    BY <2>2, <2>3 DEF WorkerType
  <2>5. sub' = [sub EXCEPT ![s] = v]
    BY <1>4, <2>1, <2>3 DEF WorkerType
  <2>6. WorkerOK(v)
    BY <1>1, <1>4, <2>1, <2>3, <2>4, OfferKeeps
  <2> QED BY <1>3, <2>3, <2>4, <2>5, <2>6 DEF WorkerType
<1>5. CASE IsUpdate(sub[s].hand[1]) /\ sub' = [sub EXCEPT ![s].hand = <<>>, ![s].shadowed = TRUE]
  <2>1. PICK v : v = [sub[s] EXCEPT !.hand = <<>>, !.shadowed = TRUE]
    OBVIOUS
  <2>2. v \in WorkerType
    BY <2>1 DEF WorkerType, Channel
  <2>3. sub' = [sub EXCEPT ![s] = v]
    BY <1>5, <2>1 DEF WorkerType
  <2>4. WorkerOK(v)
    BY <1>1, <1>5, <2>1, <2>2, GiveUpKeeps
  <2> QED BY <1>3, <2>1, <2>2, <2>3, <2>4 DEF WorkerType
<1> QED BY <1>4, <1>5 DEF Offer

-----------------------------------------------------------------------------
(* The steps that change the table.                                        *)

\* A worker ends, and takes its own entry out of the table.
LEMMA TableEnds ==
    ASSUME StreamTypeOK, TableOK, NEW s \in Subs, Others(s), AfterTake(s),
           UNCHANGED <<pane, closed, stopper, seen>>, StartsOnce',
           sub[s].pc # "remove", sub'[s].pc = "done",
           \A g \in Generations : start[g].pc \in {"get", "install"} => start'[g] = start[g],
           Unsettled /\ ~closed /\ current = s /\ s[2] = pane.gen => seen[pane.gen] \in Reported
    PROVE  TableOK'
<1> USE SubsFacts
<1>1. current' = (IF current = s THEN NoSub ELSE current) /\ Unsettled' = Unsettled
  BY DEF AfterTake, Unsettled, Active
<1>2. InTable'
  BY <1>1 DEF TableOK, InTable, Live, Others
<1>3. SettledBeforeStop'
  BY <1>1 DEF TableOK, SettledBeforeStop
<1>4. CurrentUntilTold'
  BY <1>1 DEF TableOK, CurrentUntilTold, Live, Others
<1>5. WatchedOrStarting'
  BY <1>1 DEF TableOK, WatchedOrStarting, Others
<1> QED BY <1>2, <1>3, <1>4, <1>5 DEF TableOK

LEMMA LeaveInv ==
    ASSUME StreamInv, NEW s \in Subs, Leave(s)
    PROVE  StreamInv'
<1>0. /\ sub \in [Subs -> WorkerType] /\ sub[s] \in WorkerType /\ TableOK /\ StreamTypeOK
      /\ pane \in PaneType /\ seen \in [Generations -> Told]
  BY Typed
<1>1. /\ sub[s].pc = "leave" /\ sub[s].todo = <<>> /\ sub' = [sub EXCEPT ![s] = Ended] /\ AfterTake(s)
      /\ UNCHANGED <<bus, pane, start, closed, stopper, seen, watch>>
  BY DEF Leave, Quiet
<1>2. sub' \in [Subs -> WorkerType] /\ sub'[s] = Ended /\ Others(s)
  BY <1>0, <1>1, NewWorkerOK, ReplaceEffect
<1>3. sub'[s].pc = "done" /\ WorkerOK(sub'[s])
  BY <1>2, NewWorkerOK
<1>4. StartsOnce'
  BY <1>0, <1>1, <1>2, StartsStay DEF TableOK, Others
<1>5. Unsettled /\ ~closed /\ current = s /\ s[2] = pane.gen => seen[pane.gen] \in Reported
  BY <1>0, <1>1 DEF TableOK, CurrentUntilTold
<1>6. TableOK'
  BY <1>0, <1>1, <1>2, <1>3, <1>4, <1>5, TableEnds
<1>7. WorkersOK'
  BY <1>2, <1>3, WorkersStep DEF StreamInv
<1>8. StreamTypeOK'
  BY <1>0, <1>1, <1>2 DEF StreamTypeOK, AfterTake
<1>9. \A t \in Subs : sub'[t].todo = sub[t].todo \/ sub[t].todo = <<>>
  BY <1>1, <1>2 DEF Others
<1> QED BY <1>1, <1>6, <1>7, <1>8, <1>9, TableChange DEF DueKept

LEMMA RegisterPaneInv ==
    ASSUME StreamInv, RegisterPane
    PROVE  StreamInv'
<1>0. /\ TableOK /\ StreamTypeOK /\ WorkersOK /\ pane \in PaneType /\ start \in [Generations -> StartType]
      /\ pane.gen \in 0 .. MaxGeneration /\ MaxGeneration \in Nat
  BY StreamAssumption DEF StreamInv, StreamTypeOK, PaneType
<1>1. PICK n : n = pane.gen + 1
  OBVIOUS
<1>2. /\ pane.st = "absent" /\ n \in Generations /\ n - 1 = pane.gen /\ n # 0
      /\ pane' = [gen |-> n, st |-> "starting", out |-> Blank, settled |-> FALSE, due |-> Looked]
      /\ start' = [start EXCEPT ![n].pc = "get"]
      /\ UNCHANGED <<bus, sub, current, closed, stopper, seen, watch>>
  BY <1>0, <1>1 DEF RegisterPane, Generations
<1>3. pane'.gen = n /\ pane'.st = "starting" /\ pane'.due = Looked /\ pane' \in PaneType
  <2>1. n \in 0 .. MaxGeneration
    BY <1>0, <1>2 DEF Generations
  <2> QED BY <1>0, <1>2, <2>1, OwedToWatchers, StreamAssumption DEF PaneType
<1>4. /\ start' \in [Generations -> StartType] /\ start'[n].pc = "get"
      /\ \A g \in Generations \ {n} : start'[g] = start[g]
  BY <1>0, <1>2 DEF StartType
<1>5. StreamTypeOK'
  BY <1>0, <1>2, <1>3, <1>4 DEF StreamTypeOK
<1>6. pane.gen < n /\ n \in Nat /\ pane.gen \in Nat
  BY <1>0, <1>1
<1>7. StartsOnce'
  <2> SUFFICES ASSUME NEW g \in Generations
               PROVE  /\ start'[g].pc # "idle" => g <= n
                      /\ start'[g].pc \in {"install", "check"} => g <= start'[g].got /\ start'[g].got <= n
                      /\ \A m \in Generations : g <= m /\ sub[<<g, m>>].pc # "off" =>
                            /\ start'[g].pc # "idle" /\ m <= n
                            /\ start'[g].pc = "get" => m < n
                            /\ start'[g].pc = "install" => m < start'[g].got
                            /\ start'[g].pc = "check" => m <= start'[g].got
                      /\ start'[g].pc = "check" => sub[<<g, start'[g].got>>].pc = "installed"
    BY <1>2, <1>3 DEF StartsOnce
  <2>1. /\ start[g].pc # "idle" => g <= pane.gen
        /\ start[g].pc \in {"install", "check"} => g <= start[g].got /\ start[g].got <= pane.gen
        /\ \A m \in Generations : g <= m /\ sub[<<g, m>>].pc # "off" =>
              /\ start[g].pc # "idle" /\ m <= pane.gen
              /\ start[g].pc = "get" => m < pane.gen
              /\ start[g].pc = "install" => m < start[g].got
              /\ start[g].pc = "check" => m <= start[g].got
        /\ start[g].pc = "check" => sub[<<g, start[g].got>>].pc = "installed"
    BY <1>0 DEF TableOK, StartsOnce
  <2>2. g \in Nat /\ \A m \in Generations : m \in Nat
    BY SubsFacts
  <2>3. start[g].got \in Nat
    BY <1>0 DEF StartType
  <2>4. CASE g = n
    BY <1>4, <1>6, <2>1, <2>2, <2>4
  <2>5. CASE g # n
    <3>1. start'[g] = start[g]
      BY <1>4, <2>5
    <3>2. \A m \in Nat : m <= pane.gen => m <= n /\ m < n
      BY <1>6
    <3> QED BY <2>1, <2>2, <2>3, <3>1, <3>2
  <2> QED BY <2>4, <2>5
<1>8. InTable'
  BY <1>0, <1>2 DEF TableOK, InTable, Live
<1>9. SettledBeforeStop'
  <2>1. stopper <= pane.gen /\ stopper \in Nat
    BY <1>0 DEF TableOK, SettledBeforeStop, StreamTypeOK
  <2>2. stopper' <= n /\ stopper' # n
    BY <1>2, <1>6, <2>1
  <2> QED BY <1>2, <1>3, <2>2 DEF SettledBeforeStop
<1>10. \A s \in Subs : Live(s) => s[2] # n
  <2> SUFFICES ASSUME NEW s \in Subs, sub[s].pc # "off" PROVE s[2] # n
    BY DEF Live
  <2>1. s[1] \in Generations /\ s[2] \in Generations /\ s[1] <= s[2] /\ s = <<s[1], s[2]>> /\ s[2] \in Nat
    BY SubsFacts
  <2>2. s[2] <= pane.gen
    BY <1>0, <2>1 DEF TableOK, StartsOnce
  <2> QED BY <1>6, <2>1, <2>2
<1>11. CurrentUntilTold'
  <2>1. \A s \in Subs : current = s => Live(s)
    BY <1>0 DEF TableOK, InTable
  <2> QED BY <1>2, <1>3, <1>10, <2>1 DEF CurrentUntilTold, Live
<1>12. WatchedOrStarting'
  BY <1>2, <1>4 DEF WatchedOrStarting
<1>13. TableOK'
  BY <1>7, <1>8, <1>9, <1>11, <1>12 DEF TableOK
<1>14. WorkersOK'
  BY <1>0, <1>2 DEF WorkersOK
<1>15. DueKept
  BY <1>3 DEF DueKept, Looked
<1> QED BY <1>2, <1>5, <1>13, <1>14, <1>15, TableChange

LEMMA SettlePaneInv ==
    ASSUME StreamInv, NEW st \in {"closed", "absent"}, SettlePane(st)
    PROVE  StreamInv'
<1>0. TableOK /\ StreamTypeOK /\ WorkersOK /\ pane \in PaneType /\ pane.gen \in 0 .. MaxGeneration
  BY DEF StreamInv, StreamTypeOK, PaneType
<1>1. /\ pane' = IF st = "absent" THEN [pane EXCEPT !.st = st, !.settled = TRUE, !.out = Blank, !.due = Looked]
                                 ELSE [pane EXCEPT !.st = st, !.settled = TRUE]
      /\ stopper' = pane.gen /\ (Active \/ pane.st = "closed")
      /\ UNCHANGED <<bus, start, sub, current, closed, seen, watch>>
  BY DEF SettlePane
<1>2. /\ pane' \in PaneType /\ pane'.gen = pane.gen /\ pane'.st = st /\ pane'.settled
      /\ pane'.due = Looked \/ (pane'.due = pane.due /\ pane'.out = pane.out)
  BY <1>0, <1>1, OwedToWatchers, StreamAssumption DEF PaneType
<1>3. ~Unsettled' /\ pane.st # "absent"
  BY <1>1, <1>2 DEF Unsettled, Active
<1>4. StreamTypeOK'
  BY <1>0, <1>1, <1>2 DEF StreamTypeOK
<1>5. StartsOnce'
  BY <1>0, <1>1, <1>2, StartsStay DEF TableOK
<1>6. InTable'
  BY <1>0, <1>1 DEF TableOK, InTable, Live
<1>7. SettledBeforeStop'
  <2>1. pane.gen # 0 /\ stopper' <= pane'.gen
    BY <1>0, <1>1, <1>2, <1>3 DEF TableOK, SettledBeforeStop
  <2> QED BY <1>2, <1>3, <2>1 DEF SettledBeforeStop
<1>8. CurrentUntilTold' /\ WatchedOrStarting'
  BY <1>3 DEF CurrentUntilTold, WatchedOrStarting
<1>9. TableOK'
  BY <1>5, <1>6, <1>7, <1>8 DEF TableOK
<1>10. WorkersOK'
  BY <1>0, <1>1 DEF WorkersOK
<1>11. DueKept
  BY <1>2 DEF DueKept, Looked
<1> QED BY <1>1, <1>4, <1>9, <1>10, <1>11, TableChange

\* A live worker that is cancelled is otherwise left alone.
LEMMA CancelKeeps ==
    ASSUME NEW w \in WorkerType, WorkerOK(w), w.pc # "off", NEW v, v = [w EXCEPT !.cancelled = TRUE]
    PROVE  v \in WorkerType /\ WorkerOK(v) /\ v.pc = w.pc /\ v.todo = w.todo /\ v.cancelled
<1>1. /\ v \in WorkerType /\ v.pc = w.pc /\ v.cancelled = TRUE /\ v.todo = w.todo /\ v.eof = w.eof
      /\ v.frame = w.frame /\ v.hand = w.hand /\ v.slot = w.slot /\ v.latest = w.latest
      /\ v.handled = w.handled /\ v.shadowed = w.shadowed /\ v.owed = w.owed
  BY DEF WorkerType
<1>2. /\ v.pc \in {"drained", "exited"} => w.hand = <<>> /\ w.slot = <<>> /\ v.eof # "open"
      /\ v.pc \in {"installed", "handle", "render", "apply", "remove", "done"} => v.todo = <<>>
  BY <1>1 DEF WorkerOK, StepsAgree
<1>3. WorkerOK(v)
  BY <1>1, <1>2, StepKeeps
<1> QED BY <1>1, <1>3

LEMMA InstalledEffect ==
    ASSUME NEW f \in [Subs -> WorkerType], NEW s \in Subs, NEW g, g = [f EXCEPT ![s].pc = "installed"]
    PROVE  g \in [Subs -> WorkerType] /\ g[s] = [f[s] EXCEPT !.pc = "installed"] /\ \A t \in Subs \ {s} : g[t] = f[t]
<1>1. "installed" \in Steps
  BY DEF Steps
<1> QED BY <1>1 DEF WorkerType

LEMMA CancelledEffect ==
    ASSUME NEW f \in [Subs -> WorkerType], NEW s \in Subs, NEW g, g = [f EXCEPT ![s].cancelled = TRUE]
    PROVE  g \in [Subs -> WorkerType] /\ g[s] = [f[s] EXCEPT !.cancelled = TRUE] /\ \A t \in Subs \ {s} : g[t] = f[t]
BY DEF WorkerType

LEMMA CancelEffect ==
    ASSUME sub \in [Subs -> WorkerType], WorkersOK, NEW c \in Subs, Live(c), sub' = Taken(sub, c)
    PROVE  /\ sub' \in [Subs -> WorkerType] /\ Others(c) /\ WorkersOK'
           /\ sub'[c].cancelled /\ \A t \in Subs : sub'[t].pc = sub[t].pc /\ sub'[t].todo = sub[t].todo
<1>1. /\ sub' \in [Subs -> WorkerType] /\ Others(c) /\ sub'[c] = [sub[c] EXCEPT !.cancelled = TRUE]
  BY DEF Taken, WorkerType, Others
<1>2. WorkerOK(sub[c]) /\ sub[c] \in WorkerType /\ sub[c].pc # "off"
  BY DEF WorkersOK, Live
<1>3. WorkerOK(sub'[c]) /\ sub'[c].pc = sub[c].pc /\ sub'[c].todo = sub[c].todo /\ sub'[c].cancelled
  BY <1>1, <1>2, CancelKeeps
<1>4. WorkersOK'
  BY <1>1, <1>3, WorkersStep
<1> QED BY <1>1, <1>3, <1>4 DEF Others

LEMMA StopPaneGenerationInv ==
    ASSUME StreamInv, StopPaneGeneration
    PROVE  StreamInv'
<1>0. /\ TableOK /\ StreamTypeOK /\ WorkersOK /\ sub \in [Subs -> WorkerType] /\ current \in Subs \union {NoSub}
      /\ pane.gen \in Nat
  BY StreamAssumption DEF StreamInv, StreamTypeOK, PaneType
<1>1. /\ stopper # 0 /\ stopper' = 0 /\ UNCHANGED <<bus, pane, start, closed, seen, watch>> /\ Unsettled' = Unsettled
      /\ DueKept
  BY DEF StopPaneGeneration, Unsettled, Active, DueKept
<1>2. 0 \in 0 .. MaxGeneration /\ SettledBeforeStop'
  BY <1>0, <1>1, StreamAssumption DEF TableOK, SettledBeforeStop
<1>3. CASE UNCHANGED <<sub, current>>
  <2>1. StreamTypeOK' /\ WorkersOK'
    BY <1>0, <1>1, <1>2, <1>3 DEF StreamTypeOK, WorkersOK
  <2>2. StartsOnce'
    BY <1>0, <1>1, <1>3, StartsStay DEF TableOK
  <2>3. InTable' /\ CurrentUntilTold' /\ WatchedOrStarting'
    BY <1>0, <1>1, <1>3 DEF TableOK, InTable, CurrentUntilTold, WatchedOrStarting, Live
  <2>4. TableOK'
    BY <1>2, <2>2, <2>3 DEF TableOK
  <2> QED BY <1>1, <1>3, <2>1, <2>4, TableChange
<1>4. CASE current # NoSub /\ current[2] = stopper /\ sub' = Taken(sub, current) /\ AfterTake(current)
  <2>1. PICK c \in Subs : c = current
    BY <1>0, <1>4
  <2>2. current' = NoSub /\ NoSub \notin Subs
    BY <1>4, SubsFacts DEF AfterTake
  <2>3. Live(c)
    BY <1>0, <2>1 DEF TableOK, InTable
  <2>4. /\ sub' \in [Subs -> WorkerType] /\ Others(c) /\ WorkersOK'
        /\ sub'[c].cancelled /\ \A t \in Subs : sub'[t].pc = sub[t].pc /\ sub'[t].todo = sub[t].todo
    BY <1>0, <1>4, <2>1, <2>3, CancelEffect
  <2>5. Unsettled => c[2] # pane.gen
    BY <1>0, <1>1, <1>4, <2>1 DEF TableOK, SettledBeforeStop, Unsettled
  <2>6. StreamTypeOK'
    BY <1>0, <1>1, <1>2, <2>2, <2>4 DEF StreamTypeOK
  <2>7. StartsOnce'
    BY <1>0, <1>1, <2>4, StartsStay DEF TableOK
  <2>8. InTable'
    BY <1>0, <2>1, <2>2, <2>4 DEF TableOK, InTable, Live, Others
  <2>9. CurrentUntilTold'
    BY <1>0, <1>1, <2>1, <2>2, <2>4, <2>5 DEF TableOK, CurrentUntilTold, Live
  <2>10. WatchedOrStarting'
    BY <1>0, <1>1, <2>1, <2>4, <2>5 DEF TableOK, WatchedOrStarting
  <2>11. TableOK'
    BY <1>2, <2>7, <2>8, <2>9, <2>10 DEF TableOK
  <2> QED BY <1>1, <2>4, <2>6, <2>11, TableChange
<1> QED BY <1>3, <1>4 DEF StopPaneGeneration

LEMMA CloseManagerInv ==
    ASSUME StreamInv, CloseManager
    PROVE  StreamInv'
<1>0. TableOK /\ StreamTypeOK /\ WorkersOK /\ sub \in [Subs -> WorkerType] /\ current \in Subs \union {NoSub}
  BY DEF StreamInv, StreamTypeOK
<1>1. /\ closed' /\ current' = NoSub /\ UNCHANGED <<bus, pane, start, stopper, seen, watch>> /\ Unsettled' = Unsettled
      /\ DueKept
      /\ sub' = IF current = NoSub THEN sub ELSE Taken(sub, current)
  BY DEF CloseManager, Unsettled, Active, DueKept
<1>2. /\ sub' \in [Subs -> WorkerType] /\ WorkersOK'
      /\ \A t \in Subs : sub'[t].pc = sub[t].pc /\ sub'[t].todo = sub[t].todo
      /\ \A t \in Subs : IF t = current THEN sub'[t].cancelled ELSE sub'[t] = sub[t]
  <2>1. CASE current = NoSub
    BY <1>0, <1>1, <2>1, SubsFacts DEF WorkersOK
  <2>2. CASE current # NoSub
    <3>1. PICK c \in Subs : c = current
      BY <1>0, <2>2
    <3>2. Live(c) /\ sub' = Taken(sub, c)
      BY <1>0, <1>1, <2>2, <3>1 DEF TableOK, InTable
    <3> QED BY <1>0, <3>1, <3>2, CancelEffect DEF Others
  <2> QED BY <2>1, <2>2
<1>3. StreamTypeOK'
  BY <1>0, <1>1, <1>2 DEF StreamTypeOK
<1>4. StartsOnce'
  BY <1>0, <1>1, <1>2, StartsStay DEF TableOK
<1>5. InTable'
  BY <1>0, <1>1, <1>2, SubsFacts DEF TableOK, InTable, Live
<1>6. SettledBeforeStop'
  BY <1>0, <1>1 DEF TableOK, SettledBeforeStop
<1>7. CurrentUntilTold' /\ WatchedOrStarting'
  BY <1>1 DEF CurrentUntilTold, WatchedOrStarting
<1>8. TableOK'
  BY <1>4, <1>5, <1>6, <1>7 DEF TableOK
<1> QED BY <1>1, <1>2, <1>3, <1>8, TableChange

LEMMA StartGetInv ==
    ASSUME StreamInv, NEW g \in Generations, StartGet(g)
    PROVE  StreamInv'
<1>0. /\ TableOK /\ StreamTypeOK /\ WorkersOK /\ start \in [Generations -> StartType]
      /\ pane.gen \in 0 .. MaxGeneration /\ pane.gen \in Nat
  BY StreamAssumption DEF StreamInv, StreamTypeOK, PaneType
<1>1. /\ start[g].pc = "get" /\ UNCHANGED <<bus, pane, sub, current, closed, stopper, seen, watch>> /\ Unsettled' = Unsettled
      /\ DueKept
      /\ start' = [start EXCEPT ![g] = IF Exists THEN [pc |-> "install", got |-> pane.gen]
                                                 ELSE [pc |-> "done", got |-> 0]]
  BY DEF StartGet, Unsettled, Active, DueKept
<1>2. PICK r : r = (IF Exists THEN [pc |-> "install", got |-> pane.gen] ELSE [pc |-> "done", got |-> 0]) /\ r \in StartType
  <2>1. 0 \in 0 .. MaxGeneration
    BY StreamAssumption
  <2>2. [pc |-> "install", got |-> pane.gen] \in StartType /\ [pc |-> "done", got |-> 0] \in StartType
    BY <1>0, <2>1 DEF StartType
  <2> QED BY <2>2
<1>3. /\ start' \in [Generations -> StartType] /\ start'[g] = r /\ \A h \in Generations \ {g} : start'[h] = start[h]
  BY <1>0, <1>1, <1>2
<1>4. /\ r.pc \in {"install", "done"} /\ (r.pc = "install" => r.got = pane.gen) /\ (Exists => r.pc = "install")
  BY <1>2
<1>5. StreamTypeOK' /\ WorkersOK'
  BY <1>0, <1>1, <1>3 DEF StreamTypeOK, WorkersOK
<1>6. StartsOnce'
  <2> SUFFICES ASSUME NEW h \in Generations
               PROVE  /\ start'[h].pc # "idle" => h <= pane.gen
                      /\ start'[h].pc \in {"install", "check"} => h <= start'[h].got /\ start'[h].got <= pane.gen
                      /\ \A m \in Generations : h <= m /\ sub[<<h, m>>].pc # "off" =>
                            /\ start'[h].pc # "idle" /\ m <= pane.gen
                            /\ start'[h].pc = "get" => m < pane.gen
                            /\ start'[h].pc = "install" => m < start'[h].got
                            /\ start'[h].pc = "check" => m <= start'[h].got
                      /\ start'[h].pc = "check" => sub[<<h, start'[h].got>>].pc = "installed"
    BY <1>1 DEF StartsOnce
  <2>1. /\ start[h].pc # "idle" => h <= pane.gen
        /\ start[h].pc \in {"install", "check"} => h <= start[h].got /\ start[h].got <= pane.gen
        /\ \A m \in Generations : h <= m /\ sub[<<h, m>>].pc # "off" =>
              /\ start[h].pc # "idle" /\ m <= pane.gen
              /\ start[h].pc = "get" => m < pane.gen
              /\ start[h].pc = "install" => m < start[h].got
              /\ start[h].pc = "check" => m <= start[h].got
        /\ start[h].pc = "check" => sub[<<h, start[h].got>>].pc = "installed"
    BY <1>0 DEF TableOK, StartsOnce
  <2>2. CASE h = g
    BY <1>0, <1>1, <1>3, <1>4, <2>1, <2>2
  <2>3. CASE h # g
    <3>1. start'[h] = start[h]
      BY <1>3, <2>3
    <3> QED BY <2>1, <3>1
  <2> QED BY <2>2, <2>3
<1>7. InTable' /\ SettledBeforeStop' /\ CurrentUntilTold'
  BY <1>0, <1>1 DEF TableOK, InTable, SettledBeforeStop, CurrentUntilTold, Live
<1>8. WatchedOrStarting'
  <2>1. Unsettled => start'[g].pc = "install" /\ start'[g].got = pane.gen
    BY <1>3, <1>4 DEF Unsettled, Active, Exists
  <2> QED BY <1>1, <2>1 DEF WatchedOrStarting
<1>9. TableOK'
  BY <1>6, <1>7, <1>8 DEF TableOK
<1> QED BY <1>1, <1>5, <1>9, TableChange

\* A start moves on, and no other start does.
LEMMA StartMoves ==
    ASSUME StreamTypeOK, NEW g \in Generations, NEW pc \in {"get", "check", "done"},
           start' = [start EXCEPT ![g].pc = pc]
    PROVE  /\ start' \in [Generations -> StartType] /\ start'[g].pc = pc /\ start'[g].got = start[g].got
           /\ \A h \in Generations \ {g} : start'[h] = start[h]
BY DEF StreamTypeOK, StartType

\* The starts, when start g has moved to pc and only subscriptions of g were touched.
LEMMA StartsMove ==
    ASSUME StreamTypeOK, StartsOnce, NEW g \in Generations, start[g].pc \in {"install", "check"},
           pane' = pane, \A h \in Generations \ {g} : start'[h] = start[h],
           start'[g].pc \in {"get", "check", "done"}, start'[g].got = start[g].got,
           \A t \in Subs : t # <<g, start[g].got>> => sub'[t].pc = sub[t].pc,
           start'[g].pc = "get" => start[g].got < pane.gen \/ sub'[<<g, start[g].got>>].pc = "off",
           start'[g].pc = "check" => sub'[<<g, start[g].got>>].pc = "installed"
    PROVE  StartsOnce'
<1>0. start[g].got \in Generations /\ <<g, start[g].got>> \in Subs /\ start[g].got <= pane.gen
      /\ pane.gen \in Nat /\ start[g].got \in Nat
  BY StartNames, SubsFacts, StreamAssumption DEF StreamTypeOK, PaneType
<1> SUFFICES ASSUME NEW h \in Generations
             PROVE  /\ start'[h].pc # "idle" => h <= pane.gen
                    /\ start'[h].pc \in {"install", "check"} => h <= start'[h].got /\ start'[h].got <= pane.gen
                    /\ \A m \in Generations : h <= m /\ sub'[<<h, m>>].pc # "off" =>
                          /\ start'[h].pc # "idle" /\ m <= pane.gen
                          /\ start'[h].pc = "get" => m < pane.gen
                          /\ start'[h].pc = "install" => m < start'[h].got
                          /\ start'[h].pc = "check" => m <= start'[h].got
                    /\ start'[h].pc = "check" => sub'[<<h, start'[h].got>>].pc = "installed"
  BY DEF StartsOnce
<1>1. /\ start[h].pc # "idle" => h <= pane.gen
      /\ start[h].pc \in {"install", "check"} => h <= start[h].got /\ start[h].got <= pane.gen
      /\ \A m \in Generations : h <= m /\ sub[<<h, m>>].pc # "off" =>
            /\ start[h].pc # "idle" /\ m <= pane.gen
            /\ start[h].pc = "get" => m < pane.gen
            /\ start[h].pc = "install" => m < start[h].got
            /\ start[h].pc = "check" => m <= start[h].got
      /\ start[h].pc = "check" => sub[<<h, start[h].got>>].pc = "installed"
  BY DEF StartsOnce
<1>2. CASE h # g
  <2>1. start'[h] = start[h]
    BY <1>2
  <2>2. \A m \in Generations : h <= m => sub'[<<h, m>>].pc = sub[<<h, m>>].pc
    BY <1>2, SubsFacts
  <2>3. start[h].pc = "check" => start[h].got \in Generations /\ h <= start[h].got
    BY StartNames, <1>1
  <2> QED BY <1>1, <2>1, <2>2, <2>3
<1>3. CASE h = g
  <2>1. g <= pane.gen /\ g <= start[g].got
    BY <1>1, <1>3
  <2>2. ASSUME NEW m \in Generations, g <= m, sub'[<<g, m>>].pc # "off"
        PROVE  m <= start[g].got /\ m <= pane.gen /\ (start'[g].pc = "get" => m < pane.gen)
    <3>1. m \in Nat /\ <<g, m>> \in Subs
      BY <2>2, SubsFacts
    <3>2. CASE m = start[g].got
      BY <1>0, <2>2, <3>2
    <3>3. CASE m # start[g].got
      <4>1. sub[<<g, m>>].pc # "off"
        BY <2>2, <3>1, <3>3
      <4>2. m <= pane.gen /\ m <= start[g].got
        BY <1>0, <1>1, <1>3, <2>2, <3>1, <4>1
      <4> QED BY <1>0, <3>1, <3>3, <4>2
    <3> QED BY <3>2, <3>3
  <2> QED BY <1>0, <1>3, <2>1, <2>2
<1> QED BY <1>2, <1>3

LEMMA StartInstallInv ==
    ASSUME StreamInv, NEW g \in Generations, StartInstall(g)
    PROVE  StreamInv'
<1>0. /\ TableOK /\ StreamTypeOK /\ WorkersOK /\ StartsOnce /\ sub \in [Subs -> WorkerType]
      /\ current \in Subs \union {NoSub}
  BY DEF StreamInv, StreamTypeOK, TableOK
<1>1. /\ start[g].pc = "install" /\ UNCHANGED <<bus, pane, closed, stopper, seen, watch>> /\ Unsettled' = Unsettled
      /\ DueKept
  BY DEF StartInstall, Unsettled, Active, DueKept
<1>2. PICK gen \in Generations : gen = start[g].got /\ <<g, gen>> \in Subs /\ gen <= pane.gen
  BY <1>0, <1>1, StartNames
<1>3. gen \in Nat /\ pane.gen \in Nat /\ g \in Nat /\ g <= gen
  BY <1>0, <1>1, <1>2, SubsFacts, StreamAssumption DEF StreamTypeOK, PaneType, StartsOnce
<1>4. PICK s \in Subs : s = <<g, gen>> /\ s[1] = g /\ s[2] = gen
  BY <1>2
<1>5. sub[s].pc = "off" /\ sub[s] = NewWorker
  <2>1. sub[s].pc = "off"
    BY <1>0, <1>1, <1>2, <1>3, <1>4 DEF StartsOnce
  <2> QED BY <1>0, <2>1 DEF WorkersOK, WorkerOK, StepsAgree
<1>6. CASE /\ closed \/ (current # NoSub /\ current[2] = gen)
           /\ start' = [start EXCEPT ![g].pc = "done"] /\ UNCHANGED <<sub, current>>
  <2>1. /\ start' \in [Generations -> StartType] /\ start'[g].pc = "done" /\ start'[g].got = start[g].got
        /\ \A h \in Generations \ {g} : start'[h] = start[h]
    BY <1>0, <1>6, StartMoves
  <2>2. StartsOnce'
    BY <1>0, <1>1, <1>6, <2>1, StartsMove
  <2>3. StreamTypeOK' /\ WorkersOK'
    BY <1>0, <1>1, <1>6, <2>1 DEF StreamTypeOK, WorkersOK
  <2>4. InTable' /\ SettledBeforeStop' /\ CurrentUntilTold'
    BY <1>0, <1>1, <1>6 DEF TableOK, InTable, SettledBeforeStop, CurrentUntilTold, Live
  <2>5. WatchedOrStarting'
    BY <1>0, <1>1, <1>2, <1>6, <2>1 DEF TableOK, WatchedOrStarting
  <2>6. TableOK'
    BY <2>2, <2>4, <2>5 DEF TableOK
  <2> QED BY <1>1, <1>6, <2>3, <2>6, TableChange
<1>7. CASE start' = [start EXCEPT ![g].pc = "get"] /\ UNCHANGED <<sub, current>>
  <2>1. /\ start' \in [Generations -> StartType] /\ start'[g].pc = "get" /\ start'[g].got = start[g].got
        /\ \A h \in Generations \ {g} : start'[h] = start[h]
    BY <1>0, <1>7, StartMoves
  <2>2. sub'[<<g, start[g].got>>].pc = "off"
    BY <1>2, <1>4, <1>5, <1>7
  <2>3. StartsOnce'
    BY <1>0, <1>1, <1>7, <2>1, <2>2, StartsMove
  <2>4. StreamTypeOK' /\ WorkersOK'
    BY <1>0, <1>1, <1>7, <2>1 DEF StreamTypeOK, WorkersOK
  <2>5. InTable' /\ SettledBeforeStop' /\ CurrentUntilTold'
    BY <1>0, <1>1, <1>7 DEF TableOK, InTable, SettledBeforeStop, CurrentUntilTold, Live
  <2>6. WatchedOrStarting'
    BY <2>1 DEF WatchedOrStarting
  <2>7. TableOK'
    BY <2>3, <2>5, <2>6 DEF TableOK
  <2> QED BY <1>1, <1>7, <2>4, <2>7, TableChange
<1>8. CASE /\ current = NoSub \/ current[2] < gen
           /\ start' = [start EXCEPT ![g].pc = "check"] /\ current' = s
           /\ sub' = IF current = NoSub THEN [sub EXCEPT ![s].pc = "installed"]
                     ELSE Taken([sub EXCEPT ![s].pc = "installed"], current)
  <2>1. /\ start' \in [Generations -> StartType] /\ start'[g].pc = "check" /\ start'[g].got = start[g].got
        /\ \A h \in Generations \ {g} : start'[h] = start[h]
    BY <1>0, <1>8, StartMoves
  <2>2. current # s
    BY <1>0, <1>3, <1>4, <1>8, SubsFacts
  <2>3. /\ sub' \in [Subs -> WorkerType] /\ WorkersOK'
        /\ sub'[s].pc = "installed" /\ ~sub'[s].cancelled /\ sub'[s].todo = <<>>
        /\ \A t \in Subs : t # s => sub'[t].pc = sub[t].pc /\ sub'[t].todo = sub[t].todo
        /\ \A t \in Subs : t # s => IF t = current THEN sub'[t].cancelled ELSE sub'[t] = sub[t]
    <3>1. PICK f : f = [sub EXCEPT ![s].pc = "installed"]
      OBVIOUS
    <3>2. /\ f \in [Subs -> WorkerType] /\ f[s] = [sub[s] EXCEPT !.pc = "installed"]
          /\ \A t \in Subs \ {s} : f[t] = sub[t]
      BY <1>0, <3>1, InstalledEffect
    <3>3. WorkerOK(f[s]) /\ f[s].pc = "installed" /\ ~f[s].cancelled /\ f[s].todo = <<>>
      <4>1. f[s] \in WorkerType /\ NewWorker \in WorkerType /\ WorkerOK(NewWorker) /\ f[s] = [NewWorker EXCEPT !.pc = "installed"]
        BY <1>5, <3>2, NewWorkerOK
      <4> QED BY <4>1, StepKeeps DEF NewWorker
    <3>4. CASE current = NoSub
      BY <1>0, <1>8, <3>1, <3>2, <3>3, <3>4, SubsFacts DEF WorkersOK
    <3>5. CASE current # NoSub
      <4>1. PICK c \in Subs : c = current /\ c # s
        BY <1>0, <2>2, <3>5
      <4>2. sub[c] \in WorkerType /\ WorkerOK(sub[c]) /\ sub[c].pc # "off" /\ f[c] = sub[c]
        BY <1>0, <3>2, <4>1 DEF TableOK, InTable, Live, WorkersOK
      <4>3. sub' = [f EXCEPT ![c].cancelled = TRUE]
        BY <1>8, <3>1, <3>5, <4>1 DEF Taken
      <4>4. /\ sub' \in [Subs -> WorkerType] /\ sub'[c] = [f[c] EXCEPT !.cancelled = TRUE]
            /\ \A t \in Subs \ {c} : sub'[t] = f[t]
        <5>1. \A h : h = [f EXCEPT ![c].cancelled = TRUE] =>
                 /\ h \in [Subs -> WorkerType] /\ h[c] = [f[c] EXCEPT !.cancelled = TRUE]
                 /\ \A t \in Subs \ {c} : h[t] = f[t]
          BY <3>2, <4>1, CancelledEffect
        <5> QED BY <4>3, <5>1, Zenon
      <4>5. WorkerOK(sub'[c]) /\ sub'[c].pc = sub[c].pc /\ sub'[c].todo = sub[c].todo /\ sub'[c].cancelled
        BY <4>2, <4>4, CancelKeeps
      <4>6. sub'[s] = f[s] /\ \A t \in Subs : t # s /\ t # c => sub'[t] = sub[t]
        BY <3>2, <4>1, <4>4
      <4>7. \A t \in Subs : WorkerOK(sub'[t])
        BY <1>0, <3>3, <4>5, <4>6 DEF WorkersOK
      <4>8. WorkersOK'
        BY <4>7 DEF WorkersOK
      <4> QED BY <3>3, <4>1, <4>4, <4>5, <4>6, <4>8
    <3> QED BY <3>4, <3>5
  <2>4. StartsOnce'
    BY <1>0, <1>1, <1>2, <1>4, <2>1, <2>3, StartsMove
  <2>5. StreamTypeOK'
    BY <1>0, <1>1, <1>4, <1>8, <2>1, <2>3 DEF StreamTypeOK
  <2>6. InTable'
    BY <1>0, <1>8, <2>2, <2>3 DEF TableOK, InTable, Live
  <2>7. SettledBeforeStop'
    BY <1>0, <1>1 DEF TableOK, SettledBeforeStop
  <2>8. current = NoSub \/ current[2] # pane.gen
    BY <1>0, <1>2, <1>3, <1>8, SubsFacts
  <2>9. CurrentUntilTold'
    <3> SUFFICES ASSUME Unsettled, ~closed, NEW t \in Subs, t[2] = pane.gen
                 PROVE  /\ sub'[t].pc \notin {"off", "done"} => s = t \/ sub'[t].pc = "remove"
                        /\ s = t /\ sub'[t].pc \in {"exited", "leave"} => seen[pane.gen] \in Reported
      BY <1>1, <1>8 DEF CurrentUntilTold, Live
    <3>1. t # s => (Live(t) => sub[t].pc = "remove")
      BY <1>0, <2>8, SubsFacts DEF TableOK, CurrentUntilTold
    <3> QED BY <2>3, <3>1 DEF Live
  <2>10. WatchedOrStarting'
    <3> SUFFICES ASSUME Unsettled, ~closed
                 PROVE  \/ s # NoSub /\ s[2] = pane.gen
                        \/ seen[pane.gen] \in Reported
                        \/ \E t \in Subs : t[2] = pane.gen /\ sub'[t].pc = "remove"
                        \/ \E h \in Generations : start'[h].pc = "get"
                        \/ \E h \in Generations : start'[h].pc = "install" /\ start'[h].got = pane.gen
      BY <1>1, <1>8 DEF WatchedOrStarting
    <3>1. \/ seen[pane.gen] \in Reported
          \/ \E t \in Subs : t[2] = pane.gen /\ sub[t].pc = "remove"
          \/ \E h \in Generations : start[h].pc = "get"
          \/ \E h \in Generations : start[h].pc = "install" /\ start[h].got = pane.gen
      BY <1>0, <2>8 DEF TableOK, WatchedOrStarting
    <3>2. CASE gen = pane.gen
      BY <1>4, <3>2, SubsFacts
    <3>3. CASE gen # pane.gen
      <4>1. \A h \in Generations : (start[h].pc = "get" \/ (start[h].pc = "install" /\ start[h].got = pane.gen))
                                   => start'[h] = start[h]
        BY <1>1, <1>2, <2>1, <3>3
      <4>2. \A t \in Subs : sub[t].pc = "remove" => sub'[t].pc = "remove"
        BY <1>5, <2>3
      <4> QED BY <3>1, <4>1, <4>2
    <3> QED BY <3>2, <3>3
  <2>11. TableOK'
    BY <2>4, <2>6, <2>7, <2>9, <2>10 DEF TableOK
  <2>12. \A t \in Subs : sub'[t].todo = sub[t].todo \/ sub[t].todo = <<>>
    BY <1>5, <2>3 DEF NewWorker
  <2> QED BY <1>1, <2>3, <2>5, <2>11, <2>12, TableChange
<1> QED BY <1>2, <1>4, <1>6, <1>7, <1>8 DEF StartInstall

LEMMA StartCheckInv ==
    ASSUME StreamInv, NEW g \in Generations, StartCheck(g)
    PROVE  StreamInv'
<1>0. TableOK /\ StreamTypeOK /\ WorkersOK /\ StartsOnce /\ sub \in [Subs -> WorkerType]
  BY DEF StreamInv, StreamTypeOK, TableOK
<1>1. /\ start[g].pc = "check" /\ UNCHANGED <<bus, pane, closed, stopper, seen, watch>> /\ Unsettled' = Unsettled
      /\ DueKept
  BY DEF StartCheck, Unsettled, Active, DueKept
<1>2. PICK gen \in Generations : gen = start[g].got /\ <<g, gen>> \in Subs /\ gen <= pane.gen
  BY <1>0, <1>1, StartNames
<1>3. gen \in Nat /\ pane.gen \in Nat
  BY <1>0, <1>2, SubsFacts, StreamAssumption DEF StreamTypeOK, PaneType
<1>4. PICK s \in Subs : s = <<g, gen>> /\ s[2] = gen
  BY <1>2
<1>5. sub[s].pc = "installed" /\ sub[s].todo = <<>> /\ sub[s] \in WorkerType /\ WorkerOK(sub[s])
  <2>1. sub[s].pc = "installed"
    BY <1>0, <1>1, <1>2, <1>4 DEF StartsOnce
  <2> QED BY <1>0, <2>1 DEF WorkersOK, WorkerOK, StepsAgree
<1>6. CASE /\ IsCurrentGeneration(s)
           /\ start' = [start EXCEPT ![g].pc = "done"] /\ sub' = [sub EXCEPT ![s].pc = "launch"]
           /\ UNCHANGED <<current, rendered>>
  <2>1. /\ start' \in [Generations -> StartType] /\ start'[g].pc = "done" /\ start'[g].got = start[g].got
        /\ \A h \in Generations \ {g} : start'[h] = start[h]
    BY <1>0, <1>6, StartMoves
  <2>2. sub' \in [Subs -> WorkerType] /\ Others(s) /\ sub'[s] = [sub[s] EXCEPT !.pc = "launch"]
    BY <1>0, <1>6, GotoEffect DEF Steps
  <2>3. WorkerOK(sub'[s]) /\ sub'[s].pc = "launch" /\ sub'[s].cancelled = sub[s].cancelled /\ sub'[s].todo = sub[s].todo
    BY <1>5, <2>2, StepKeeps DEF WorkerType
  <2>4. StartsOnce'
    BY <1>0, <1>1, <1>2, <1>4, <2>1, <2>2, StartsMove DEF Others
  <2>5. InTable'
    BY <1>0, <1>5, <1>6, <2>2, <2>3 DEF TableOK, InTable, Live, Others
  <2>6. SettledBeforeStop'
    BY <1>0, <1>1 DEF TableOK, SettledBeforeStop
  <2>7. CurrentUntilTold'
    BY <1>0, <1>1, <1>5, <1>6, <2>2, <2>3 DEF TableOK, CurrentUntilTold, Live, Others
  <2>8. WatchedOrStarting'
    <3>1. \A h \in Generations : start[h].pc \in {"get", "install"} => start'[h] = start[h]
      BY <1>1, <2>1
    <3>2. \A t \in Subs : sub[t].pc = "remove" => sub'[t].pc = "remove"
      BY <1>5, <2>2 DEF Others
    <3> QED BY <1>0, <1>1, <1>6, <3>1, <3>2 DEF TableOK, WatchedOrStarting
  <2>9. TableOK'
    BY <2>4, <2>5, <2>6, <2>7, <2>8 DEF TableOK
  <2>10. WorkersOK'
    BY <1>0, <2>2, <2>3, WorkersStep
  <2>11. StreamTypeOK'
    BY <1>0, <1>1, <1>6, <2>1, <2>2 DEF StreamTypeOK
  <2> QED BY <1>1, <2>2, <2>3, <2>9, <2>10, <2>11, TableChange DEF Others
<1>7. CASE /\ ~IsCurrentGeneration(s)
           /\ start' = [start EXCEPT ![g].pc = IF Exists THEN "get" ELSE "done"]
           /\ sub' = [sub EXCEPT ![s] = Ended] /\ AfterTake(s)
  <2>1. PICK pc \in {"get", "done"} : pc = IF Exists THEN "get" ELSE "done"
    OBVIOUS
  <2>2. /\ start' \in [Generations -> StartType] /\ start'[g].pc = pc /\ start'[g].got = start[g].got
        /\ \A h \in Generations \ {g} : start'[h] = start[h]
    BY <1>0, <1>7, <2>1, StartMoves
  <2>3. sub' \in [Subs -> WorkerType] /\ sub'[s] = Ended /\ Others(s)
    BY <1>0, <1>7, NewWorkerOK, ReplaceEffect
  <2>4. sub'[s].pc = "done" /\ WorkerOK(sub'[s])
    BY <2>3, NewWorkerOK
  <2>5. pc = "get" => gen < pane.gen
    BY <1>2, <1>3, <1>4, <1>7, <2>1 DEF IsCurrentGeneration
  <2>6. StartsOnce'
    BY <1>0, <1>1, <1>2, <1>4, <2>2, <2>3, <2>5, StartsMove DEF Others
  <2>7. ~(Unsettled /\ s[2] = pane.gen)
    BY <1>7 DEF IsCurrentGeneration, Exists, Unsettled, Active
  <2>8. \A h \in Generations : start[h].pc \in {"get", "install"} => start'[h] = start[h]
    BY <1>1, <2>2
  <2>9. TableOK'
    BY <1>0, <1>1, <1>5, <1>7, <2>3, <2>4, <2>6, <2>7, <2>8, TableEnds
  <2>10. WorkersOK'
    BY <1>0, <2>3, <2>4, WorkersStep
  <2>11. StreamTypeOK'
    BY <1>0, <1>1, <1>7, <2>2, <2>3 DEF StreamTypeOK, AfterTake
  <2>12. \A t \in Subs : sub'[t].todo = sub[t].todo \/ sub[t].todo = <<>>
    BY <1>5, <2>3 DEF Others
  <2> QED BY <1>1, <2>9, <2>10, <2>11, <2>12, TableChange
<1> QED BY <1>2, <1>4, <1>6, <1>7 DEF StartCheck

-----------------------------------------------------------------------------
(* The bus.                                                                *)

\* A sequence of items, lengthened by one.
LEMMA Appended ==
    ASSUME NEW s \in Seq(ItemType), NEW item \in ItemType, NEW a, a = Append(s, item)
    PROVE  /\ a \in Seq(ItemType) /\ Len(s) \in Nat /\ Len(a) = Len(s) + 1 /\ a # <<>>
           /\ \A i \in 1 .. Len(s) : a[i] = s[i]
           /\ a[Len(s) + 1] = item
<1>1. Len(s) \in Nat
  OBVIOUS
<1>2. a \in Seq(ItemType)
  OBVIOUS
<1>3. Len(a) = Len(s) + 1
  OBVIOUS
<1>4. a # <<>>
  BY <1>1, <1>3
<1>5. \A i \in 1 .. Len(s) : a[i] = s[i]
  OBVIOUS
<1>6. a[Len(s) + 1] = item
  OBVIOUS
<1> QED BY <1>1, <1>2, <1>3, <1>4, <1>5, <1>6

LEMMA NumbersAreNat ==
    ASSUME NEW s \in Seq(ItemType)
    PROVE  Len(s) \in Nat /\ DOMAIN s = 1 .. Len(s) /\ \A i \in 1 .. Len(s) : s[i] \in ItemType /\ s[i].n \in Nat
<1>1. Len(s) \in Nat /\ DOMAIN s = 1 .. Len(s) /\ \A i \in 1 .. Len(s) : s[i] \in ItemType
  OBVIOUS
<1> QED BY <1>1 DEF ItemType

\* What is numbered up to the last event is consecutive and ends with that event.
LEMMA NumberedFacts ==
    ASSUME NEW s \in Seq(ItemType), NEW count \in Nat, Numbered(s, count)
    PROVE  Consecutive(s) /\ (s # <<>> => Last(s).n = count)
<1>1. Len(s) \in Nat /\ \A i \in 1 .. Len(s) : s[i].n \in Nat /\ s[i].n + Len(s) = count + i
  BY NumbersAreNat DEF Numbered
<1>2. ASSUME NEW i \in 1 .. Len(s) - 1 PROVE s[i + 1].n = s[i].n + 1
  <2>1. i \in 1 .. Len(s) /\ i + 1 \in 1 .. Len(s)
    BY <1>1
  <2>2. s[i].n \in Nat /\ s[i].n + Len(s) = count + i /\ s[i + 1].n \in Nat /\ s[i + 1].n + Len(s) = count + (i + 1)
    BY <1>1, <2>1
  <2>3. PICK x, y : x = s[i].n /\ y = s[i + 1].n
    OBVIOUS
  <2>4. PICK k : k = Len(s)
    OBVIOUS
  <2>5. x \in Nat /\ y \in Nat /\ k \in Nat /\ x + k = count + i /\ y + k = count + (i + 1)
    BY <1>1, <2>2, <2>3, <2>4
  <2>6. y = x + 1
    BY <2>1, <2>5
  <2> QED BY <2>3, <2>6
<1>3. s # <<>> => Last(s).n = count
  <2>1. s # <<>> => Len(s) \in 1 .. Len(s)
    BY <1>1, EmptySeq
  <2> QED BY <1>1, <2>1 DEF Last
<1> QED BY <1>2, <1>3 DEF Consecutive

LEMMA NumberedAppend ==
    ASSUME NEW s \in Seq(ItemType), NEW count \in Nat, NEW item \in ItemType, item.n = count + 1,
           NEW a, a = Append(s, item), Numbered(s, count)
    PROVE  Numbered(a, count + 1)
<1>1. /\ Len(s) \in Nat /\ Len(a) = Len(s) + 1 /\ a[Len(s) + 1] = item
      /\ \A i \in 1 .. Len(s) : a[i] = s[i]
  BY Appended
<1>2. \A i \in 1 .. Len(s) : s[i].n \in Nat /\ s[i].n + Len(s) = count + i
  BY NumbersAreNat DEF Numbered
<1>3. ASSUME NEW i \in 1 .. Len(a) PROVE a[i].n + Len(a) = (count + 1) + i
  <2>1. CASE i \in 1 .. Len(s)
    <3>1. a[i].n \in Nat /\ a[i].n + Len(s) = count + i
      BY <1>1, <1>2, <2>1
    <3>2. PICK x : x = a[i].n
      OBVIOUS
    <3>3. PICK k : k = Len(s)
      OBVIOUS
    <3>4. x \in Nat /\ k \in Nat /\ x + k = count + i /\ i \in Nat
      BY <1>1, <2>1, <3>1, <3>2, <3>3
    <3>5. x + (k + 1) = (count + 1) + i
      BY <3>4
    <3> QED BY <1>1, <3>2, <3>3, <3>5
  <2>2. CASE i = Len(s) + 1
    BY <1>1, <2>2
  <2> QED BY <1>1, <2>1, <2>2
<1> QED BY <1>3 DEF Numbered

\* The last items of a sequence.
LEMMA NumberedLast ==
    ASSUME NEW s \in Seq(ItemType), NEW count \in Nat, Numbered(s, count),
           NEW n \in 1 .. Len(s), NEW t, t = LastOf(s, n)
    PROVE  t \in Seq(ItemType) /\ Len(t) = n /\ Numbered(t, count)
<1>1. PICK k : k = Len(s)
  OBVIOUS
<1>2. /\ k \in Nat /\ n \in Nat /\ n <= k /\ n >= 1
      /\ \A i \in 1 .. k : s[i] \in ItemType /\ s[i].n \in Nat /\ s[i].n + k = count + i
  BY <1>1, NumbersAreNat DEF Numbered
<1>3. PICK m \in Int : m = k - n + 1
  BY <1>2
<1>4. k \in Int /\ m <= k /\ k - m + 1 = n /\ m >= 1
  BY <1>2, <1>3
<1>5. \A i \in m .. k : s[i] \in ItemType
  BY <1>2, <1>4
<1>6. /\ SubSeq(s, m, k) \in Seq(ItemType)
      /\ Len(SubSeq(s, m, k)) = IF m <= k THEN k - m + 1 ELSE 0
      /\ \A i \in 1 .. k - m + 1 : SubSeq(s, m, k)[i] = s[m + i - 1]
  BY <1>4, <1>5, SubSeqProperties
<1>7. t = SubSeq(s, m, k)
  BY <1>1, <1>3 DEF LastOf
<1>8. t \in Seq(ItemType) /\ Len(t) = n /\ \A i \in 1 .. n : t[i] = s[m + i - 1]
  BY <1>4, <1>6, <1>7
<1>9. ASSUME NEW i \in 1 .. n PROVE t[i].n + n = count + i
  <2>1. m + i - 1 \in 1 .. k
    BY <1>2, <1>3
  <2>2. PICK x : x = t[i].n
    OBVIOUS
  <2>3. x \in Nat /\ x + k = count + (m + i - 1)
    BY <1>2, <1>8, <2>1, <2>2
  <2>4. x + n = count + i
    BY <1>2, <1>3, <2>3
  <2> QED BY <2>2, <2>4
<1> QED BY <1>8, <1>9 DEF Numbered

\* The first item is taken out.
LEMMA TailKeeps ==
    ASSUME NEW s \in Seq(ItemType), s # <<>>, NEW t, t = Tail(s)
    PROVE  /\ t \in Seq(ItemType)
           /\ Consecutive(s) => Consecutive(t)
           /\ \A count \in Nat : Numbered(s, count) => Numbered(t, count)
<1>1. t \in Seq(ItemType) /\ Len(t) = Len(s) - 1 /\ \A i \in 1 .. Len(t) : t[i] = s[i + 1]
  BY HeadTailProperties
<1>2. PICK k : k = Len(s)
  OBVIOUS
<1>3. k \in Nat /\ k # 0
  BY <1>2, EmptySeq
<1>4. Len(t) = k - 1 /\ \A i \in 1 .. k - 1 : t[i] = s[i + 1]
  BY <1>1, <1>2
<1>5. Consecutive(s) => Consecutive(t)
  <2> SUFFICES ASSUME Consecutive(s), NEW i \in 1 .. Len(t) - 1 PROVE t[i + 1].n = t[i].n + 1
    BY DEF Consecutive
  <2>1. i \in 1 .. k - 1 /\ i + 1 \in 1 .. k - 1
    BY <1>3, <1>4
  <2>2. t[i] = s[i + 1] /\ t[i + 1] = s[(i + 1) + 1]
    BY <1>4, <2>1
  <2> QED BY <1>2, <2>1, <2>2 DEF Consecutive
<1>6. ASSUME NEW count \in Nat, Numbered(s, count) PROVE Numbered(t, count)
  <2> SUFFICES ASSUME NEW i \in 1 .. k - 1 PROVE t[i].n + (k - 1) = count + i
    BY <1>4 DEF Numbered
  <2>1. i + 1 \in 1 .. k /\ t[i] = s[i + 1]
    BY <1>3, <1>4
  <2>2. s[i + 1].n \in Nat /\ s[i + 1].n + k = count + (i + 1)
    BY <1>2, <1>6, <2>1, NumbersAreNat DEF Numbered
  <2>3. PICK x : x = t[i].n
    OBVIOUS
  <2>4. x \in Nat /\ x + k = count + (i + 1)
    BY <2>1, <2>2, <2>3
  <2>5. x + (k - 1) = count + i
    BY <1>3, <2>4
  <2> QED BY <2>3, <2>5
<1> QED BY <1>1, <1>5, <1>6
\* An event is waiting in a channel.
Holds(ch, event) == \E i \in DOMAIN ch.buf : ch.buf[i].event = event

\* A channel to which an event is published.
Offered(ch, item) ==
    IF ch.state # "open" THEN ch
    ELSE IF Len(ch.buf) < BufferN THEN [ch EXCEPT !.buf = Append(@, item)]
         ELSE [ch EXCEPT !.lost = TRUE]

LEMMA OfferedKeeps ==
    ASSUME NEW ch \in ChanType, NEW count \in Nat, NEW item \in ItemType, item.n = count + 1, ChanOK(ch, count),
           NEW v, v = Offered(ch, item)
    PROVE  /\ v \in ChanType /\ ChanOK(v, count + 1) /\ v.state = ch.state
           /\ ch.state = "open" /\ ~v.lost =>
                 /\ ~ch.lost /\ Holds(v, item.event)
                 /\ \A event : Holds(ch, event) => Holds(v, event)
<1>1. ch.buf \in Seq(ItemType) /\ ch.lost \in BOOLEAN /\ ch.state \in {"none", "open", "closed"}
  BY DEF ChanType
<1>2. CASE ch.state # "open"
  BY <1>2 DEF ChanOK, Offered
<1>3. CASE ch.state = "open" /\ Len(ch.buf) < BufferN
  <2>1. PICK a : a = Append(ch.buf, item)
    OBVIOUS
  <2>2. /\ a \in Seq(ItemType) /\ Len(ch.buf) \in Nat /\ Len(a) = Len(ch.buf) + 1
        /\ \A i \in 1 .. Len(ch.buf) : a[i] = ch.buf[i]
        /\ a[Len(ch.buf) + 1] = item
    BY <1>1, <2>1, Appended
  <2>3. v = [ch EXCEPT !.buf = a]
    BY <1>3, <2>1 DEF Offered
  <2>4. v \in ChanType /\ v.state = "open" /\ v.buf = a /\ v.lost = ch.lost
    BY <1>1, <1>3, <2>2, <2>3 DEF ChanType
  <2>5. ~ch.lost => Numbered(a, count + 1)
    BY <1>1, <1>3, <2>1, NumberedAppend DEF ChanOK
  <2>6. ChanOK(v, count + 1)
    <3>1. count + 1 \in Nat
      OBVIOUS
    <3>2. ~ch.lost => Consecutive(a)
      BY <2>2, <2>5, <3>1, NumberedFacts
    <3> QED BY <2>4, <2>5, <3>2 DEF ChanOK
  <2>7. DOMAIN ch.buf = 1 .. Len(ch.buf) /\ DOMAIN a = 1 .. Len(a)
    BY <1>1, <2>2, NumbersAreNat
  <2>8. Holds(v, item.event)
    <3>1. Len(ch.buf) + 1 \in DOMAIN v.buf
      BY <2>2, <2>4, <2>7
    <3> QED BY <2>2, <2>4, <3>1 DEF Holds
  <2>9. ASSUME NEW event, Holds(ch, event) PROVE Holds(v, event)
    <3>1. PICK i \in DOMAIN ch.buf : ch.buf[i].event = event
      BY <2>9 DEF Holds
    <3>2. i \in DOMAIN v.buf /\ v.buf[i] = ch.buf[i]
      BY <2>2, <2>4, <2>7, <3>1
    <3> QED BY <3>1, <3>2 DEF Holds
  <2> QED BY <1>3, <2>4, <2>6, <2>8, <2>9
<1>4. CASE ch.state = "open" /\ ~(Len(ch.buf) < BufferN)
  <2>1. v = [ch EXCEPT !.lost = TRUE]
    BY <1>4 DEF Offered
  <2>2. v \in ChanType /\ v.state = "open" /\ v.lost
    BY <1>4, <2>1 DEF ChanType
  <2> QED BY <1>4, <2>2 DEF ChanOK
<1> QED BY <1>2, <1>3, <1>4

\* The history after an event was published.
LEMMA HistoryKeeps ==
    ASSUME NEW h \in Seq(ItemType), NEW count \in Nat, NEW item \in ItemType, item.n = count + 1,
           HistoryOK(h, count), NEW a, a = Append(h, item),
           NEW v, v = (IF Len(a) > HistoryN THEN LastOf(a, HistoryN) ELSE a)
    PROVE  v \in Seq(ItemType) /\ HistoryOK(v, count + 1)
<1>1. a \in Seq(ItemType) /\ Len(h) \in Nat /\ Len(a) = Len(h) + 1
  BY Appended
<1>2. Numbered(a, count + 1)
  BY NumberedAppend DEF HistoryOK
<1>3. Len(h) = (IF count < HistoryN THEN count ELSE HistoryN) /\ HistoryN \in Nat /\ HistoryN # 0
  BY BusAssumption DEF HistoryOK
<1>4. CASE Len(a) > HistoryN
  <2>1. HistoryN \in 1 .. Len(a) /\ count + 1 \in Nat /\ ~(count + 1 < HistoryN)
    BY <1>1, <1>3, <1>4
  <2>2. v \in Seq(ItemType) /\ Len(v) = HistoryN /\ Numbered(v, count + 1)
    BY <1>1, <1>2, <1>4, <2>1, NumberedLast
  <2> QED BY <2>1, <2>2 DEF HistoryOK
<1>5. CASE ~(Len(a) > HistoryN)
  <2>1. Len(a) = (IF count + 1 < HistoryN THEN count + 1 ELSE HistoryN)
    BY <1>1, <1>3, <1>5
  <2> QED BY <1>1, <1>2, <1>5, <2>1 DEF HistoryOK
<1> QED BY <1>4, <1>5

\* What reaches the channels: one that has lost nothing holds the event and what it held.
Delivered(b, p, event) ==
    \A c \in Subscribers :
       /\ p.chan[c].state = b.chan[c].state
       /\ b.chan[c].state = "open" /\ ~p.chan[c].lost =>
             /\ ~b.chan[c].lost /\ Holds(p.chan[c], event)
             /\ \A e : Holds(b.chan[c], e) => Holds(p.chan[c], e)

\* Publish keeps the bus faithful and delivers the event.
LEMMA PublishedKeeps ==
    ASSUME NEW b \in BusType, GoodBus(b), NEW event \in EventType, NEW p, p = Published(b, event)
    PROVE  p \in BusType /\ GoodBus(p) /\ Delivered(b, p, event)
<1>1. PICK item : item = [n |-> b.count + 1, event |-> event]
  OBVIOUS
<1>2. b.count \in Nat /\ b.history \in Seq(ItemType) /\ b.chan \in [Subscribers -> ChanType]
  BY DEF BusType
<1>3. item \in ItemType /\ item.n = b.count + 1 /\ item.event = event
  BY <1>1, <1>2 DEF ItemType
<1>4. PICK a : a = Append(b.history, item)
  OBVIOUS
<1>5. PICK h : h = IF Len(a) > HistoryN THEN LastOf(a, HistoryN) ELSE a
  OBVIOUS
<1>6. PICK chan : chan = [c \in Subscribers |-> Offered(b.chan[c], item)]
  OBVIOUS
<1>7. p = [b EXCEPT !.count = b.count + 1, !.history = h, !.chan = chan]
  BY <1>1, <1>4, <1>5, <1>6, Zenon DEF Published, Offered
<1>8. h \in Seq(ItemType) /\ HistoryOK(h, b.count + 1)
  BY <1>2, <1>3, <1>4, <1>5, HistoryKeeps DEF GoodBus
<1>9. ASSUME NEW c \in Subscribers
      PROVE  /\ chan[c] \in ChanType /\ ChanOK(chan[c], b.count + 1) /\ chan[c].state = b.chan[c].state
             /\ b.chan[c].state = "open" /\ ~chan[c].lost =>
                   /\ ~b.chan[c].lost /\ Holds(chan[c], event)
                   /\ \A e : Holds(b.chan[c], e) => Holds(chan[c], e)
  <2>1. PICK ch : ch = b.chan[c]
    OBVIOUS
  <2>2. ch \in ChanType /\ ChanOK(ch, b.count)
    BY <1>2, <2>1 DEF GoodBus
  <2>3. PICK v : v = chan[c]
    OBVIOUS
  <2>4. v = Offered(ch, item)
    BY <1>6, <2>1, <2>3
  <2>5. /\ v \in ChanType /\ ChanOK(v, b.count + 1) /\ v.state = ch.state
        /\ ch.state = "open" /\ ~v.lost =>
              /\ ~ch.lost /\ Holds(v, item.event)
              /\ \A e : Holds(ch, e) => Holds(v, e)
    <3>1. PICK n \in Nat : n = b.count
      BY <1>2
    <3>2. item.n = n + 1 /\ ChanOK(ch, n)
      BY <1>3, <2>2, <3>1
    <3>3. /\ v \in ChanType /\ ChanOK(v, n + 1) /\ v.state = ch.state
          /\ ch.state = "open" /\ ~v.lost =>
                /\ ~ch.lost /\ Holds(v, item.event)
                /\ \A e : Holds(ch, e) => Holds(v, e)
      <4>1. item \in ItemType /\ ch \in ChanType
        BY <1>3, <2>2
      <4> QED BY <2>4, <3>1, <3>2, <4>1, OfferedKeeps
    <3> QED BY <3>1, <3>3
  <2> QED BY <1>3, <2>1, <2>3, <2>5
<1>10. chan \in [Subscribers -> ChanType]
  <2>1. DOMAIN chan = Subscribers /\ chan = [c \in Subscribers |-> chan[c]]
    BY <1>6
  <2> QED BY <1>9, <2>1
<1>11. p \in BusType /\ p.count = b.count + 1 /\ p.history = h /\ p.chan = chan
  <2>1. p = [count |-> b.count + 1, history |-> h, chan |-> chan]
    BY <1>7 DEF BusType
  <2>2. b.count + 1 \in Nat
    BY <1>2
  <2> QED BY <1>8, <1>10, <2>1, <2>2 DEF BusType
<1>12. GoodBus(p)
  BY <1>8, <1>9, <1>11 DEF GoodBus
<1> QED BY <1>9, <1>11, <1>12 DEF Delivered
\* Something happens to one channel.
LEMMA ChannelKeeps ==
    ASSUME NEW b \in BusType, GoodBus(b), NEW c \in Subscribers,
           NEW ch \in ChanType, ChanOK(ch, b.count), NEW p, p = [b EXCEPT !.chan = [b.chan EXCEPT ![c] = ch]]
    PROVE  /\ p \in BusType /\ GoodBus(p) /\ p.chan[c] = ch
           /\ \A d \in Subscribers : d # c => p.chan[d] = b.chan[d]
<1>1. p = [b EXCEPT !.chan = [b.chan EXCEPT ![c] = ch]] /\ b.chan \in [Subscribers -> ChanType]
  BY DEF BusType
<1>2. PICK chan : chan = [b.chan EXCEPT ![c] = ch]
  OBVIOUS
<1>3. /\ chan \in [Subscribers -> ChanType] /\ chan[c] = ch
      /\ \A d \in Subscribers : d # c => chan[d] = b.chan[d]
  BY <1>1, <1>2
<1>4. p \in BusType /\ p.chan = chan /\ p.count = b.count /\ p.history = b.history
  BY <1>1, <1>2, <1>3 DEF BusType
<1>5. \A d \in Subscribers : ChanOK(chan[d], b.count)
  BY <1>3 DEF GoodBus
<1>6. GoodBus(p)
  BY <1>4, <1>5 DEF GoodBus
<1> QED BY <1>3, <1>4, <1>6

LEMMA SubscribedKeeps ==
    ASSUME NEW b \in BusType, GoodBus(b), NEW c \in Subscribers, NEW p, p = Subscribed(b, c)
    PROVE  /\ p \in BusType /\ GoodBus(p) /\ p.chan[c].state = "open"
           /\ \A d \in Subscribers : d # c => p.chan[d] = b.chan[d]
<1>1. PICK ch : ch = [Unsubscribed EXCEPT !.state = "open"]
  OBVIOUS
<1>2. ch \in ChanType /\ ch.state = "open" /\ ch.buf = <<>>
  <2>1. ch = [state |-> "open", buf |-> <<>>, lost |-> FALSE]
    BY <1>1 DEF Unsubscribed
  <2>2. <<>> \in Seq(ItemType)
    OBVIOUS
  <2> QED BY <2>1, <2>2 DEF ChanType
<1>3. ChanOK(ch, b.count)
  <2>1. Len(ch.buf) = 0
    BY <1>2
  <2> QED BY <2>1 DEF ChanOK, Consecutive, Numbered
<1>4. p = [b EXCEPT !.chan = [b.chan EXCEPT ![c] = ch]]
  BY <1>1 DEF Subscribed, BusType
<1>5. ch \in ChanType /\ ChanOK(ch, b.count)
  BY <1>2, <1>3
<1>6. p \in BusType /\ GoodBus(p) /\ \A d \in Subscribers : d # c => p.chan[d] = b.chan[d]
  BY <1>4, <1>5, ChannelKeeps
<1>7. p.chan[c] = ch
  BY <1>4 DEF BusType
<1> QED BY <1>2, <1>6, <1>7

LEMMA UnregisteredKeeps ==
    ASSUME NEW b \in BusType, GoodBus(b), NEW c \in Subscribers, NEW p, p = Unregistered(b, c)
    PROVE  /\ p \in BusType /\ GoodBus(p)
           /\ \A d \in Subscribers : d # c => p.chan[d] = b.chan[d]
<1>1. PICK state : state = IF b.chan[c].state = "open" THEN "closed" ELSE b.chan[c].state
  OBVIOUS
<1>2. PICK ch : ch = [b.chan[c] EXCEPT !.state = state]
  OBVIOUS
<1>3. b.chan[c] \in ChanType /\ b.chan \in [Subscribers -> ChanType]
  BY DEF BusType
<1>4. state \in {"none", "open", "closed"} /\ state # "open"
  BY <1>1, <1>3 DEF ChanType
<1>5. ch \in ChanType /\ ch.state = state /\ ch.buf = b.chan[c].buf /\ ch.lost = b.chan[c].lost
  BY <1>2, <1>3, <1>4 DEF ChanType
<1>6. ChanOK(ch, b.count)
  BY <1>4, <1>5 DEF ChanOK, GoodBus
<1>7. p = [b EXCEPT !.chan = [b.chan EXCEPT ![c] = ch]]
  <2>1. p = [b EXCEPT !.chan[c].state = state]
    BY <1>1 DEF Unregistered, BusType
  <2> QED BY <1>2, <1>3, <2>1 DEF BusType
<1> QED BY <1>5, <1>6, <1>7, ChannelKeeps

LEMMA RestKeeps ==
    ASSUME NEW b \in BusType, GoodBus(b), NEW c \in Subscribers, Pending(b, c), NEW p, p = Rest(b, c)
    PROVE  /\ p \in BusType /\ GoodBus(p)
           /\ p.chan[c].state = b.chan[c].state /\ p.chan[c].lost = b.chan[c].lost
           /\ \A event : Received(b, c) # event /\ Holds(b.chan[c], event) => Holds(p.chan[c], event)
           /\ \A d \in Subscribers : d # c => p.chan[d] = b.chan[d]
<1>1. b.chan[c] \in ChanType /\ b.chan \in [Subscribers -> ChanType] /\ b.count \in Nat
  BY DEF BusType
<1>2. PICK s \in Seq(ItemType) : s = b.chan[c].buf
  BY <1>1 DEF ChanType
<1>3. s # <<>>
  BY <1>2 DEF Pending
<1>4. PICK t : t = Tail(s)
  OBVIOUS
<1>5. /\ t \in Seq(ItemType) /\ (Consecutive(s) => Consecutive(t))
      /\ Numbered(s, b.count) => Numbered(t, b.count)
  BY <1>1, <1>2, <1>3, <1>4, TailKeeps
<1>6. PICK ch : ch = [b.chan[c] EXCEPT !.buf = t]
  OBVIOUS
<1>7. ch \in ChanType /\ ch.state = b.chan[c].state /\ ch.buf = t /\ ch.lost = b.chan[c].lost
  BY <1>1, <1>5, <1>6 DEF ChanType
<1>8. ChanOK(ch, b.count)
  BY <1>2, <1>5, <1>7 DEF ChanOK, GoodBus
<1>9. p = [b EXCEPT !.chan = [b.chan EXCEPT ![c] = ch]]
  <2>1. p = [b EXCEPT !.chan[c].buf = t]
    BY <1>2, <1>4 DEF Rest, BusType
  <2> QED BY <1>1, <1>6, <2>1 DEF BusType
<1>10. ASSUME NEW event, Received(b, c) # event, Holds(b.chan[c], event) PROVE Holds(ch, event)
  <2>1. PICK i \in DOMAIN s : s[i].event = event
    BY <1>2, <1>10 DEF Holds
  <2>2. /\ DOMAIN s = 1 .. Len(s) /\ Len(s) \in Nat /\ Len(t) = Len(s) - 1
        /\ \A j \in 1 .. Len(t) : t[j] = s[j + 1]
    BY <1>2, <1>3, <1>4, HeadTailProperties
  <2>3. i # 1
    BY <1>2, <1>10, <2>1 DEF Received
  <2>4. i - 1 \in 1 .. Len(t) /\ (i - 1) + 1 = i /\ DOMAIN t = 1 .. Len(t)
    BY <1>5, <2>1, <2>2, <2>3
  <2>5. t[i - 1] = s[i]
    BY <2>2, <2>4
  <2> QED BY <1>7, <2>1, <2>4, <2>5 DEF Holds
<1> QED BY <1>7, <1>8, <1>9, <1>10, ChannelKeeps
-----------------------------------------------------------------------------
(* Who listens.                                                            *)

\* The marker is in the hands of a worker.
OnItsWay == \E s \in Subs : \E i \in DOMAIN sub[s].todo : sub[s].todo[i] = RawOutput(Marker)

\* Someone who listens does something to its own channel, for the whole invariant.
LEMMA ChannelStep ==
    ASSUME StreamInv, UNCHANGED <<pane, start, sub, current, closed, stopper, seen>>,
           NEW c \in Subscribers, bus' \in BusType, GoodBus(bus'),
           \A d \in Subscribers : d # c => bus'.chan[d] = bus.chan[d],
           watch' \in [Watchers -> WatchType], \A w \in Watchers : w # c => watch'[w] = watch[w],
           c \in Watchers => /\ watch'[c] \in {"subscribed", "waiting"} => bus'.chan[c].state = "open"
                             /\ watch'[c] \in {"idle", "subscribed"} => watch[c] \in {"idle", "subscribed"}
                             /\ (watch'[c] = "waiting" /\ c \in pane.due /\ ~bus'.chan[c].lost)
                                   => Holds(bus'.chan[c], RawOutput(Marker)) \/ OnItsWay
    PROVE  StreamInv'
<1>1. StreamTypeOK' /\ WorkersOK'
  BY DEF StreamInv, StreamTypeOK, WorkersOK
<1>2. TableOK'
  BY TableStays DEF StreamInv
<1>3. BusOK'
  BY DEF BusOK
<1>4. \A w \in Watchers : w \in Subscribers
  BY StreamAssumption
<1>5. WaiterIsSubscribed'
  BY <1>4 DEF StreamInv, WaiterIsSubscribed
<1>6. pane.due \in SUBSET Watchers
  BY DEF StreamInv, StreamTypeOK, PaneType
<1>7. DueIsShown'
  BY <1>6 DEF StreamInv, DueIsShown
<1>8. MarkerNotMissed'
  <2> SUFFICES ASSUME NEW w \in pane.due, w \in Watchers, watch'[w] = "waiting", ~bus'.chan[w].lost
               PROVE  Holds(bus'.chan[w], RawOutput(Marker)) \/ OnItsWay
    BY <1>6 DEF MarkerNotMissed, Holds, OnItsWay
  <2>1. CASE w = c
    BY <2>1
  <2>2. CASE w # c
    BY <1>4, <2>2 DEF StreamInv, MarkerNotMissed, Holds, OnItsWay
  <2> QED BY <2>1, <2>2
<1> QED BY <1>1, <1>2, <1>3, <1>5, <1>8, <1>7 DEF StreamInv

LEMMA Listening ==
    ASSUME StreamInv
    PROVE  /\ bus \in BusType /\ GoodBus(bus) /\ watch \in [Watchers -> WatchType]
           /\ Watchers \subseteq Subscribers /\ Streams \subseteq Subscribers
           /\ \A c \in Streams : c \notin Watchers
BY StreamAssumption DEF StreamInv, StreamTypeOK, BusOK

LEMMA WatchSubscribeInv ==
    ASSUME StreamInv, NEW w \in Watchers, WatchSubscribe(w)
    PROVE  StreamInv'
<1>0. bus \in BusType /\ GoodBus(bus) /\ watch \in [Watchers -> WatchType] /\ w \in Subscribers
  BY Listening
<1>1. /\ UNCHANGED <<pane, start, sub, current, closed, stopper, seen>>
      /\ watch' = [watch EXCEPT ![w] = "subscribed"] /\ bus' = Subscribed(bus, w)
  BY DEF WatchSubscribe
<1>2. /\ bus' \in BusType /\ GoodBus(bus') /\ bus'.chan[w].state = "open"
      /\ \A d \in Subscribers : d # w => bus'.chan[d] = bus.chan[d]
  BY <1>0, <1>1, SubscribedKeeps
<1>3. /\ watch' \in [Watchers -> WatchType] /\ watch'[w] = "subscribed"
      /\ \A v \in Watchers : v # w => watch'[v] = watch[v]
  BY <1>0, <1>1 DEF WatchType
<1>4. watch[w] = "idle"
  BY DEF WatchSubscribe
<1> QED BY <1>0, <1>1, <1>2, <1>3, <1>4, ChannelStep

\* The caller gets its answer and its channel is unregistered.
LEMMA WatchOverInv ==
    ASSUME StreamInv, NEW w \in Watchers, UNCHANGED <<pane, start, sub, current, closed, stopper, seen>>,
           NEW outcome \in {"failed", "found"}, watch' = [watch EXCEPT ![w] = outcome],
           NEW b \in BusType, GoodBus(b), \A d \in Subscribers : d # w => b.chan[d] = bus.chan[d],
           bus' = Unregistered(b, w)
    PROVE  StreamInv'
<1>0. watch \in [Watchers -> WatchType] /\ w \in Subscribers
  BY Listening
<1>1. /\ bus' \in BusType /\ GoodBus(bus')
      /\ \A d \in Subscribers : d # w => bus'.chan[d] = b.chan[d]
  BY <1>0, UnregisteredKeeps
<1>2. /\ watch' \in [Watchers -> WatchType] /\ watch'[w] \notin {"idle", "subscribed", "waiting"}
      /\ \A v \in Watchers : v # w => watch'[v] = watch[v]
  BY <1>0 DEF WatchType
<1>3. \A d \in Subscribers : d # w => bus'.chan[d] = bus.chan[d]
  BY <1>1
<1> QED BY <1>0, <1>1, <1>2, <1>3, ChannelStep

LEMMA WatchInspectInv ==
    ASSUME StreamInv, NEW w \in Watchers, WatchInspect(w)
    PROVE  StreamInv'
<1>0. /\ bus \in BusType /\ GoodBus(bus) /\ watch \in [Watchers -> WatchType] /\ w \in Subscribers
      /\ UNCHANGED <<pane, start, sub, current, closed, stopper, seen>> /\ watch[w] = "subscribed"
  BY Listening DEF WatchInspect
<1>1. CASE WatchOver(w, bus, "failed") \/ WatchOver(w, bus, "found")
  BY <1>0, <1>1, WatchOverInv DEF WatchOver
<1>2. CASE ~HasMarker(pane.out) /\ watch' = [watch EXCEPT ![w] = "waiting"] /\ UNCHANGED bus
  <2>1. /\ watch' \in [Watchers -> WatchType] /\ watch'[w] = "waiting"
        /\ \A v \in Watchers : v # w => watch'[v] = watch[v]
    BY <1>0, <1>2 DEF WatchType
  <2>2. bus' \in BusType /\ GoodBus(bus') /\ \A d \in Subscribers : d # w => bus'.chan[d] = bus.chan[d]
    BY <1>0, <1>2
  <2>3. bus'.chan[w].state = "open"
    BY <1>0, <1>2 DEF StreamInv, WaiterIsSubscribed
  <2>4. w \notin pane.due
    BY <1>0, <1>2 DEF StreamInv, DueIsShown
  <2> QED BY <1>0, <2>1, <2>2, <2>3, <2>4, ChannelStep
<1> QED BY <1>1, <1>2 DEF WatchInspect

LEMMA WatchEventInv ==
    ASSUME StreamInv, NEW w \in Watchers, WatchEvent(w)
    PROVE  StreamInv'
<1>0. /\ bus \in BusType /\ GoodBus(bus) /\ watch \in [Watchers -> WatchType] /\ w \in Subscribers
      /\ UNCHANGED <<pane, start, sub, current, closed, stopper, seen>>
      /\ watch[w] = "waiting" /\ Pending(bus, w)
  BY Listening DEF WatchEvent
<1>1. PICK b : b = Rest(bus, w)
  OBVIOUS
<1>2. /\ b \in BusType /\ GoodBus(b)
      /\ b.chan[w].state = bus.chan[w].state /\ b.chan[w].lost = bus.chan[w].lost
      /\ \A event : Received(bus, w) # event /\ Holds(bus.chan[w], event) => Holds(b.chan[w], event)
      /\ \A d \in Subscribers : d # w => b.chan[d] = bus.chan[d]
  BY <1>0, <1>1, RestKeeps
<1>3. CASE WatchOver(w, Rest(bus, w), "found")
  BY <1>0, <1>1, <1>2, <1>3, WatchOverInv DEF WatchOver
<1>4. CASE /\ ~(Received(bus, w).type = "raw_output" /\ HasMarker(Received(bus, w).text))
           /\ bus' = Rest(bus, w) /\ UNCHANGED watch
  <2>1. Received(bus, w) # RawOutput(Marker)
    BY <1>4 DEF RawOutput, HasMarker
  <2>2. bus' = b
    BY <1>1, <1>4
  <2>3. w \in pane.due /\ ~bus'.chan[w].lost => Holds(bus'.chan[w], RawOutput(Marker)) \/ OnItsWay
    <3>1. w \in pane.due /\ ~bus.chan[w].lost => Holds(bus.chan[w], RawOutput(Marker)) \/ OnItsWay
      BY <1>0 DEF StreamInv, MarkerNotMissed, Holds, OnItsWay
    <3> QED BY <1>2, <2>1, <2>2, <3>1
  <2>4. bus'.chan[w].state = "open"
    BY <1>0, <1>2, <2>2 DEF StreamInv, WaiterIsSubscribed
  <2>5. bus' \in BusType /\ GoodBus(bus') /\ \A d \in Subscribers : d # w => bus'.chan[d] = bus.chan[d]
    BY <1>2, <2>2
  <2>6. watch' \in [Watchers -> WatchType] /\ watch'[w] = "waiting" /\ \A v \in Watchers : v # w => watch'[v] = watch[v]
    BY <1>0, <1>4
  <2> QED BY <1>0, <2>3, <2>4, <2>5, <2>6, ChannelStep
<1> QED BY <1>3, <1>4 DEF WatchEvent

LEMMA WatchCancelledInv ==
    ASSUME StreamInv, NEW w \in Watchers, WatchCancelled(w)
    PROVE  StreamInv'
<1>0. bus \in BusType /\ GoodBus(bus) /\ UNCHANGED <<pane, start, sub, current, closed, stopper, seen>>
  BY Listening DEF WatchCancelled
<1> QED BY <1>0, WatchOverInv DEF WatchCancelled, WatchOver

LEMMA EventStreamInv ==
    ASSUME StreamInv, NEW c \in Streams, EventStream(c)
    PROVE  StreamInv'
<1>0. /\ bus \in BusType /\ GoodBus(bus) /\ watch \in [Watchers -> WatchType] /\ c \in Subscribers
      /\ c \notin Watchers
      /\ UNCHANGED <<pane, start, sub, current, closed, stopper, seen>> /\ watch' = watch
  BY Listening DEF EventStream, streamVars
<1>1. bus' \in BusType /\ GoodBus(bus') /\ \A d \in Subscribers : d # c => bus'.chan[d] = bus.chan[d]
  <2>1. CASE bus' = Subscribed(bus, c)
    BY <1>0, <2>1, SubscribedKeeps
  <2>2. CASE Pending(bus, c) /\ bus' = Rest(bus, c)
    BY <1>0, <2>2, RestKeeps
  <2>3. CASE bus' = Unregistered(bus, c)
    BY <1>0, <2>3, UnregisteredKeeps
  <2> QED BY <2>1, <2>2, <2>3 DEF EventStream
<1> QED BY <1>0, <1>1, ChannelStep

\* One event leaves the worker for the bus.
LEMMA PublishNextInv ==
    ASSUME StreamInv, NEW s \in Subs, PublishNext(s)
    PROVE  StreamInv'
<1>0. /\ sub \in [Subs -> WorkerType] /\ sub[s] \in WorkerType /\ WorkerOK(sub[s]) /\ TableOK /\ StreamTypeOK
      /\ bus \in BusType /\ GoodBus(bus) /\ Watchers \subseteq Subscribers
      /\ WorkersOK /\ WaiterIsSubscribed /\ MarkerNotMissed /\ DueIsShown /\ pane.due \in SUBSET Watchers
  BY Typed, Listening DEF StreamInv, PaneType
<1>1. PICK left \in Seq(EventType) : left = sub[s].todo
  BY <1>0 DEF WorkerType
<1>2. PICK event, rest : event = Head(left) /\ rest = Tail(left)
  OBVIOUS
<1>3. /\ left # <<>> /\ bus' = Published(bus, event) /\ sub' = [sub EXCEPT ![s].todo = rest]
      /\ UNCHANGED <<pane, start, current, closed, stopper, seen, watch>>
  BY <1>1, <1>2 DEF PublishNext, Quiet
<1>4. /\ event \in EventType /\ rest \in Seq(EventType) /\ event = left[1]
      /\ Len(left) \in Nat /\ DOMAIN left = 1 .. Len(left)
      /\ Len(rest) = Len(left) - 1 /\ DOMAIN rest = 1 .. Len(rest)
      /\ \A i \in 1 .. Len(rest) : rest[i] = left[i + 1]
  BY <1>1, <1>2, <1>3, HeadTailProperties
<1>5. sub' \in [Subs -> WorkerType] /\ Others(s) /\ sub'[s] = [sub[s] EXCEPT !.todo = rest]
  BY <1>0, <1>3, <1>4 DEF Others, WorkerType
<1>6. sub[s].pc \notin {"off", "installed", "handle", "render", "apply", "remove", "done"}
  <2>1. NewWorker.todo = <<>>
    BY DEF NewWorker
  <2> QED BY <1>0, <1>1, <1>3, <2>1 DEF WorkerOK, StepsAgree
<1>7. /\ sub'[s].pc = sub[s].pc /\ sub'[s].cancelled = sub[s].cancelled /\ sub'[s].todo = rest
      /\ sub'[s] \in WorkerType
  BY <1>0, <1>5 DEF WorkerType
<1>8. WorkersOK'
  <2>1. /\ sub'[s].hand = sub[s].hand /\ sub'[s].slot = sub[s].slot /\ sub'[s].latest = sub[s].latest
        /\ sub'[s].handled = sub[s].handled /\ sub'[s].shadowed = sub[s].shadowed
        /\ sub'[s].owed = sub[s].owed /\ sub'[s].eof = sub[s].eof
    BY <1>0, <1>5 DEF WorkerType
  <2>2. sub[s].pc \in {"drained", "exited"} => sub[s].hand = <<>> /\ sub[s].slot = <<>> /\ sub[s].eof # "open"
    BY <1>0 DEF WorkerOK, StepsAgree
  <2>3. WorkerOK(sub'[s])
    BY <1>0, <1>6, <1>7, <2>1, <2>2, StepKeeps
  <2> QED BY <1>0, <1>5, <2>3, WorkersStep
<1>9. TableOK'
  BY <1>0, <1>3, <1>5, <1>6, <1>7, TableGoesOn
<1>10. bus' \in BusType /\ GoodBus(bus') /\ Delivered(bus, bus', event)
  BY <1>0, <1>3, <1>4, PublishedKeeps
<1>11. StreamTypeOK'
  BY <1>0, <1>3, <1>5, <1>10 DEF StreamTypeOK
<1>12. BusOK' /\ WaiterIsSubscribed'
  BY <1>0, <1>3, <1>10 DEF BusOK, WaiterIsSubscribed, Delivered
<1>13. MarkerNotMissed'
  <2> SUFFICES ASSUME NEW w \in pane.due, w \in Watchers, watch[w] = "waiting", ~bus'.chan[w].lost
               PROVE  Holds(bus'.chan[w], RawOutput(Marker)) \/ OnItsWay'
    BY <1>0, <1>3 DEF MarkerNotMissed, Holds, OnItsWay
  <2>1. w \in Subscribers /\ bus.chan[w].state = "open"
    BY <1>0 DEF WaiterIsSubscribed
  <2>2. /\ ~bus.chan[w].lost /\ Holds(bus'.chan[w], event)
        /\ Holds(bus.chan[w], RawOutput(Marker)) => Holds(bus'.chan[w], RawOutput(Marker))
    BY <1>10, <2>1 DEF Delivered
  <2>3. Holds(bus.chan[w], RawOutput(Marker)) \/ OnItsWay
    BY <1>0, <2>2 DEF MarkerNotMissed, Holds, OnItsWay
  <2>4. ASSUME NEW t \in Subs, NEW i \in DOMAIN sub[t].todo, sub[t].todo[i] = RawOutput(Marker)
        PROVE  Holds(bus'.chan[w], RawOutput(Marker)) \/ OnItsWay'
    <3>1. CASE t # s
      <4>1. sub'[t] = sub[t]
        BY <1>5, <3>1 DEF Others
      <4> QED BY <2>4, <4>1 DEF OnItsWay
    <3>2. CASE t = s /\ i = 1
      BY <1>1, <1>4, <2>2, <2>4, <3>2
    <3>3. CASE t = s /\ i # 1
      <4>1. i - 1 \in DOMAIN rest /\ rest[i - 1] = left[i]
        <5>1. i \in 1 .. Len(left)
          BY <1>1, <1>4, <2>4, <3>3
        <5>2. i - 1 \in 1 .. Len(rest) /\ (i - 1) + 1 = i
          BY <1>4, <3>3, <5>1
        <5> QED BY <1>4, <5>2
      <4> QED BY <1>1, <1>7, <2>4, <3>3, <4>1 DEF OnItsWay
    <3> QED BY <3>1, <3>2, <3>3
  <2> QED BY <2>2, <2>3, <2>4 DEF OnItsWay
<1>14. DueIsShown'
  BY <1>0, <1>3 DEF DueIsShown
<1> QED BY <1>8, <1>9, <1>11, <1>12, <1>13, <1>14 DEF StreamInv

-----------------------------------------------------------------------------
(* What others write to the record.                                        *)

\* The table does not depend on what the record says of the screen, nor on whether it
\* says so after a failure.
LEMMA TableKept ==
    ASSUME TableOK, pane \in PaneType, UNCHANGED <<start, sub, current, closed, stopper>>, Exists,
           pane'.gen = pane.gen, pane'.settled = pane.settled, pane'.st \in {pane.st, "error"},
           seen[pane.gen] \in Reported => seen'[pane.gen] \in Reported
    PROVE  TableOK'
<1>1. Unsettled' => Unsettled
  BY DEF TableOK, SettledBeforeStop, Unsettled, Active, Exists, PaneType
<1>2. StartsOnce'
  BY DEF TableOK, StartsOnce
<1>3. InTable'
  BY DEF TableOK, InTable, Live
<1>4. SettledBeforeStop'
  BY DEF TableOK, SettledBeforeStop, Exists
<1>5. CurrentUntilTold'
  BY <1>1 DEF TableOK, CurrentUntilTold, Live
<1>6. WatchedOrStarting'
  BY <1>1 DEF TableOK, WatchedOrStarting
<1> QED BY <1>2, <1>3, <1>4, <1>5, <1>6 DEF TableOK

LEMMA SnapshotPaneInv ==
    ASSUME StreamInv, NEW text \in Texts, SnapshotPane(text)
    PROVE  StreamInv'
<1>0. /\ TableOK /\ StreamTypeOK /\ WorkersOK /\ pane \in PaneType /\ pane.st \in {"starting", "running", "error", "closed"}
      /\ seen \in [Generations -> Told] /\ pane.gen \in 0 .. MaxGeneration
  BY DEF StreamInv, StreamTypeOK, PaneType, SnapshotPane, Exists
<1>1. PICK due : due = IF HasMarker(text) THEN pane.due \union {w \in Watchers : watch[w] # "waiting"} ELSE Looked
  OBVIOUS
<1>2. Exists /\ UNCHANGED <<bus, start, sub, current, closed, stopper, watch>>
  BY DEF SnapshotPane
<1>3. pane' = [pane EXCEPT !.out = text, !.due = due]
  BY <1>1 DEF SnapshotPane
<1>4. seen' = [seen EXCEPT ![pane.gen] = IF seen[pane.gen] \in Reported THEN "snapshot" ELSE "output"]
  BY DEF SnapshotPane
<1>5. due \in SUBSET Watchers
  BY <1>0, <1>1, OwedToWatchers DEF PaneType
<1>6. /\ pane' \in PaneType /\ pane'.gen = pane.gen /\ pane'.settled = pane.settled /\ pane'.st = pane.st
      /\ pane'.out = text /\ pane'.due = due
  BY <1>0, <1>5, <1>3 DEF PaneType
<1>7. pane.gen \in Generations
  BY <1>0, StreamAssumption DEF TableOK, SettledBeforeStop, Generations
<1>8. seen' \in [Generations -> Told] /\ (seen[pane.gen] \in Reported => seen'[pane.gen] \in Reported)
  BY <1>0, <1>7, <1>4 DEF Told, Reported
<1>9. TableOK'
  BY <1>0, <1>2, <1>6, <1>8, TableKept
<1>10. StreamTypeOK' /\ WorkersOK'
  BY <1>0, <1>2, <1>6, <1>8 DEF StreamTypeOK, WorkersOK
<1>11. DueKept
  BY <1>1, <1>6 DEF DueKept, Looked
<1>12. \A t \in Subs : sub'[t].todo = sub[t].todo \/ sub[t].todo = <<>>
  BY <1>2
<1> QED BY <1>2, <1>9, <1>10, <1>11, <1>12, TableChange

LEMMA PaneFailsInv ==
    ASSUME StreamInv, PaneFails
    PROVE  StreamInv'
<1>0. TableOK /\ StreamTypeOK /\ WorkersOK /\ pane \in PaneType
  BY DEF StreamInv, StreamTypeOK
<1>1. /\ pane' = [pane EXCEPT !.st = "error"] /\ Exists
      /\ UNCHANGED <<bus, start, sub, current, closed, stopper, seen, watch>>
  BY DEF PaneFails
<1>2. /\ pane' \in PaneType /\ pane'.gen = pane.gen /\ pane'.settled = pane.settled /\ pane'.st = "error"
      /\ pane'.out = pane.out /\ pane'.due = pane.due
  BY <1>0, <1>1 DEF PaneType
<1>3. TableOK'
  BY <1>0, <1>1, <1>2, TableKept
<1>4. StreamTypeOK' /\ WorkersOK'
  BY <1>0, <1>1, <1>2 DEF StreamTypeOK, WorkersOK
<1>5. DueKept
  BY <1>2 DEF DueKept
<1>6. \A t \in Subs : sub'[t].todo = sub[t].todo \/ sub[t].todo = <<>>
  BY <1>1
<1> QED BY <1>1, <1>3, <1>4, <1>5, <1>6, TableChange

-----------------------------------------------------------------------------
(* The beginning, every step, and the theorems.                            *)

LEMMA InitBus ==
    ASSUME ClientsInit
    PROVE  bus \in BusType /\ BusOK
<1>1. PICK gone \in SUBSET Streams :
         bus = [count |-> 0, history |-> <<>>,
                chan |-> [c \in Subscribers |->
                            [state |-> IF c \in gone THEN "closed" ELSE "none", buf |-> <<>>, lost |-> FALSE]]]
  BY DEF ClientsInit
<1>2. <<>> \in Seq(ItemType) /\ Len(<<>>) = 0
  OBVIOUS
<1>3. PICK chan : chan = [c \in Subscribers |->
                            [state |-> IF c \in gone THEN "closed" ELSE "none", buf |-> <<>>, lost |-> FALSE]]
  OBVIOUS
<1>4. bus = [count |-> 0, history |-> <<>>, chan |-> chan]
  BY <1>1, <1>3
<1>5. chan \in [Subscribers -> ChanType] /\ \A c \in Subscribers : chan[c].buf = <<>>
  BY <1>2, <1>3 DEF ChanType
<1>6. bus \in BusType /\ bus.count = 0 /\ bus.history = <<>> /\ bus.chan = chan
  BY <1>2, <1>4, <1>5 DEF BusType
<1>7. Numbered(<<>>, 0) /\ Consecutive(<<>>)
  BY <1>2 DEF Numbered, Consecutive
<1>8. \A c \in Subscribers : ChanOK(bus.chan[c], bus.count)
  BY <1>5, <1>6, <1>7 DEF ChanOK
<1>9. HistoryOK(bus.history, bus.count)
  BY <1>2, <1>6, <1>7, BusAssumption DEF HistoryOK
<1> QED BY <1>6, <1>8, <1>9 DEF BusOK, GoodBus

LEMMA InitInv ==
    ASSUME StreamInit, ClientsInit
    PROVE  StreamInv
<1>1. /\ pane.st = "absent" /\ pane.due = {} /\ pane \in PaneType /\ pane.gen \in 0 .. MaxGeneration
      /\ current = NoSub /\ stopper = 0
      /\ start = [g \in Generations |-> [pc |-> "idle", got |-> 0]]
      /\ sub = [s \in Subs |-> NewWorker]
      /\ seen = [g \in Generations |-> "nothing"]
      /\ watch \in [Watchers -> {"idle", "failed"}]
  BY StreamAssumption DEF StreamInit, PaneType
<1>2. /\ \A s \in Subs : sub[s] = NewWorker /\ sub[s].pc = "off"
      /\ \A g \in Generations : start[g].pc = "idle"
      /\ ~Unsettled
  BY <1>1, NewWorkerOK DEF Unsettled, Active
<1>3. StreamTypeOK
  <2>1. 0 \in 0 .. MaxGeneration
    BY StreamAssumption
  <2>2. sub \in [Subs -> WorkerType]
    BY <1>1, NewWorkerOK
  <2>3. start \in [Generations -> StartType]
    BY <1>1, <2>1 DEF StartType
  <2>4. watch \in [Watchers -> WatchType]
    BY <1>1 DEF WatchType
  <2> QED BY <1>1, <2>1, <2>2, <2>3, <2>4, InitBus DEF StreamTypeOK, Told
<1>4. WorkersOK
  BY <1>2, NewWorkerOK DEF WorkersOK
<1>5. TableOK
  <2>1. StartsOnce
    <3>1. \A g, n \in Generations : g <= n => sub[<<g, n>>].pc = "off"
      BY <1>2, SubsFacts
    <3> QED BY <1>2, <3>1 DEF StartsOnce
  <2>2. InTable
    BY <1>1, <1>2, SubsFacts DEF InTable, Live
  <2>3. SettledBeforeStop
    BY <1>1 DEF SettledBeforeStop
  <2> QED BY <1>2, <2>1, <2>2, <2>3 DEF TableOK, CurrentUntilTold, WatchedOrStarting
<1>6. WaiterIsSubscribed /\ MarkerNotMissed /\ DueIsShown
  BY <1>1 DEF WaiterIsSubscribed, MarkerNotMissed, DueIsShown
<1> QED BY <1>3, <1>4, <1>5, <1>6, InitBus DEF StreamInv

LEMMA StutterInv ==
    ASSUME StreamInv, UNCHANGED vars
    PROVE  StreamInv'
<1>1. UNCHANGED <<bus, pane, start, sub, current, closed, stopper, seen, watch>>
  BY DEF vars, streamVars
<1>2. StreamTypeOK' /\ WorkersOK'
  BY <1>1 DEF StreamInv, StreamTypeOK, WorkersOK
<1>3. \A t \in Subs : sub'[t].todo = sub[t].todo
  BY <1>1
<1>4. TableOK'
  BY <1>1, TableStays DEF StreamInv
<1> QED BY <1>1, <1>2, <1>3, <1>4, TableChange DEF DueKept

\* Every step keeps the invariant.
LEMMA NextInv ==
    ASSUME StreamInv, [StreamNext]_vars
    PROVE  StreamInv'
<1>1. ASSUME NEW s \in Subs, Worker(s) PROVE StreamInv'
  BY <1>1, LaunchInv, DrainedInv, TakeInv, HandleFrameInv, RenderInv, ApplyInv, RemoveClosedInv,
     ExitedInv, LeaveInv, PublishNextInv DEF Worker
<1>2. ASSUME NEW s \in Subs, Reader(s) PROVE StreamInv'
  BY <1>2, ReadLineInv, StreamEndsInv, OfferInv DEF Reader
<1>3. ASSUME NEW g \in Generations, Starter(g) PROVE StreamInv'
  BY <1>3, StartGetInv, StartInstallInv, StartCheckInv DEF Starter
<1>4. ASSUME NEW w \in Watchers, Watcher(w) PROVE StreamInv'
  BY <1>4, WatchSubscribeInv, WatchInspectInv, WatchEventInv, WatchCancelledInv DEF Watcher
<1>5. CASE Finished
  BY <1>5, StutterInv DEF Finished
<1>6. CASE UNCHANGED vars
  BY <1>6, StutterInv
<1> QED BY <1>1, <1>2, <1>3, <1>4, <1>5, <1>6, RegisterPaneInv, StopPaneGenerationInv, CloseManagerInv,
           SettlePaneInv, EventStreamInv, SnapshotPaneInv, PaneFailsInv DEF StreamNext

\* However registrations, stops, starts, workers, readers, snapshots, failed calls and
\* listeners interleave, the inductive invariant holds: frames are accounted for, the table holds the one worker
\* that was not cancelled, a live record is watched or about to be, and the bus counts
\* without gaps (subscriptions.go, bus.go, marker_watch.go).
THEOREM StreamInvariant == StreamSpec => []StreamInv
<1>1. StreamInit /\ ClientsInit => StreamInv
  BY InitInv
<1>2. StreamInv /\ [StreamNext]_vars => StreamInv'
  BY NextInv
<1> QED BY <1>1, <1>2, PTL DEF StreamSpec

\* No subscribe process outlives its place in the table, and a live pane that was never
\* settled and that no process watches is one whose failure the monitor was told of; since
\* then it can have heard of the screen by snapshots only (startRecord, takeSubscription,
\* stopPaneGeneration, run, SnapshotOutput).
THEOREM OneProcess == StreamSpec => []OneProcessPerPane
<1>1. StreamInv => OneProcessPerPane
  <2> SUFFICES ASSUME StreamInv PROVE OneProcessPerPane
    OBVIOUS
  <2>1. NoOrphanProcess
    BY DEF StreamInv, TableOK, InTable, Live, NoOrphanProcess
  <2>2. UnwatchedIsReported
    <3>1. WatchedOrStarting
      BY DEF StreamInv, TableOK
    <3> QED BY <3>1 DEF WatchedOrStarting, UnwatchedIsReported
  <2> QED BY <2>1, <2>2 DEF OneProcessPerPane
<1> QED BY <1>1, StreamInvariant, PTL

\* The bus of the invariant answers as promised.
LEMMA BusAnswers ==
    ASSUME bus \in BusType, BusOK
    PROVE  BusIsFaithful
<1>1. bus.count \in Nat /\ bus.history \in Seq(ItemType) /\ \A c \in Subscribers : bus.chan[c].buf \in Seq(ItemType)
  BY DEF BusType, ChanType
<1>2. PICK h \in Seq(ItemType) : h = bus.history
  BY <1>1
<1>3. Numbered(h, bus.count) /\ Len(h) = (IF bus.count < HistoryN THEN bus.count ELSE HistoryN) /\ Len(h) \in Nat
  BY <1>2 DEF BusOK, GoodBus, HistoryOK
<1>4. ASSUME NEW limit \in 0 .. HistoryN, NEW recent, recent = Recent(bus, limit)
      PROVE  /\ Consecutive(recent)
             /\ recent # <<>> => Last(recent).n = bus.count
             /\ Len(recent) = (IF limit = 0 \/ limit > Len(h) THEN Len(h) ELSE limit)
  <2>1. CASE limit > 0 /\ limit < Len(h)
    <3>1. limit \in 1 .. Len(h) /\ recent = LastOf(h, limit)
      BY <1>2, <1>3, <1>4, <2>1 DEF Recent
    <3>2. recent \in Seq(ItemType) /\ Len(recent) = limit /\ Numbered(recent, bus.count)
      BY <1>1, <1>3, <3>1, NumberedLast
    <3>3. Consecutive(recent) /\ (recent # <<>> => Last(recent).n = bus.count)
      BY <1>1, <3>2, NumberedFacts
    <3>4. ~(limit = 0 \/ limit > Len(h))
      BY <1>3, <2>1
    <3> QED BY <3>2, <3>3, <3>4
  <2>2. CASE ~(limit > 0 /\ limit < Len(h))
    <3>1. recent = h
      BY <1>2, <1>4, <2>2 DEF Recent
    <3>2. Consecutive(recent) /\ (recent # <<>> => Last(recent).n = bus.count)
      BY <1>1, <1>3, <3>1, NumberedFacts
    <3>3. Len(h) = (IF limit = 0 \/ limit > Len(h) THEN Len(h) ELSE limit)
      BY <1>3, <2>2
    <3> QED BY <3>1, <3>2, <3>3
  <2> QED BY <2>1, <2>2
<1>5. ASSUME NEW c \in Subscribers, NEW ch, ch = bus.chan[c], ~ch.lost
      PROVE  /\ Consecutive(ch.buf)
             /\ ch.state = "open" /\ ch.buf # <<>> => Last(ch.buf).n = bus.count
  <2>1. ch.buf \in Seq(ItemType) /\ ChanOK(ch, bus.count)
    BY <1>1, <1>5 DEF BusOK, GoodBus
  <2> QED BY <1>1, <1>5, <2>1, NumberedFacts DEF ChanOK
<1> QED BY <1>2, <1>3, <1>4, <1>5 DEF BusIsFaithful

\* No close and no error is pushed out of the one-slot channel, the last viewport of a
\* stream is handled, and the bus delivers in order and without gaps that it did not
\* count (offerSubscribeFrame, handleParsedLine, Publish, Recent).
THEOREM DeliveredFrames == StreamSpec => []FramesAreDelivered
<1>1. StreamInv => FramesAreDelivered
  <2> SUFFICES ASSUME StreamInv PROVE FramesAreDelivered
    OBVIOUS
  <2>1. ControlFramesDelivered
    BY DEF StreamInv, WorkersOK, WorkerOK, Accounted, ControlFramesDelivered
  <2>2. LatestViewportHandled
    <3> SUFFICES ASSUME NEW s \in Subs, sub[s].pc \in {"drained", "exited"}, sub[s].latest # NoFrame, ~sub[s].shadowed
                 PROVE  sub[s].handled = sub[s].latest
      BY DEF LatestViewportHandled
    <3>1. NewestKept(sub[s]) /\ StepsAgree(sub[s])
      BY DEF StreamInv, WorkersOK, WorkerOK
    <3>2. sub[s].hand = <<>> /\ sub[s].slot = <<>> /\ sub[s].pc # "handle"
      BY <3>1 DEF StepsAgree
    <3> QED BY <3>1, <3>2 DEF NewestKept
  <2>3. BusIsFaithful
    BY BusAnswers DEF StreamInv, StreamTypeOK
  <2> QED BY <2>1, <2>2, <2>3 DEF FramesAreDelivered
<1> QED BY <1>1, StreamInvariant, PTL

\* A marker that the stream brings while somebody waits for it, or that stood in the record
\* when the waiter came and was not overwritten before it looked, is on its way to the
\* waiter, unless the waiter's channel was full; one that only a snapshot brings to somebody
\* who waits already is not published, and not owed (WaitForOutputMarker, Publish,
\* SnapshotOutput).
THEOREM MarkersArrive == StreamSpec => []MarkerNotMissed
<1>1. StreamInv => MarkerNotMissed
  BY DEF StreamInv
<1> QED BY <1>1, StreamInvariant, PTL

-----------------------------------------------------------------------------
(* The debate.                                                             *)

\* The driver of a debate, the panes and the bus between them, by themselves.
DebateSpec == DebateInit /\ [][DebateNext]_debateVars

DebateStage == {"plan", "prompt", "synthesis", "open", "wait", "snapshot", "final", "success", "failed"}
Tokens == {Space, Token("open", 0), Token("close", 0)}
          \union {Token("round", r) : r \in Nat} \union {Token("number", n) : n \in Nat}
          \union {Token("agent", p) : p \in DebatePanes}
\* What the snapshots of a round have shown, and a prompt.
Shown == UNION {[S -> SUBSET (1 .. Rounds)] : S \in SUBSET ToSet(Debaters)}
Prompt == [round: 1 .. Rounds, earlier: Seq(Shown)]

\* The variables of the debate keep their types.
DebateTypeOK ==
    /\ stage \in DebateStage /\ round \in 1 .. Rounds /\ todo \in Seq(ToSet(Debaters))
    /\ awaited \subseteq DebatePanes /\ echoes \in Nat
    /\ outputs \in Seq(Shown)
    /\ inbox \in [DebatePanes -> Seq(Prompt)]
    /\ answered \in [DebatePanes -> SUBSET (1 .. Rounds)]
    /\ statuses = [r \in 1 .. Rounds |-> statuses[r]]
    /\ \A r \in 1 .. Rounds : DOMAIN statuses[r] \subseteq DebatePanes

\* The answers printed so far.
SaidBy(said) == {pair \in (1 .. Rounds) \X DebatePanes : pair[1] \in said[pair[2]]}

\* A text shows a round's marker of an agent, white space aside, only for an answer said;
\* and what precedes an agent's name is part of the text.
Clean(text, said) ==
    /\ text \in Seq(Tokens)
    /\ \A j \in 1 .. Len(text), p \in DebatePanes : text[j] = Token("agent", p) =>
          /\ \E i \in 1 .. j - 1 : text[i] # Space
          /\ \A i \in 1 .. j - 1, r \in 1 .. Rounds :
                text[i] = Token("round", r) /\ (\A k \in i + 1 .. j - 1 : text[k] = Space) => <<r, p>> \in said

\* The driver's channel holds what panes have shown.
DebateEvent == [pane: DebatePanes, text: Seq(Tokens)]
DebateItem == [n: Nat, event: DebateEvent]
DebateChan == [state: {"none", "open", "closed"}, buf: Seq(DebateItem), lost: BOOLEAN]

DriverBus(b, said) ==
    /\ b = [count |-> b.count, history |-> b.history, chan |-> b.chan]
    /\ b.count \in Nat /\ b.chan \in [Subscribers -> DebateChan]
    /\ \A i \in 1 .. Len(b.chan[Driver].buf) : Clean(b.chan[Driver].buf[i].event.text, said)

ChannelOK == DriverBus(bus, SaidBy(answered))

\* Snapshots of a round, by its statuses and the answers said: an agent that was done in time
\* has shown that answer, and nobody has shown what it has not said.
ShowsAnswers(st, said, r, shown) ==
    \A q \in DOMAIN shown :
       /\ q \in DOMAIN st[r]
       /\ st[r][q] = "done" => r \in shown[q]
       /\ shown[q] \subseteq said[q]

\* Whole rounds.
WholeRound(st, said, r, shown) == DOMAIN shown = ToSet(Debaters) /\ ShowsAnswers(st, said, r, shown)
WholeRounds(st, said, earlier) ==
    Len(earlier) <= Rounds /\ \A r \in 1 .. Len(earlier) : WholeRound(st, said, r, earlier[r])

\* A prompt carries the whole rounds before its own.
PromptOK(st, said, prompt) == WholeRounds(st, said, prompt.earlier) /\ Len(prompt.earlier) >= prompt.round - 1

PromptsOK == \A p \in DebatePanes : \A i \in 1 .. Len(inbox[p]) : PromptOK(statuses, answered, inbox[p][i])

\* The round that is being snapshotted: what is shown of it and what is still to do are all agents.
PartlyShown ==
    /\ Len(outputs) = round /\ ToSet(todo) \union DOMAIN outputs[round] = ToSet(Debaters)
    /\ ShowsAnswers(statuses, answered, round, outputs[round])
    /\ \A r \in 1 .. round - 1 : WholeRound(statuses, answered, r, outputs[r])

\* What has been collected at each stage.
StageOK ==
    /\ stage \in {"plan", "prompt"} => todo # <<>> /\ Len(outputs) = round - 1
    /\ stage \in {"open", "wait"} =>
          \/ awaited = ToSet(Debaters) /\ Len(outputs) = round - 1
          \/ awaited = {Coordinator} /\ Len(outputs) = round /\ round = Rounds
    /\ stage = "snapshot" =>
          /\ todo # <<>> /\ ToSet(Debaters) \subseteq DOMAIN statuses[round]
          /\ \/ Len(outputs) = round - 1 /\ ToSet(todo) = ToSet(Debaters)
             \/ PartlyShown
    /\ stage \in {"synthesis", "final", "success"} => Len(outputs) = Rounds /\ round = Rounds
    /\ stage \in {"final", "success"} => Rounds \in answered[Coordinator]
    /\ stage \notin {"snapshot", "failed"} => WholeRounds(statuses, answered, outputs)
    /\ stage = "snapshot" /\ Len(outputs) # round => WholeRounds(statuses, answered, outputs)

\* A round's status says done only of an answer said.
DoneIsSaid(st, said) == \A r \in 1 .. Rounds : \A p \in DOMAIN st[r] : st[r][p] = "done" => r \in said[p]

DebateInv == DebateTypeOK /\ ChannelOK /\ PromptsOK /\ StageOK /\ DoneIsSaid(statuses, answered)

\* A set of natural numbers has a least one.
LEMMA LeastOf ==
    ASSUME NEW T \in SUBSET Nat, T # {}
    PROVE  \E n \in T : \A m \in T : n <= m
<1>1. PICK n \in T : \A m \in T : ~(<<m, n>> \in OpToRel(<, Nat))
  BY NatLessThanWellFounded, WFMin, Zenon
<1>2. \A m \in T : <<m, n>> \in Nat \X Nat
  OBVIOUS
<1>3. \A m \in T : m < n => <<m, n>> \in OpToRel(<, Nat)
  BY <1>2 DEF OpToRel
<1>4. ASSUME NEW m \in T PROVE n <= m
  <2>1. ~(m < n)
    BY <1>1, <1>3
  <2>2. m \in Nat /\ n \in Nat
    OBVIOUS
  <2> QED BY <2>1, <2>2
<1> QED BY <1>4

-----------------------------------------------------------------------------
(* Texts.                                                                  *)

LEMMA NoSpace ==
    /\ \A n : Token("agent", n) # Space /\ Token("round", n) # Space /\ Token("number", n) # Space
    /\ Token("open", 0) # Space /\ Token("close", 0) # Space
BY DEF Token, Space

\* Tokens that are no agent's name, and tokens that are no round.
NotAgent(x) == \A p : x # Token("agent", p)
NotRound(x) == \A r : x # Token("round", r)

LEMMA OtherTokens ==
    /\ NotAgent(Space) /\ NotAgent(Token("open", 0)) /\ NotAgent(Token("close", 0))
    /\ \A n : NotAgent(Token("round", n)) /\ NotAgent(Token("number", n))
    /\ NotRound(Space) /\ NotRound(Token("open", 0)) /\ NotRound(Token("close", 0))
    /\ \A n : NotRound(Token("agent", n)) /\ NotRound(Token("number", n))
BY DEF NotAgent, NotRound, Token, Space

LEMMA SameAgent ==
    ASSUME NEW p, NEW q, Token("agent", p) = Token("agent", q)
    PROVE  p = q
BY DEF Token

LEMMA SameRound ==
    ASSUME NEW r, NEW s, Token("round", r) = Token("round", s)
    PROVE  r = s
BY DEF Token

LEMMA TokensAre ==
    /\ Space \in Tokens /\ Token("open", 0) \in Tokens /\ Token("close", 0) \in Tokens
    /\ \A n \in Nat : Token("round", n) \in Tokens /\ Token("number", n) \in Tokens
    /\ \A p \in DebatePanes : Token("agent", p) \in Tokens
BY Zenon DEF Tokens

\* Every agent's name in a text has something before it, and a round of its own before that only if
\* it was said: the parts of Clean by themselves, at one place.
CleanAt(text, said, j, p) ==
    /\ \E i \in 1 .. j - 1 : text[i] # Space
    /\ \A i \in 1 .. j - 1, r \in 1 .. Rounds :
          text[i] = Token("round", r) /\ (\A k \in i + 1 .. j - 1 : text[k] = Space) => <<r, p>> \in said

LEMMA CleanIs ==
    ASSUME NEW text, NEW said
    PROVE  Clean(text, said) <=>
              /\ text \in Seq(Tokens)
              /\ \A j \in 1 .. Len(text), p \in DebatePanes : text[j] = Token("agent", p) => CleanAt(text, said, j, p)
BY Zenon DEF Clean, CleanAt

\* One text after the other.
LEMMA CleanConcat ==
    ASSUME NEW said, NEW s, NEW t, Clean(s, said), Clean(t, said)
    PROVE  Clean(s \o t, said)
<1>1. s \in Seq(Tokens) /\ t \in Seq(Tokens)
  BY CleanIs
<1>2. PICK u : u = s \o t
  BY Zenon
<1>3. PICK m, n \in Nat : m = Len(s) /\ n = Len(t)
  <2>1. Len(s) \in Nat /\ Len(t) \in Nat
    BY <1>1
  <2> QED BY <2>1, Zenon
<1>4. /\ u \in Seq(Tokens) /\ Len(u) = m + n /\ m \in Nat
      /\ \A i \in 1 .. m : u[i] = s[i]
      /\ \A i \in 1 .. n : u[m + i] = t[i]
  BY <1>1, <1>2, <1>3
<1>5. ASSUME NEW j \in 1 .. (m + n), NEW p \in DebatePanes, u[j] = Token("agent", p)
      PROVE  CleanAt(u, said, j, p)
  <2>1. CASE j <= m
    <3>1. j \in 1 .. m /\ s[j] = Token("agent", p)
      BY <1>3, <1>4, <1>5, <2>1
    <3>2. CleanAt(s, said, j, p)
      BY <1>3, <3>1, CleanIs
    <3>3. \A i \in 1 .. j - 1 : u[i] = s[i]
      BY <1>3, <1>4, <2>1
    <3>4. \E i \in 1 .. j - 1 : u[i] # Space
      BY <3>2, <3>3 DEF CleanAt
    <3>5. ASSUME NEW i \in 1 .. j - 1, NEW r \in 1 .. Rounds, u[i] = Token("round", r),
                 \A k \in i + 1 .. j - 1 : u[k] = Space
          PROVE  <<r, p>> \in said
      <4>1. \A k \in i + 1 .. j - 1 : k \in 1 .. j - 1
        BY <1>3
      <4>2. s[i] = Token("round", r) /\ \A k \in i + 1 .. j - 1 : s[k] = Space
        BY <3>3, <3>5, <4>1, Zenon
      <4> QED BY <3>2, <4>2, Zenon DEF CleanAt
    <3> QED BY <3>4, <3>5, Zenon DEF CleanAt
  <2>2. CASE ~(j <= m)
    <3>1. PICK h \in 1 .. n : j = m + h
      <4>1. j - m \in 1 .. n /\ j = m + (j - m)
        BY <1>3, <1>4, <2>2
      <4> QED BY <4>1
    <3>2. t[h] = Token("agent", p)
      BY <1>4, <1>5, <3>1, Zenon
    <3>3. CleanAt(t, said, h, p)
      BY <1>3, <3>2, CleanIs
    <3>4. PICK g \in 1 .. h - 1 : t[g] # Space
      BY <3>3 DEF CleanAt
    <3>5. g \in 1 .. n /\ m + g \in 1 .. j - 1 /\ u[m + g] # Space
      BY <1>3, <1>4, <3>1, <3>4
    <3>6. ASSUME NEW i \in 1 .. j - 1, NEW r \in 1 .. Rounds, u[i] = Token("round", r),
                 \A k \in i + 1 .. j - 1 : u[k] = Space
          PROVE  <<r, p>> \in said
      <4>1. ~(m + g \in i + 1 .. j - 1)
        BY <3>5, <3>6, Zenon
      <4>2. i >= m + g
        BY <1>3, <1>4, <3>5, <4>1
      <4>3. PICK e \in 1 .. h - 1 : i = m + e
        <5>1. i - m \in 1 .. h - 1 /\ i = m + (i - m)
          BY <1>3, <1>4, <3>1, <3>5, <4>2
        <5> QED BY <5>1
      <4>4. e \in 1 .. n /\ t[e] = Token("round", r)
        <5>1. e \in 1 .. n
          BY <1>3, <3>1, <4>3
        <5> QED BY <1>4, <3>6, <4>3, <5>1, Zenon
      <4>5. ASSUME NEW k \in e + 1 .. h - 1 PROVE t[k] = Space
        <5>1. k \in 1 .. n /\ m + k \in i + 1 .. j - 1
          BY <1>3, <1>4, <3>1, <4>3
        <5>2. u[m + k] = Space
          BY <3>6, <5>1, Zenon
        <5> QED BY <1>4, <5>1, <5>2, Zenon
      <4> QED BY <3>3, <4>3, <4>4, <4>5, Zenon DEF CleanAt
    <3> QED BY <3>5, <3>6, Zenon DEF CleanAt
  <2> QED BY <2>1, <2>2
<1> QED BY <1>2, <1>4, <1>5, CleanIs, Zenon

LEMMA CleanGrows ==
    ASSUME NEW text, NEW said, NEW more, Clean(text, said), said \subseteq more
    PROVE  Clean(text, more)
BY Zenon DEF Clean

\* FlattenSeq joins its sequences one after the other.
Joined(seqs, f, i) == IF i = 1 THEN seqs[i] ELSE f[i - 1] \o seqs[i]

IsJoined(seqs, k, f) ==
    /\ f = [i \in 1 .. k |-> f[i]]
    /\ \A i \in 1 .. k : f[i] = Joined(seqs, f, i)

LEMMA JoinedAgrees ==
    ASSUME NEW seqs, NEW f, NEW g, NEW i, i = 1 \/ f[i - 1] = g[i - 1]
    PROVE  Joined(seqs, f, i) = Joined(seqs, g, i)
BY Zenon DEF Joined

LEMMA JoinedExist ==
    ASSUME NEW seqs, NEW k \in Nat
    PROVE  \E f : IsJoined(seqs, k, f)
<1> DEFINE T == {m \in Nat : ~\E f : IsJoined(seqs, m, f)}
<1>1. SUFFICES ASSUME T # {} PROVE FALSE
  BY <1>1, Zenon
<1>2. PICK m \in T : \A j \in T : m <= j
  BY <1>1, LeastOf
<1>3. m \in Nat /\ ~\E f : IsJoined(seqs, m, f)
  BY <1>2
<1>4. CASE m = 0
  <2>1. PICK f : f = [i \in 1 .. 0 |-> 0]
    BY Zenon
  <2>2. f = [i \in 1 .. 0 |-> f[i]] /\ \A i \in 1 .. 0 : FALSE
    BY <2>1
  <2> QED BY <1>3, <1>4, <2>2, Zenon DEF IsJoined
<1>5. CASE m # 0
  <2>1. m - 1 \in Nat /\ m - 1 \notin T
    BY <1>2, <1>3, <1>5
  <2>2. PICK f : IsJoined(seqs, m - 1, f)
    BY <2>1, Zenon
  <2>3. PICK g : g = [i \in 1 .. m |-> IF i = m THEN Joined(seqs, f, m) ELSE f[i]]
    BY Zenon
  <2>4. /\ g = [i \in 1 .. m |-> g[i]]
        /\ g[m] = Joined(seqs, f, m)
        /\ \A i \in 1 .. (m - 1) : g[i] = f[i]
    BY <1>3, <1>5, <2>3
  <2>5. ASSUME NEW i \in 1 .. m PROVE g[i] = Joined(seqs, g, i)
    <3>1. i = 1 \/ f[i - 1] = g[i - 1]
      <4>1. i # 1 => i - 1 \in 1 .. (m - 1)
        BY <1>3
      <4> QED BY <2>4, <4>1, Zenon
    <3>2. g[i] = Joined(seqs, f, i)
      <4>1. CASE i = m
        BY <2>4, <4>1, Zenon
      <4>2. CASE i # m
        <5>1. i \in 1 .. (m - 1)
          BY <1>3, <4>2
        <5> QED BY <2>2, <2>4, <5>1, Zenon DEF IsJoined
      <4> QED BY <4>1, <4>2
    <3> QED BY <3>1, <3>2, JoinedAgrees, Zenon
  <2> QED BY <1>3, <2>4, <2>5, Zenon DEF IsJoined
<1> QED BY <1>4, <1>5

\* flat is what FlattenSeq has joined after each of its sequences.
FlattensTo(seqs, flat) ==
    /\ flat[0] = <<>>
    /\ \A n \in 1 .. Len(seqs) : flat[n] = flat[n - 1] \o seqs[n]
    /\ flat[Len(seqs)] = FlattenSeq(seqs)

LEMMA Flattening ==
    ASSUME NEW X, NEW seqs \in Seq(Seq(X))
    PROVE  \E flat : FlattensTo(seqs, flat)
<1>1. PICK k \in Nat : k = Len(seqs)
  OBVIOUS
<1>2. CASE k = 0
  <2>1. seqs = <<>> /\ Len(seqs) = 0
    BY <1>1, <1>2, EmptySeq, Zenon
  <2>2. FlattenSeq(seqs) = <<>>
    BY <2>1, Zenon DEF FlattenSeq
  <2>3. PICK flat : flat = [n \in {0} |-> <<>>]
    BY Zenon
  <2>4. flat[0] = <<>> /\ \A n \in 1 .. 0 : FALSE
    BY <2>3
  <2> QED BY <2>1, <2>2, <2>4, Zenon DEF FlattensTo
<1>3. CASE k # 0
  <2>1. FlattenSeq(seqs) = IF Len(seqs) = 0 THEN seqs
                           ELSE (CHOOSE f : f = [i \in 1 .. Len(seqs) |-> Joined(seqs, f, i)])[Len(seqs)]
    BY Zenon DEF FlattenSeq, Joined
  <2>2. PICK f : f = CHOOSE g : g = [i \in 1 .. Len(seqs) |-> Joined(seqs, g, i)]
    BY Zenon
  <2>3. FlattenSeq(seqs) = f[k]
    BY <1>1, <1>3, <2>1, <2>2, Zenon
  <2>4. \E g : g = [i \in 1 .. Len(seqs) |-> Joined(seqs, g, i)]
    <3>1. PICK g : IsJoined(seqs, Len(seqs), g)
      BY <1>1, JoinedExist
    <3>2. g = [i \in 1 .. Len(seqs) |-> Joined(seqs, g, i)]
      BY <3>1 DEF IsJoined
    <3> QED BY <3>2, Zenon
  <2>5. f = [i \in 1 .. Len(seqs) |-> Joined(seqs, f, i)]
    BY <2>2, <2>4, Zenon
  <2>6. \A i \in 1 .. k : f[i] = Joined(seqs, f, i)
    BY <1>1, <2>5, Zenon
  <2>7. PICK flat : flat = [n \in 0 .. k |-> IF n = 0 THEN <<>> ELSE f[n]]
    BY Zenon
  <2>8. flat[0] = <<>> /\ \A n \in 1 .. k : flat[n] = f[n]
    BY <1>1, <2>7
  <2>9. ASSUME NEW n \in 1 .. k PROVE flat[n] = flat[n - 1] \o seqs[n]
    <3>1. CASE n = 1
      <4>1. flat[n] = seqs[1]
        BY <2>6, <2>8, <3>1, Zenon DEF Joined
      <4>2. seqs[1] \in Seq(X)
        BY <1>1, <3>1
      <4>3. <<>> \o seqs[1] = seqs[1]
        BY <4>2
      <4>4. n - 1 = 0
        BY <3>1
      <4> QED BY <2>8, <3>1, <4>1, <4>3, <4>4, Zenon
    <3>2. CASE n # 1
      <4>1. n - 1 \in 1 .. k
        BY <1>1, <3>2
      <4>2. f[n] = f[n - 1] \o seqs[n]
        BY <2>6, <3>2, Zenon DEF Joined
      <4> QED BY <2>8, <4>1, <4>2, Zenon
    <3> QED BY <3>1, <3>2
  <2>10. flat[k] = f[k]
    BY <1>1, <1>3, <2>8
  <2> QED BY <1>1, <2>3, <2>8, <2>9, <2>10, Zenon DEF FlattensTo
<1> QED BY <1>2, <1>3

\* Flattening clean texts gives a clean text.
LEMMA CleanFlatten ==
    ASSUME NEW said, NEW seqs \in Seq(Seq(Tokens)), \A i \in 1 .. Len(seqs) : Clean(seqs[i], said)
    PROVE  Clean(FlattenSeq(seqs), said)
<1>1. PICK k \in Nat : k = Len(seqs)
  OBVIOUS
<1>2. PICK flat : FlattensTo(seqs, flat)
  BY Flattening
<1>3. /\ flat[0] = <<>> /\ flat[k] = FlattenSeq(seqs)
      /\ \A n \in 1 .. k : flat[n] = flat[n - 1] \o seqs[n]
  BY <1>1, <1>2, Zenon DEF FlattensTo
<1> DEFINE T == {n \in 0 .. k : ~Clean(flat[n], said)}
<1>4. T = {}
  <2>1. SUFFICES ASSUME T # {} PROVE FALSE
    OBVIOUS
  <2>2. PICK m \in T : \A j \in T : m <= j
    <3>1. T \in SUBSET Nat
      BY <1>1
    <3> HIDE DEF T
    <3> QED BY <2>1, <3>1, LeastOf, Zenon
  <2>3. m \in 0 .. k /\ ~Clean(flat[m], said)
    BY <2>2
  <2>4. Clean(<<>>, said)
    <3>1. <<>> \in Seq(Tokens) /\ \A j \in 1 .. Len(<<>>) : FALSE
      OBVIOUS
    <3> QED BY <3>1, Zenon DEF Clean
  <2>5. m # 0
    BY <1>3, <2>3, <2>4, Zenon
  <2>6. m \in 1 .. k /\ m - 1 \in 0 .. k /\ m - 1 \notin T
    BY <1>1, <2>2, <2>3, <2>5
  <2>7. Clean(flat[m - 1], said)
    BY <2>6, Zenon
  <2>8. Clean(seqs[m], said)
    BY <1>1, <2>6
  <2>9. Clean(flat[m - 1] \o seqs[m], said)
    BY <2>7, <2>8, CleanConcat, Zenon
  <2> QED BY <1>3, <2>3, <2>6, <2>9, Zenon
<1>5. k \in 0 .. k
  BY <1>1
<1> QED BY <1>3, <1>4, <1>5, Zenon

\* What compactWhitespace keeps of each token.
Kept(text) == [i \in DOMAIN text |-> IF text[i] = Space THEN <<>> ELSE <<text[i]>>]

LEMMA KeptIs ==
    ASSUME NEW text \in Seq(Tokens)
    PROVE  /\ compactWhitespace(text) = FlattenSeq(Kept(text))
           /\ Kept(text) \in Seq(Seq(Tokens)) /\ Len(Kept(text)) = Len(text)
           /\ \A i \in 1 .. Len(text) : Kept(text)[i] = IF text[i] = Space THEN <<>> ELSE <<text[i]>>
<1>1. compactWhitespace(text) = FlattenSeq(Kept(text))
  BY Zenon DEF compactWhitespace, Kept
<1>2. PICK kept : kept = Kept(text)
  BY Zenon
<1>3. PICK m \in Nat : m = Len(text) /\ DOMAIN text = 1 .. m
  OBVIOUS
<1>4. kept = [i \in 1 .. m |-> IF text[i] = Space THEN <<>> ELSE <<text[i]>>]
  BY <1>2, <1>3, Zenon DEF Kept
<1>5. \A i \in 1 .. m : kept[i] = IF text[i] = Space THEN <<>> ELSE <<text[i]>>
  BY <1>4, Zenon
<1>6. ASSUME NEW i \in 1 .. m PROVE (IF text[i] = Space THEN <<>> ELSE <<text[i]>>) \in Seq(Tokens)
  <2>1. text[i] \in Tokens
    BY <1>3
  <2>2. <<text[i]>> \in Seq(Tokens) /\ <<>> \in Seq(Tokens)
    BY <2>1
  <2> QED BY <2>2, Zenon
<1>7. PICK X : X = Seq(Tokens)
  BY Zenon
<1>8. kept \in [1 .. m -> X]
  <2>1. \A i \in 1 .. m : (IF text[i] = Space THEN <<>> ELSE <<text[i]>>) \in X
    BY <1>6, <1>7, Zenon
  <2> QED BY <1>4, <2>1, Zenon
<1>9. kept \in Seq(X) /\ Len(kept) = m
  BY <1>3, <1>8
<1> QED BY <1>1, <1>2, <1>3, <1>5, <1>7, <1>9, Zenon

LEMMA JoinOne ==
    ASSUME NEW c \in Seq(Tokens), NEW x \in Tokens
    PROVE  /\ c \o <<x>> \in Seq(Tokens) /\ Len(c \o <<x>>) = Len(c) + 1
           /\ \A k \in 1 .. Len(c) : (c \o <<x>>)[k] = c[k]
           /\ (c \o <<x>>)[Len(c) + 1] = x
OBVIOUS

\* c is what compactWhitespace leaves of the first n tokens: neighbours in it had nothing but white
\* space between them, and after the last one there is nothing but white space.
Compacted(text, n, c) ==
    /\ c \in Seq(Tokens)
    /\ \A k \in 1 .. Len(c) - 1 :
          \E a, b \in 1 .. n : /\ a < b /\ text[a] = c[k] /\ text[b] = c[k + 1]
                               /\ \A i \in a + 1 .. b - 1 : text[i] = Space
    /\ c # <<>> => \E a \in 1 .. n : text[a] = c[Len(c)] /\ \A i \in a + 1 .. n : text[i] = Space

LEMMA CompactStep ==
    ASSUME NEW text \in Seq(Tokens), NEW n \in 1 .. Len(text), NEW c, Compacted(text, n - 1, c)
    PROVE  Compacted(text, n, c \o (IF text[n] = Space THEN <<>> ELSE <<text[n]>>))
<1>1. c \in Seq(Tokens) /\ text[n] \in Tokens /\ n \in Nat /\ 1 <= n
  BY DEF Compacted
<1>2. ASSUME NEW k \in 1 .. Len(c) - 1
      PROVE  \E a, b \in 1 .. n : /\ a < b /\ text[a] = c[k] /\ text[b] = c[k + 1]
                                  /\ \A i \in a + 1 .. b - 1 : text[i] = Space
  <2>1. PICK a, b \in 1 .. n - 1 : /\ a < b /\ text[a] = c[k] /\ text[b] = c[k + 1]
                                   /\ \A i \in a + 1 .. b - 1 : text[i] = Space
    BY DEF Compacted
  <2>2. a \in 1 .. n /\ b \in 1 .. n
    BY <1>1, <2>1
  <2> QED BY <2>1, <2>2
<1>3. CASE text[n] = Space
  <2>1. c \o <<>> = c
    BY <1>1
  <2>2. ASSUME c # <<>> PROVE \E a \in 1 .. n : text[a] = c[Len(c)] /\ \A i \in a + 1 .. n : text[i] = Space
    <3>1. PICK a \in 1 .. n - 1 : text[a] = c[Len(c)] /\ \A i \in a + 1 .. n - 1 : text[i] = Space
      BY <2>2 DEF Compacted
    <3>2. a \in 1 .. n /\ \A i \in a + 1 .. n : text[i] = Space
      BY <1>1, <1>3, <3>1
    <3> QED BY <3>1, <3>2
  <2>3. Compacted(text, n, c)
    BY <1>1, <1>2, <2>2, Zenon DEF Compacted
  <2> QED BY <1>3, <2>1, <2>3, Zenon
<1>4. CASE text[n] # Space
  <2>1. PICK d : d = c \o <<text[n]>>
    BY Zenon
  <2>2. PICK m \in Nat : m = Len(c)
    BY <1>1
  <2>3. /\ d \in Seq(Tokens) /\ Len(d) = m + 1
        /\ \A k \in 1 .. m : d[k] = c[k]
        /\ d[m + 1] = text[n]
    BY <1>1, <2>1, <2>2, JoinOne, Zenon
  <2>4. ASSUME NEW k \in 1 .. Len(d) - 1
        PROVE  \E a, b \in 1 .. n : /\ a < b /\ text[a] = d[k] /\ text[b] = d[k + 1]
                                    /\ \A i \in a + 1 .. b - 1 : text[i] = Space
    <3>1. k \in 1 .. m
      BY <2>2, <2>3
    <3>2. CASE k = m
      <4>1. c # <<>>
        BY <1>1, <2>2, <3>1
      <4>2. PICK a \in 1 .. n - 1 : text[a] = c[m] /\ \A i \in a + 1 .. n - 1 : text[i] = Space
        BY <2>2, <4>1 DEF Compacted
      <4>3. a \in 1 .. n /\ n \in 1 .. n /\ a < n
        BY <1>1, <4>2
      <4>4. text[a] = d[k] /\ text[n] = d[k + 1]
        BY <2>3, <3>1, <3>2, <4>2, Zenon
      <4> QED BY <4>2, <4>3, <4>4, Zenon
    <3>3. CASE k # m
      <4>1. k \in 1 .. Len(c) - 1 /\ k + 1 \in 1 .. m
        BY <2>2, <3>1, <3>3
      <4>2. d[k] = c[k] /\ d[k + 1] = c[k + 1]
        BY <2>3, <3>1, <4>1, Zenon
      <4> QED BY <1>2, <4>1, <4>2
    <3> QED BY <3>2, <3>3
  <2>5. n \in 1 .. n /\ text[n] = d[Len(d)] /\ \A i \in n + 1 .. n : text[i] = Space
    BY <1>1, <2>3
  <2>6. Compacted(text, n, d)
    BY <2>3, <2>4, <2>5, Zenon DEF Compacted
  <2> QED BY <1>4, <2>1, <2>6, Zenon
<1> QED BY <1>3, <1>4

\* Neighbours in a text without white space had nothing but white space between them.
LEMMA CompactIs ==
    ASSUME NEW text \in Seq(Tokens)
    PROVE  Compacted(text, Len(text), compactWhitespace(text))
<1>1. PICK k \in Nat : k = Len(text)
  OBVIOUS
<1>2. PICK kept : kept = Kept(text)
  BY Zenon
<1>3. /\ kept \in Seq(Seq(Tokens)) /\ Len(kept) = k /\ compactWhitespace(text) = FlattenSeq(kept)
      /\ \A i \in 1 .. k : kept[i] = IF text[i] = Space THEN <<>> ELSE <<text[i]>>
  BY <1>1, <1>2, KeptIs, Zenon
<1>4. PICK flat : FlattensTo(kept, flat)
  BY <1>3, Flattening, Zenon
<1>5. /\ flat[0] = <<>> /\ flat[k] = compactWhitespace(text)
      /\ \A n \in 1 .. k : flat[n] = flat[n - 1] \o kept[n]
  BY <1>3, <1>4, Zenon DEF FlattensTo
<1> DEFINE T == {n \in 0 .. k : ~Compacted(text, n, flat[n])}
<1>6. T = {}
  <2>1. SUFFICES ASSUME T # {} PROVE FALSE
    OBVIOUS
  <2>2. PICK m \in T : \A j \in T : m <= j
    <3>1. T \in SUBSET Nat
      BY <1>1
    <3> HIDE DEF T
    <3> QED BY <2>1, <3>1, LeastOf, Zenon
  <2>3. m \in 0 .. k /\ ~Compacted(text, m, flat[m])
    BY <2>2
  <2>4. Compacted(text, 0, <<>>)
    <3>1. <<>> \in Seq(Tokens) /\ \A j \in 1 .. Len(<<>>) - 1 : FALSE
      OBVIOUS
    <3> QED BY <3>1, Zenon DEF Compacted
  <2>5. m # 0
    BY <1>5, <2>3, <2>4, Zenon
  <2>6. m \in 1 .. k /\ m - 1 \in 0 .. k /\ m - 1 \notin T
    BY <1>1, <2>2, <2>3, <2>5
  <2>7. Compacted(text, m - 1, flat[m - 1])
    BY <2>6, Zenon
  <2>8. Compacted(text, m, flat[m - 1] \o (IF text[m] = Space THEN <<>> ELSE <<text[m]>>))
    BY <1>1, <2>6, <2>7, CompactStep, Zenon
  <2>9. flat[m] = flat[m - 1] \o (IF text[m] = Space THEN <<>> ELSE <<text[m]>>)
    BY <1>3, <1>5, <2>6, Zenon
  <2> QED BY <2>3, <2>8, <2>9, Zenon
<1>7. k \in 0 .. k
  BY <1>1
<1> QED BY <1>1, <1>5, <1>6, <1>7, Zenon

LEMMA MarkerIs ==
    ASSUME NEW r \in 1 .. Rounds, NEW p \in DebatePanes
    PROVE  /\ completionMarker(r, p) \in Seq(Tokens) /\ Len(completionMarker(r, p)) = 6
           /\ completionMarker(r, p)[1] = Token("open", 0) /\ completionMarker(r, p)[2] = Space
           /\ completionMarker(r, p)[3] = Token("round", r) /\ completionMarker(r, p)[4] = Space
           /\ completionMarker(r, p)[5] = Token("agent", p) /\ completionMarker(r, p)[6] = Token("close", 0)
<1>1. Rounds \in 1 .. 3
  BY DebateAssumption
<1>2. r \in Nat
  BY <1>1
<1>3. PICK o, s, n, a, e : o = Token("open", 0) /\ s = Space /\ n = Token("round", r) /\ a = Token("agent", p) /\ e = Token("close", 0)
  BY Zenon
<1>4. o \in Tokens /\ s \in Tokens /\ n \in Tokens /\ a \in Tokens /\ e \in Tokens
  BY <1>2, <1>3, TokensAre, Zenon
<1>5. completionMarker(r, p) = <<o, s, n, s, a, e>>
  BY <1>3, Zenon DEF completionMarker
<1>6. PICK m : m = <<o, s, n, s, a, e>>
  BY Zenon
<1>7. m \in Seq(Tokens) /\ Len(m) = 6 /\ m[1] = o /\ m[2] = s /\ m[3] = n /\ m[4] = s /\ m[5] = a /\ m[6] = e
  BY <1>4, <1>6
<1> QED BY <1>3, <1>5, <1>6, <1>7, Zenon

\* Without white space, a marker is its parts: the round, and then the agent.
LEMMA CompactMarker ==
    ASSUME NEW r \in 1 .. Rounds, NEW p \in DebatePanes
    PROVE  LET c == compactWhitespace(completionMarker(r, p))
           IN  c \in Seq(Tokens) /\ Len(c) = 4 /\ c[2] = Token("round", r) /\ c[3] = Token("agent", p)
<1>1. PICK m : m = completionMarker(r, p)
  BY Zenon
<1>2. /\ m \in Seq(Tokens) /\ Len(m) = 6
      /\ m[1] = Token("open", 0) /\ m[2] = Space /\ m[3] = Token("round", r) /\ m[4] = Space
      /\ m[5] = Token("agent", p) /\ m[6] = Token("close", 0)
  BY <1>1, MarkerIs, Zenon
<1>3. PICK kept : kept = Kept(m)
  BY Zenon
<1>4. /\ kept \in Seq(Seq(Tokens)) /\ Len(kept) = 6 /\ compactWhitespace(m) = FlattenSeq(kept)
      /\ \A i \in 1 .. 6 : kept[i] = IF m[i] = Space THEN <<>> ELSE <<m[i]>>
  BY <1>2, <1>3, KeptIs, Zenon
<1>5. PICK flat : FlattensTo(kept, flat)
  BY <1>4, Flattening, Zenon
<1>6. /\ flat[0] = <<>> /\ flat[6] = compactWhitespace(m)
      /\ \A n \in 1 .. 6 : flat[n] = flat[n - 1] \o kept[n]
  BY <1>4, <1>5, Zenon DEF FlattensTo
<1>7. /\ 1 \in 1 .. 6 /\ 2 \in 1 .. 6 /\ 3 \in 1 .. 6 /\ 4 \in 1 .. 6 /\ 5 \in 1 .. 6 /\ 6 \in 1 .. 6
      /\ 1 - 1 = 0 /\ 2 - 1 = 1 /\ 3 - 1 = 2 /\ 4 - 1 = 3 /\ 5 - 1 = 4 /\ 6 - 1 = 5
  OBVIOUS
<1>8. /\ m[1] # Space /\ m[3] # Space /\ m[5] # Space /\ m[6] # Space
      /\ m[1] \in Tokens /\ m[3] \in Tokens /\ m[5] \in Tokens /\ m[6] \in Tokens
  <2>1. m[1] \in Tokens /\ m[3] \in Tokens /\ m[5] \in Tokens /\ m[6] \in Tokens
    <3>1. \A i \in 1 .. 6 : m[i] \in Tokens
      BY <1>2, ElementOfSeq, Zenon
    <3> QED BY <1>7, <3>1, Zenon
  <2> QED BY <1>2, <2>1, NoSpace, Zenon
<1>9. /\ kept[1] = <<m[1]>> /\ kept[2] = <<>> /\ kept[3] = <<m[3]>> /\ kept[4] = <<>>
      /\ kept[5] = <<m[5]>> /\ kept[6] = <<m[6]>>
  BY <1>2, <1>4, <1>7, <1>8, Zenon
<1>10. /\ flat[1] = <<>> \o <<m[1]>> /\ flat[2] = flat[1] \o <<>> /\ flat[3] = flat[2] \o <<m[3]>>
       /\ flat[4] = flat[3] \o <<>> /\ flat[5] = flat[4] \o <<m[5]>> /\ flat[6] = flat[5] \o <<m[6]>>
  BY <1>6, <1>7, <1>9, Zenon
<1>11. flat[1] = <<m[1]>>
  BY <1>8, <1>10
<1>12. flat[2] = <<m[1]>>
  BY <1>8, <1>10, <1>11
<1>13. flat[3] \in Seq(Tokens) /\ Len(flat[3]) = 2 /\ flat[3][2] = m[3]
  BY <1>8, <1>10, <1>12
<1>14. flat[4] = flat[3]
  BY <1>10, <1>13
<1>15. flat[5] \in Seq(Tokens) /\ Len(flat[5]) = 3 /\ flat[5][2] = m[3] /\ flat[5][3] = m[5]
  BY <1>8, <1>10, <1>13, <1>14
<1>16. flat[6] \in Seq(Tokens) /\ Len(flat[6]) = 4 /\ flat[6][2] = m[3] /\ flat[6][3] = m[5]
  BY <1>8, <1>10, <1>15
<1> QED BY <1>1, <1>2, <1>6, <1>16, Zenon

\* Where a text occurs in another one, its elements are there one after the other.
LEMMA OccursMeans ==
    ASSUME NEW text \in Seq(Tokens), NEW part \in Seq(Tokens), Occurs(text, part), part # <<>>
    PROVE  \E i \in Nat : i + Len(part) <= Len(text) /\ \A k \in 1 .. Len(part) : text[i + k] = part[k]
<1>1. PICK i \in 0 .. Len(text) - Len(part) : SubSeq(text, i + 1, i + Len(part)) = part
  BY DEF Occurs
<1>2. PICK m, n \in Nat : m = Len(text) /\ n = Len(part)
  <2>1. Len(text) \in Nat /\ Len(part) \in Nat
    OBVIOUS
  <2> QED BY <2>1, Zenon
<1>3. m \in Nat /\ n \in Nat /\ n > 0 /\ i \in Nat /\ i + n <= m
  BY <1>1, <1>2
<1>4. ASSUME NEW k \in 1 .. n PROVE text[i + k] = part[k]
  <2>1. SubSeq(text, i + 1, i + n)[k] = text[i + 1 + k - 1]
    BY <1>2, <1>3
  <2>2. i + 1 + k - 1 = i + k
    BY <1>3
  <2> QED BY <1>1, <1>2, <2>1, <2>2
<1> QED BY <1>2, <1>3, <1>4, Zenon

\* A marker that a clean text shows, as it is or once the white space is out, was said.
LEMMA MatchMeansSaid ==
    ASSUME NEW text, NEW said, NEW r \in 1 .. Rounds, NEW p \in DebatePanes,
           Clean(text, said), markerMatches(text, completionMarker(r, p))
    PROVE  <<r, p>> \in said
<1>1. text \in Seq(Tokens)
  BY DEF Clean
<1>2. PICK m : m = completionMarker(r, p)
  BY Zenon
<1>3. m \in Seq(Tokens) /\ Len(m) = 6 /\ m[3] = Token("round", r) /\ m[4] = Space /\ m[5] = Token("agent", p)
  BY <1>2, MarkerIs, Zenon
<1>4. ASSUME NEW a \in 1 .. Len(text), NEW b \in 1 .. Len(text), a < b, text[a] = Token("round", r),
             text[b] = Token("agent", p), \A i \in a + 1 .. b - 1 : text[i] = Space
      PROVE  <<r, p>> \in said
  <2>1. a \in 1 .. b - 1
    BY <1>1, <1>4
  <2> QED BY <1>4, <2>1, Zenon DEF Clean
<1>5. CASE Occurs(text, m)
  <2>1. PICK i \in Nat : i + 6 <= Len(text) /\ \A k \in 1 .. 6 : text[i + k] = m[k]
    <3>1. m # <<>>
      BY <1>3
    <3> QED BY <1>1, <1>3, <1>5, <3>1, OccursMeans, Zenon
  <2>2. text[i + 3] = m[3] /\ text[i + 4] = m[4] /\ text[i + 5] = m[5]
    BY <2>1
  <2>3. PICK a, b \in 1 .. Len(text) : a = i + 3 /\ b = i + 5
    BY <1>1, <2>1
  <2>4. a < b /\ \A k \in a + 1 .. b - 1 : k = i + 4
    BY <2>1, <2>3
  <2>5. text[a] = Token("round", r) /\ text[b] = Token("agent", p) /\ \A k \in a + 1 .. b - 1 : text[k] = Space
    BY <1>3, <2>2, <2>3, <2>4, Zenon
  <2> QED BY <1>4, <2>3, <2>4, <2>5, Zenon
<1>6. CASE Occurs(compactWhitespace(text), compactWhitespace(m))
  <2>1. PICK c, d : c = compactWhitespace(text) /\ d = compactWhitespace(m)
    BY Zenon
  <2>2. Compacted(text, Len(text), c)
    BY <1>1, <2>1, CompactIs, Zenon
  <2>3. d \in Seq(Tokens) /\ Len(d) = 4 /\ d[2] = Token("round", r) /\ d[3] = Token("agent", p)
    BY <1>2, <2>1, CompactMarker, Zenon
  <2>4. c \in Seq(Tokens) /\ Len(c) \in Nat
    BY <2>2 DEF Compacted
  <2>5. PICK i \in Nat : i + 4 <= Len(c) /\ \A k \in 1 .. 4 : c[i + k] = d[k]
    <3>1. d # <<>>
      BY <2>3
    <3>2. Occurs(c, d)
      BY <1>6, <2>1, Zenon
    <3>3. \E i \in Nat : i + Len(d) <= Len(c) /\ \A k \in 1 .. Len(d) : c[i + k] = d[k]
      BY <2>3, <2>4, <3>1, <3>2, OccursMeans, Zenon
    <3> QED BY <2>3, <3>3, Zenon
  <2>6. c[i + 2] = d[2] /\ c[i + 3] = d[3] /\ i + 2 \in 1 .. Len(c) - 1 /\ i + 2 + 1 = i + 3
    BY <2>4, <2>5
  <2>7. PICK a, b \in 1 .. Len(text) : /\ a < b /\ text[a] = c[i + 2] /\ text[b] = c[i + 2 + 1]
                                       /\ \A k \in a + 1 .. b - 1 : text[k] = Space
    BY <2>2, <2>6, Zenon DEF Compacted
  <2> QED BY <1>4, <2>3, <2>6, <2>7, Zenon
<1> QED BY <1>2, <1>5, <1>6, Zenon DEF markerMatches

\* A text that shows one agent's marker of a round, broken or not, is clean once that was said.
LEMMA CleanMarker ==
    ASSUME NEW r \in 1 .. Rounds, NEW p \in DebatePanes, NEW said, <<r, p>> \in said
    PROVE  Clean(completionMarker(r, p), said) /\ Clean(Wrapped(completionMarker(r, p)), said)
<1>1. PICK m : m = completionMarker(r, p)
  BY Zenon
<1>2. /\ m \in Seq(Tokens) /\ Len(m) = 6
      /\ m[1] = Token("open", 0) /\ m[2] = Space /\ m[3] = Token("round", r) /\ m[4] = Space
      /\ m[5] = Token("agent", p) /\ m[6] = Token("close", 0)
  BY <1>1, MarkerIs, Zenon
<1>3. PICK w : w = Wrapped(m)
  BY Zenon
<1>4. /\ w \in Seq(Tokens) /\ Len(w) = 7
      /\ w[1] = m[1] /\ w[2] = Space /\ w[3] = m[2] /\ w[4] = m[3] /\ w[5] = m[4] /\ w[6] = m[5] /\ w[7] = m[6]
  <2>1. PICK h, t : h = Head(m) /\ t = Tail(m)
    BY Zenon
  <2>2. /\ h \in Tokens /\ h = m[1] /\ t \in Seq(Tokens) /\ Len(t) = 5
        /\ t[1] = m[2] /\ t[2] = m[3] /\ t[3] = m[4] /\ t[4] = m[5] /\ t[5] = m[6]
    <3>1. m \in Seq(Tokens) /\ Len(m) = 6
      BY <1>2
    <3>2. h = m[1] /\ t \in Seq(Tokens) /\ Len(t) = 5 /\ \A i \in 1 .. 5 : t[i] = m[i + 1]
      <4>1. m # <<>>
        BY <3>1
      <4>2. /\ h \in Tokens /\ t \in Seq(Tokens) /\ Len(t) = Len(m) - 1 /\ h = m[1]
            /\ \A i \in 1 .. Len(t) : t[i] = m[i + 1]
        BY <2>1, <3>1, <4>1, HeadTailProperties
      <4> QED BY <3>1, <4>2
    <3>3. m[1] \in Tokens
      BY <1>2, TokensAre
    <3> QED BY <3>2, <3>3
  <2>3. PICK f, s : f = <<h, s>> /\ s = Space
    BY Zenon
  <2>4. s \in Tokens
    BY <2>3, TokensAre
  <2>5. f \in Seq(Tokens) /\ Len(f) = 2 /\ f[1] = h /\ f[2] = s
    BY <2>2, <2>3, <2>4
  <2>6. w = f \o t
    BY <1>3, <2>1, <2>3, Zenon DEF Wrapped
  <2>7. w \in Seq(Tokens) /\ Len(w) = 7 /\ w[1] = f[1] /\ w[2] = f[2] /\ \A i \in 3 .. 7 : w[i] = t[i - 2]
    <3>1. f \in Seq(Tokens) /\ t \in Seq(Tokens) /\ Len(f) = 2 /\ Len(t) = 5
      BY <2>2, <2>5
    <3>2. /\ w \in Seq(Tokens) /\ Len(w) = Len(f) + Len(t)
          /\ \A i \in 1 .. Len(f) + Len(t) : w[i] = IF i <= Len(f) THEN f[i] ELSE t[i - Len(f)]
      BY <2>6, <3>1, ConcatProperties, Zenon
    <3>3. Len(w) = 7 /\ \A i \in 1 .. 7 : w[i] = IF i <= 2 THEN f[i] ELSE t[i - 2]
      BY <3>1, <3>2
    <3>4. /\ \A i \in 3 .. 7 : i \in 1 .. 7 /\ ~(i <= 2)
          /\ 1 \in 1 .. 7 /\ 2 \in 1 .. 7 /\ 1 <= 2 /\ 2 <= 2
      OBVIOUS
    <3> QED BY <3>2, <3>3, <3>4, Zenon
  <2>8. w[3] = t[1] /\ w[4] = t[2] /\ w[5] = t[3] /\ w[6] = t[4] /\ w[7] = t[5]
    BY <2>7
  <2> QED BY <2>2, <2>3, <2>5, <2>7, <2>8
\* The agent's name is at one place only, and only its round is before it.
<1>5. ASSUME NEW text \in Seq(Tokens), NEW at \in 1 .. Len(text), NEW n \in 1 .. at - 1, text[n] = Token("round", r),
             text[at] = Token("agent", p),
             \A j \in 1 .. Len(text), q \in DebatePanes : text[j] = Token("agent", q) => j = at,
             \A i \in 1 .. at - 1, s \in 1 .. Rounds : text[i] = Token("round", s) => i = n
      PROVE  Clean(text, said)
  <2>1. ASSUME NEW j \in 1 .. Len(text), NEW q \in DebatePanes, text[j] = Token("agent", q)
        PROVE  CleanAt(text, said, j, q)
    <3>1. j = at /\ q = p
      <4>1. j = at
        BY <1>5, <2>1, Zenon
      <4>2. Token("agent", q) = Token("agent", p)
        BY <1>5, <2>1, <4>1, Zenon
      <4> QED BY <4>1, <4>2, SameAgent, Zenon
    <3>2. text[n] # Space
      BY <1>5, NoSpace, Zenon
    <3>3. ASSUME NEW i \in 1 .. at - 1, NEW s \in 1 .. Rounds, text[i] = Token("round", s)
          PROVE  <<s, p>> \in said
      <4>1. s = r
        <5>1. i = n
          BY <1>5, <3>3, Zenon
        <5>2. Token("round", s) = Token("round", r)
          BY <1>5, <3>3, <5>1, Zenon
        <5> QED BY <5>2, SameRound, Zenon
      <4> QED BY <4>1
    <3> QED BY <3>1, <3>2, <3>3, Zenon DEF CleanAt
  <2> QED BY <2>1, CleanIs, Zenon
<1>6. Clean(m, said)
  <2>1. \A j \in 1 .. 6 : j = 1 \/ j = 2 \/ j = 3 \/ j = 4 \/ j = 5 \/ j = 6
    OBVIOUS
  <2>2. \A j \in 1 .. Len(m), q \in DebatePanes : m[j] = Token("agent", q) => j = 5
    BY <1>2, <2>1, OtherTokens, Zenon DEF NotAgent
  <2>3. \A i \in 1 .. 5 - 1 : i = 1 \/ i = 2 \/ i = 3 \/ i = 4
    OBVIOUS
  <2>4. \A i \in 1 .. 5 - 1, s \in 1 .. Rounds : m[i] = Token("round", s) => i = 3
    BY <1>2, <2>3, OtherTokens, Zenon DEF NotRound
  <2>5. 5 \in 1 .. Len(m) /\ 3 \in 1 .. 5 - 1
    BY <1>2
  <2> QED BY <1>2, <1>5, <2>2, <2>4, <2>5, Zenon
<1>7. Clean(w, said)
  <2>1. \A j \in 1 .. 7 : j = 1 \/ j = 2 \/ j = 3 \/ j = 4 \/ j = 5 \/ j = 6 \/ j = 7
    OBVIOUS
  <2>2. \A j \in 1 .. Len(w), q \in DebatePanes : w[j] = Token("agent", q) => j = 6
    BY <1>2, <1>4, <2>1, OtherTokens, Zenon DEF NotAgent
  <2>3. \A i \in 1 .. 6 - 1 : i = 1 \/ i = 2 \/ i = 3 \/ i = 4 \/ i = 5
    OBVIOUS
  <2>4. \A i \in 1 .. 6 - 1, s \in 1 .. Rounds : w[i] = Token("round", s) => i = 4
    BY <1>2, <1>4, <2>3, OtherTokens, Zenon DEF NotRound
  <2>5. 6 \in 1 .. Len(w) /\ 4 \in 1 .. 6 - 1
    BY <1>4
  <2>6. w[4] = Token("round", r) /\ w[6] = Token("agent", p)
    BY <1>2, <1>4, Zenon
  <2> QED BY <1>4, <1>5, <2>2, <2>4, <2>5, <2>6, Zenon
<1> QED BY <1>1, <1>3, <1>6, <1>7, Zenon

LEMMA CleanSpace ==
    ASSUME NEW said
    PROVE  Clean(<<Space>>, said)
<1>1. PICK s : s = Space
  BY Zenon
<1>2. <<s>> \in Seq(Tokens) /\ \A j \in 1 .. Len(<<s>>) : <<s>>[j] = s
  <2>1. s \in Tokens
    BY <1>1, TokensAre
  <2> QED BY <2>1
<1>3. Clean(<<s>>, said)
  BY <1>1, <1>2, OtherTokens, Zenon DEF Clean, NotAgent
<1> QED BY <1>1, <1>3, Zenon

\* A numbered part of a marker has its number before it.
LEMMA CleanPart ==
    ASSUME NEW said, NEW i \in Nat, NEW part \in Tokens
    PROVE  Clean(<<Token("number", i), Space, part, Space>>, said)
<1>1. PICK s, n, text : s = Space /\ n = Token("number", i) /\ text = <<n, s, part, s>>
  BY Zenon
<1>2. n \in Tokens /\ s \in Tokens
  BY <1>1, TokensAre, Zenon
<1>3. text \in Seq(Tokens) /\ Len(text) = 4 /\ text[1] = n /\ text[2] = s /\ text[3] = part /\ text[4] = s
  BY <1>1, <1>2
<1>4. \A j \in 1 .. 4 : j = 1 \/ j = 2 \/ j = 3 \/ j = 4
  OBVIOUS
<1>5. ASSUME NEW j \in 1 .. Len(text), NEW q \in DebatePanes, text[j] = Token("agent", q)
      PROVE  CleanAt(text, said, j, q)
  <2>1. j = 3
    BY <1>1, <1>3, <1>4, <1>5, OtherTokens, Zenon DEF NotAgent
  <2>2. 1 \in 1 .. 3 - 1 /\ \A k \in 1 .. 3 - 1 : k = 1 \/ k = 2
    OBVIOUS
  <2>3. text[1] # Space
    BY <1>1, <1>3, NoSpace, Zenon
  <2>4. \A k \in 1 .. 3 - 1, r \in 1 .. Rounds : text[k] # Token("round", r)
    BY <1>1, <1>3, <2>2, OtherTokens, Zenon DEF NotRound
  <2> QED BY <2>1, <2>2, <2>3, <2>4, Zenon DEF CleanAt
<1>6. Clean(text, said)
  BY <1>3, <1>5, CleanIs, Zenon
<1> QED BY <1>1, <1>6, Zenon

\* A function on 1 .. k into texts is a sequence of texts.
LEMMA TextsInOrder ==
    ASSUME NEW k \in Nat, NEW f, f = [i \in 1 .. k |-> f[i]], \A i \in 1 .. k : f[i] \in Seq(Tokens)
    PROVE  f \in Seq(Seq(Tokens)) /\ Len(f) = k
<1>1. PICK X : X = Seq(Tokens)
  BY Zenon
<1>2. f \in [1 .. k -> X]
  BY <1>1, Zenon
<1>3. f \in Seq(X) /\ Len(f) = k
  BY <1>2
<1> QED BY <1>1, <1>3, Zenon

\* The marker's parts in a prompt are no marker.
LEMMA CleanParts ==
    ASSUME NEW said, NEW r \in 1 .. Rounds, NEW p \in DebatePanes
    PROVE  Clean(formatMarkerParts(completionMarker(r, p)), said)
<1>1. PICK parts : parts = compactWhitespace(completionMarker(r, p))
  BY Zenon
<1>2. parts \in Seq(Tokens)
  BY <1>1, CompactMarker, Zenon
<1>3. PICK k \in Nat : k = Len(parts) /\ DOMAIN parts = 1 .. k
  BY <1>2
<1>4. PICK f : f = [i \in DOMAIN parts |-> <<Token("number", i), Space, parts[i], Space>>]
  BY Zenon
<1>5. formatMarkerParts(completionMarker(r, p)) = FlattenSeq(f)
  BY <1>1, <1>4, Zenon DEF formatMarkerParts
<1>6. \A i \in 1 .. k : f[i] = <<Token("number", i), Space, parts[i], Space>>
  BY <1>3, <1>4, Zenon
<1>7. f = [i \in 1 .. k |-> f[i]]
  BY <1>3, <1>4
<1>8. ASSUME NEW i \in 1 .. k PROVE Clean(f[i], said) /\ f[i] \in Seq(Tokens)
  <2>1. i \in Nat /\ parts[i] \in Tokens
    BY <1>2, <1>3
  <2>2. Clean(f[i], said)
    BY <1>6, <2>1, CleanPart, Zenon
  <2> QED BY <2>2, Zenon DEF Clean
<1>9. f \in Seq(Seq(Tokens)) /\ Len(f) = k
  BY <1>7, <1>8, TextsInOrder, Zenon
<1> QED BY <1>5, <1>8, <1>9, CleanFlatten, Zenon

\* The answers quoted in a prompt were said.
QuotesSaid(earlier, said) ==
    \A r \in 1 .. Len(earlier), q \in ToSet(Debaters) : r \in earlier[r][q] => <<r, q>> \in said

LEMMA CleanQuoted ==
    ASSUME NEW said, NEW earlier \in Seq(Shown), Len(earlier) <= Rounds, QuotesSaid(earlier, said)
    PROVE  Clean(Quoted(earlier), said)
<1>1. PICK k \in Nat : k = Len(earlier) /\ DOMAIN earlier = 1 .. k
  OBVIOUS
<1>2. PICK d \in Nat : d = Len(Debaters) /\ DOMAIN Debaters = 1 .. d
  BY DebateAssumption
<1> DEFINE Each(r) == [i \in DOMAIN Debaters |-> IF r \in earlier[r][Debaters[i]] THEN completionMarker(r, Debaters[i]) ELSE <<Space>>]
<1>3. PICK f : f = [r \in DOMAIN earlier |-> FlattenSeq(Each(r))]
  BY Zenon
<1>4. Quoted(earlier) = FlattenSeq(f)
  BY <1>3, Zenon DEF Quoted
<1>5. f = [r \in 1 .. k |-> f[r]] /\ \A r \in 1 .. k : f[r] = FlattenSeq(Each(r))
  <2> HIDE DEF Each
  <2> QED BY <1>1, <1>3
<1>6. ASSUME NEW r \in 1 .. k PROVE Clean(f[r], said) /\ f[r] \in Seq(Tokens)
  <2>1. PICK g : g = Each(r)
    BY Zenon
  <2>2. /\ g = [i \in 1 .. d |-> g[i]]
        /\ \A i \in 1 .. d : g[i] = IF r \in earlier[r][Debaters[i]] THEN completionMarker(r, Debaters[i]) ELSE <<Space>>
    <3>1. g = [i \in DOMAIN Debaters |-> IF r \in earlier[r][Debaters[i]] THEN completionMarker(r, Debaters[i]) ELSE <<Space>>]
      BY <2>1, Zenon
    <3> QED BY <1>2, <3>1
  <2>3. r \in 1 .. Rounds /\ r \in 1 .. Len(earlier)
    <3>1. Rounds \in Nat
      BY DebateAssumption
    <3> QED BY <1>1, <3>1
  <2>4. ASSUME NEW i \in 1 .. d PROVE Clean(g[i], said) /\ g[i] \in Seq(Tokens)
    <3>1. Debaters[i] \in ToSet(Debaters) /\ Debaters[i] \in DebatePanes
      BY <1>2 DEF ToSet, DebatePanes
    <3>2. CASE r \in earlier[r][Debaters[i]]
      <4>1. <<r, Debaters[i]>> \in said
        BY <2>3, <3>1, <3>2, Zenon DEF QuotesSaid
      <4>2. Clean(completionMarker(r, Debaters[i]), said)
        BY <2>3, <3>1, <4>1, CleanMarker, Zenon
      <4>3. g[i] = completionMarker(r, Debaters[i])
        BY <2>2, <3>2, Zenon
      <4> QED BY <4>2, <4>3, Zenon DEF Clean
    <3>3. CASE ~(r \in earlier[r][Debaters[i]])
      <4>1. g[i] = <<Space>>
        BY <2>2, <3>3, Zenon
      <4>2. Clean(g[i], said)
        BY <4>1, CleanSpace, Zenon
      <4> QED BY <4>2, Zenon DEF Clean
    <3> QED BY <3>2, <3>3
  <2>5. g \in Seq(Seq(Tokens)) /\ Len(g) = d
    BY <2>2, <2>4, TextsInOrder, Zenon
  <2>6. Clean(FlattenSeq(g), said)
    BY <2>4, <2>5, CleanFlatten, Zenon
  <2>7. Clean(f[r], said)
    BY <1>5, <2>1, <2>6, Zenon
  <2> QED BY <2>7, Zenon DEF Clean
<1>7. f \in Seq(Seq(Tokens)) /\ Len(f) = k
  BY <1>5, <1>6, TextsInOrder, Zenon
<1> QED BY <1>4, <1>6, <1>7, CleanFlatten, Zenon

-----------------------------------------------------------------------------
(* The driver's channel.                                                   *)

\* A channel whose texts are clean.
CleanChan(ch, said) == ch \in DebateChan /\ \A i \in 1 .. Len(ch.buf) : Clean(ch.buf[i].event.text, said)

LEMMA ChanIs ==
    ASSUME NEW ch \in DebateChan
    PROVE  ch.buf \in Seq(DebateItem) /\ ch.lost \in BOOLEAN /\ ch.state \in {"none", "open", "closed"}
BY DEF DebateChan

\* More was said: what is in the channel stays clean.
LEMMA BusGrows ==
    ASSUME NEW b, NEW said, NEW more, DriverBus(b, said), said \subseteq more
    PROVE  DriverBus(b, more)
<1>1. \A i \in 1 .. Len(b.chan[Driver].buf) : Clean(b.chan[Driver].buf[i].event.text, more)
  BY CleanGrows, Zenon DEF DriverBus
<1> QED BY <1>1, Zenon DEF DriverBus

\* The bus after something has happened to its channels.
BusWith(b, k, h, f) == [b EXCEPT !.count = k, !.history = h, !.chan = f]

LEMMA DriverBusIs ==
    ASSUME NEW b, NEW said, DriverBus(b, said), NEW k \in Nat, NEW h, NEW f \in [Subscribers -> DebateChan],
           CleanChan(f[Driver], said)
    PROVE  DriverBus(BusWith(b, k, h, f), said)
<1>1. PICK x, y, z : b = [count |-> x, history |-> y, chan |-> z]
  BY Zenon DEF DriverBus
<1>2. PICK w : w = BusWith(b, k, h, f)
  BY Zenon
<1>3. w = [count |-> k, history |-> h, chan |-> f]
  BY <1>1, <1>2 DEF BusWith
<1>4. w.count = k /\ w.history = h /\ w.chan = f
  BY <1>3
<1>5. DriverBus(w, said)
  BY <1>3, <1>4, Zenon DEF DriverBus, CleanChan
<1> QED BY <1>2, <1>5, Zenon

LEMMA OfferedIsChan ==
    ASSUME NEW ch \in DebateChan, NEW item \in DebateItem
    PROVE  Offered(ch, item) \in DebateChan
<1>1. CASE ch.state # "open"
  BY <1>1 DEF Offered
<1>2. CASE ch.state = "open" /\ Len(ch.buf) < BufferN
  <2>1. PICK a : a = Append(ch.buf, item)
    BY Zenon
  <2>2. a \in Seq(DebateItem)
    BY <2>1, ChanIs
  <2>3. Offered(ch, item) = [ch EXCEPT !.buf = a]
    BY <1>2, <2>1 DEF Offered
  <2> QED BY <2>2, <2>3 DEF DebateChan
<1>3. CASE ch.state = "open" /\ ~(Len(ch.buf) < BufferN)
  <2>1. Offered(ch, item) = [ch EXCEPT !.lost = TRUE]
    BY <1>3 DEF Offered
  <2> QED BY <2>1 DEF DebateChan
<1> QED BY <1>1, <1>2, <1>3

LEMMA OfferedIsClean ==
    ASSUME NEW ch, NEW said, CleanChan(ch, said), NEW item \in DebateItem, Clean(item.event.text, said)
    PROVE  CleanChan(Offered(ch, item), said)
<1>0. ch \in DebateChan /\ \A i \in 1 .. Len(ch.buf) : Clean(ch.buf[i].event.text, said)
  BY Zenon DEF CleanChan
<1>1. CASE ch.state # "open"
  <2>1. Offered(ch, item) = ch
    BY <1>1, Zenon DEF Offered
  <2> QED BY <2>1, Zenon
<1>2. CASE ch.state = "open" /\ Len(ch.buf) < BufferN
  <2>1. PICK a : a = Append(ch.buf, item)
    BY Zenon
  <2>2. PICK s : s = ch.buf
    BY Zenon
  <2>3. s \in Seq(DebateItem)
    BY <1>0, <2>2, ChanIs
  <2>4. /\ Len(s) \in Nat /\ Len(a) = Len(s) + 1
        /\ \A i \in 1 .. Len(s) : a[i] = s[i]
        /\ a[Len(s) + 1] = item
    BY <2>1, <2>2, <2>3
  <2>5. ASSUME NEW i \in 1 .. Len(a) PROVE Clean(a[i].event.text, said)
    <3>1. CASE i = Len(s) + 1
      BY <2>4, <3>1, Zenon
    <3>2. CASE i # Len(s) + 1
      <4>1. i \in 1 .. Len(s)
        BY <2>4, <3>2
      <4> QED BY <1>0, <2>2, <2>4, <4>1, Zenon
    <3> QED BY <3>1, <3>2
  <2>6. PICK v : v = Offered(ch, item)
    BY Zenon
  <2>7. v = [ch EXCEPT !.buf = a]
    BY <1>2, <2>1, <2>6, Zenon DEF Offered
  <2>8. v.buf = a
    BY <1>0, <2>7 DEF DebateChan
  <2>9. v \in DebateChan
    BY <1>0, <2>6, OfferedIsChan, Zenon
  <2> QED BY <2>5, <2>6, <2>8, <2>9, Zenon DEF CleanChan
<1>3. CASE ch.state = "open" /\ ~(Len(ch.buf) < BufferN)
  <2>1. PICK v : v = Offered(ch, item)
    BY Zenon
  <2>2. v = [ch EXCEPT !.lost = TRUE]
    BY <1>3, <2>1, Zenon DEF Offered
  <2>3. v.buf = ch.buf
    BY <1>0, <2>2 DEF DebateChan
  <2>4. v \in DebateChan
    BY <1>0, <2>1, OfferedIsChan, Zenon
  <2> QED BY <1>0, <2>1, <2>3, <2>4, Zenon DEF CleanChan
<1> QED BY <1>1, <1>2, <1>3

LEMMA BusPublishes ==
    ASSUME NEW b, NEW said, DriverBus(b, said), NEW p \in DebatePanes, NEW text, Clean(text, said)
    PROVE  DriverBus(Published(b, [pane |-> p, text |-> text]), said)
<1>1. PICK event : event = [pane |-> p, text |-> text]
  BY Zenon
<1>2. event \in DebateEvent /\ event.text = text
  <2>1. text \in Seq(Tokens)
    BY DEF Clean
  <2> QED BY <1>1, <2>1 DEF DebateEvent
<1>3. b.count \in Nat /\ b.chan \in [Subscribers -> DebateChan] /\ CleanChan(b.chan[Driver], said)
  <2>1. b.count \in Nat /\ b.chan \in [Subscribers -> DebateChan]
    BY Zenon DEF DriverBus
  <2>2. b.chan[Driver] \in DebateChan
    BY <2>1, DebateAssumption
  <2> QED BY <2>1, <2>2, Zenon DEF DriverBus, CleanChan
<1>4. PICK item : item = [n |-> b.count + 1, event |-> event]
  BY Zenon
<1>5. item \in DebateItem /\ item.event = event
  BY <1>2, <1>3, <1>4 DEF DebateItem
<1>6. PICK h : h = IF Len(Append(b.history, item)) > HistoryN THEN LastOf(Append(b.history, item), HistoryN) ELSE Append(b.history, item)
  BY Zenon
<1>7. PICK f : f = [c \in Subscribers |-> Offered(b.chan[c], item)]
  BY Zenon
<1>8. PICK k \in Nat : k = b.count + 1
  BY <1>3
<1>9. Published(b, event) = BusWith(b, k, h, f)
  BY <1>4, <1>6, <1>7, <1>8, Zenon DEF Published, Offered, BusWith
<1>10. f \in [Subscribers -> DebateChan]
  <2>1. \A c \in Subscribers : Offered(b.chan[c], item) \in DebateChan
    BY <1>3, <1>5, OfferedIsChan
  <2> QED BY <1>7, <2>1, Zenon
<1>11. CleanChan(f[Driver], said)
  <2>1. f[Driver] = Offered(b.chan[Driver], item)
    BY <1>7, DebateAssumption, Zenon
  <2>2. CleanChan(Offered(b.chan[Driver], item), said)
    BY <1>2, <1>3, <1>5, OfferedIsClean, Zenon
  <2> QED BY <2>1, <2>2, Zenon
<1>12. DriverBus(BusWith(b, k, h, f), said)
  BY <1>8, <1>10, <1>11, DriverBusIs, Zenon
<1> QED BY <1>1, <1>9, <1>12, Zenon

\* Something happens to the driver's channel.
BusAt(b, ch) == [b EXCEPT !.chan[Driver] = ch]

LEMMA BusChannel ==
    ASSUME NEW b, NEW said, DriverBus(b, said), NEW ch, CleanChan(ch, said)
    PROVE  DriverBus(BusAt(b, ch), said)
<1>1. b.count \in Nat /\ b.chan \in [Subscribers -> DebateChan]
  BY Zenon DEF DriverBus
<1>2. PICK x, y, z : b = [count |-> x, history |-> y, chan |-> z]
  BY Zenon DEF DriverBus
<1>3. x \in Nat /\ z \in [Subscribers -> DebateChan]
  BY <1>1, <1>2
<1>4. ch \in DebateChan
  BY Zenon DEF CleanChan
<1>5. PICK f : f = [z EXCEPT ![Driver] = ch]
  BY Zenon
<1>6. f \in [Subscribers -> DebateChan] /\ f[Driver] = ch
  BY <1>3, <1>4, <1>5, DebateAssumption
<1>7. PICK v, w : v = BusAt(b, ch) /\ w = BusWith(b, x, y, f)
  BY Zenon
<1>8. v = [count |-> x, history |-> y, chan |-> f]
  <2>1. v = [b EXCEPT !.chan[Driver] = ch]
    BY <1>7, Zenon DEF BusAt
  <2> QED BY <1>2, <1>5, <2>1
<1>9. w = [count |-> x, history |-> y, chan |-> f]
  <2>1. w = [b EXCEPT !.count = x, !.history = y, !.chan = f]
    BY <1>7, Zenon DEF BusWith
  <2> QED BY <1>2, <2>1
<1>10. DriverBus(w, said)
  BY <1>3, <1>6, <1>7, DriverBusIs, Zenon
<1> QED BY <1>7, <1>8, <1>9, <1>10, Zenon

LEMMA BusSubscribes ==
    ASSUME NEW b, NEW said, DriverBus(b, said)
    PROVE  DriverBus(Subscribed(b, Driver), said)
<1>1. PICK ch : ch = [Unsubscribed EXCEPT !.state = "open"]
  BY Zenon
<1>2. ch = [state |-> "open", buf |-> <<>>, lost |-> FALSE]
  BY <1>1 DEF Unsubscribed
<1>3. ch \in DebateChan /\ \A i \in 1 .. Len(ch.buf) : FALSE
  BY <1>2 DEF DebateChan
<1>4. CleanChan(ch, said)
  BY <1>3, Zenon DEF CleanChan
<1>5. Subscribed(b, Driver) = BusAt(b, ch)
  BY <1>1, Zenon DEF Subscribed, BusAt
<1> QED BY <1>4, <1>5, BusChannel, Zenon

LEMMA DriverChannel ==
    ASSUME NEW b, NEW said, DriverBus(b, said)
    PROVE  CleanChan(b.chan[Driver], said) /\ b.chan[Driver] \in DebateChan
<1>1. b.chan \in [Subscribers -> DebateChan]
  BY Zenon DEF DriverBus
<1>2. b.chan[Driver] \in DebateChan
  BY <1>1, DebateAssumption
<1> QED BY <1>2, Zenon DEF DriverBus, CleanChan

LEMMA BusUnregisters ==
    ASSUME NEW b, NEW said, DriverBus(b, said)
    PROVE  DriverBus(Unregistered(b, Driver), said)
<1>1. PICK ch : ch = b.chan[Driver]
  BY Zenon
<1>2. ch \in DebateChan /\ CleanChan(ch, said)
  BY <1>1, DriverChannel, Zenon
<1>3. PICK v : v = IF ch.state = "open" THEN "closed" ELSE ch.state
  BY Zenon
<1>4. v \in {"none", "open", "closed"}
  BY <1>2, <1>3, ChanIs
<1>5. PICK w : w = [ch EXCEPT !.state = v]
  BY Zenon
<1>6. w \in DebateChan /\ w.buf = ch.buf
  BY <1>2, <1>4, <1>5 DEF DebateChan
<1>7. CleanChan(w, said)
  BY <1>2, <1>6, Zenon DEF CleanChan
<1>8. Unregistered(b, Driver) = BusAt(b, w)
  BY <1>1, <1>3, <1>5, Zenon DEF Unregistered, BusAt
<1> QED BY <1>7, <1>8, BusChannel, Zenon

LEMMA BusReceives ==
    ASSUME NEW b, NEW said, DriverBus(b, said), Pending(b, Driver)
    PROVE  /\ DriverBus(Rest(b, Driver), said)
           /\ Received(b, Driver).pane \in DebatePanes /\ Clean(Received(b, Driver).text, said)
<1>1. PICK ch : ch = b.chan[Driver]
  BY Zenon
<1>2. ch \in DebateChan /\ CleanChan(ch, said)
  BY <1>1, DriverChannel, Zenon
<1>3. PICK s : s = ch.buf
  BY Zenon
<1>4. s \in Seq(DebateItem) /\ s # <<>>
  BY <1>1, <1>2, <1>3, ChanIs DEF Pending
<1>5. PICK t : t = Tail(s)
  BY Zenon
<1>6. /\ Head(s) = s[1] /\ 1 \in 1 .. Len(s)
      /\ t \in Seq(DebateItem) /\ \A i \in 1 .. Len(t) : i + 1 \in 1 .. Len(s) /\ t[i] = s[i + 1]
  BY <1>4, <1>5, HeadTailProperties
<1>7. Clean(s[1].event.text, said) /\ s[1].event.pane \in DebatePanes
  <2>1. s[1] \in DebateItem
    BY <1>4, <1>6
  <2>2. s[1].event.pane \in DebatePanes
    BY <2>1 DEF DebateItem, DebateEvent
  <2> QED BY <1>2, <1>3, <1>6, <2>2, Zenon DEF CleanChan
<1>8. Received(b, Driver) = s[1].event
  BY <1>1, <1>3, <1>6, Zenon DEF Received
<1>9. PICK w : w = [ch EXCEPT !.buf = t]
  BY Zenon
<1>10. w \in DebateChan /\ w.buf = t
  BY <1>2, <1>6, <1>9 DEF DebateChan
<1>11. CleanChan(w, said)
  BY <1>2, <1>3, <1>6, <1>10, Zenon DEF CleanChan
<1>12. Rest(b, Driver) = BusAt(b, w)
  BY <1>1, <1>3, <1>5, <1>9, Zenon DEF Rest, BusAt
<1> QED BY <1>7, <1>8, <1>11, <1>12, BusChannel, Zenon

LEMMA NewBusIsClean ==
    ASSUME NEW said
    PROVE  DriverBus(NewBus, said)
<1>1. PICK b, f : b = NewBus /\ f = [c \in Subscribers |-> Unsubscribed]
  BY Zenon
<1>2. b = [count |-> 0, history |-> <<>>, chan |-> f]
  BY <1>1, Zenon DEF NewBus
<1>3. b.count = 0 /\ b.history = <<>> /\ b.chan = f
  BY <1>2
<1>4. Unsubscribed \in DebateChan /\ \A i \in 1 .. Len(Unsubscribed.buf) : FALSE
  BY DEF DebateChan, Unsubscribed
<1>5. f \in [Subscribers -> DebateChan] /\ f[Driver] = Unsubscribed
  BY <1>1, <1>4, DebateAssumption, Zenon
<1>6. 0 \in Nat
  OBVIOUS
<1>7. DriverBus(b, said)
  BY <1>2, <1>3, <1>4, <1>5, <1>6, Zenon DEF DriverBus
<1> QED BY <1>1, <1>7, Zenon

-----------------------------------------------------------------------------
(* Rounds.                                                                 *)

\* Statuses that were decided stay; answers that were said stay.
StatusGrows(st, st2) ==
    \A r \in 1 .. Rounds : \A q \in DOMAIN st[r] : q \in DOMAIN st2[r] /\ st2[r][q] = st[r][q]
AnswersGrow(said, said2) == \A p \in DebatePanes : said[p] \subseteq said2[p]

LEMMA SaidGrows ==
    ASSUME NEW said, NEW said2, AnswersGrow(said, said2)
    PROVE  SaidBy(said) \subseteq SaidBy(said2)
BY DEF SaidBy, AnswersGrow

LEMMA ShownIs ==
    ASSUME NEW f
    PROVE  f \in Shown <=>
              /\ DOMAIN f \subseteq ToSet(Debaters) /\ f \in [DOMAIN f -> SUBSET (1 .. Rounds)]
<1>1. ASSUME f \in Shown
      PROVE  DOMAIN f \subseteq ToSet(Debaters) /\ f \in [DOMAIN f -> SUBSET (1 .. Rounds)]
  <2>1. PICK S \in SUBSET ToSet(Debaters) : f \in [S -> SUBSET (1 .. Rounds)]
    BY <1>1, Zenon DEF Shown
  <2> QED BY <2>1
<1>2. ASSUME DOMAIN f \subseteq ToSet(Debaters), f \in [DOMAIN f -> SUBSET (1 .. Rounds)]
      PROVE  f \in Shown
  BY <1>2, Zenon DEF Shown
<1> QED BY <1>1, <1>2

LEMMA RoundGrows ==
    ASSUME NEW st, NEW st2, NEW said, NEW said2, StatusGrows(st, st2), AnswersGrow(said, said2),
           NEW r \in 1 .. Rounds, NEW shown, shown \in Shown, ShowsAnswers(st, said, r, shown)
    PROVE  ShowsAnswers(st2, said2, r, shown)
<1>1. DOMAIN shown \subseteq DebatePanes
  BY ShownIs DEF DebatePanes
<1>2. ASSUME NEW q \in DOMAIN shown
      PROVE  /\ q \in DOMAIN st2[r]
             /\ st2[r][q] = "done" => r \in shown[q]
             /\ shown[q] \subseteq said2[q]
  <2>1. q \in DOMAIN st[r] /\ (st[r][q] = "done" => r \in shown[q]) /\ shown[q] \subseteq said[q]
    BY Zenon DEF ShowsAnswers
  <2>2. q \in DOMAIN st2[r] /\ st2[r][q] = st[r][q]
    BY <2>1, Zenon DEF StatusGrows
  <2>3. said[q] \subseteq said2[q]
    BY <1>1, Zenon DEF AnswersGrow
  <2> QED BY <2>1, <2>2, <2>3, Zenon
<1> QED BY <1>2, Zenon DEF ShowsAnswers

LEMMA WholeRoundsGrow ==
    ASSUME NEW st, NEW st2, NEW said, NEW said2, StatusGrows(st, st2), AnswersGrow(said, said2),
           NEW earlier, earlier \in Seq(Shown), WholeRounds(st, said, earlier)
    PROVE  WholeRounds(st2, said2, earlier)
<1>1. Len(earlier) <= Rounds /\ \A r \in 1 .. Len(earlier) : WholeRound(st, said, r, earlier[r])
  BY Zenon DEF WholeRounds
<1>2. ASSUME NEW r \in 1 .. Len(earlier) PROVE WholeRound(st2, said2, r, earlier[r])
  <2>1. r \in 1 .. Rounds /\ earlier[r] \in Shown
    <3>1. Rounds \in Nat
      BY DebateAssumption
    <3> QED BY <1>1, <3>1
  <2>2. DOMAIN earlier[r] = ToSet(Debaters) /\ ShowsAnswers(st, said, r, earlier[r])
    BY <1>1, Zenon DEF WholeRound
  <2>3. ShowsAnswers(st2, said2, r, earlier[r])
    BY <2>1, <2>2, RoundGrows, Zenon
  <2> QED BY <2>2, <2>3, Zenon DEF WholeRound
<1> QED BY <1>1, <1>2, Zenon DEF WholeRounds

LEMMA NothingLost ==
    ASSUME NEW st, NEW said
    PROVE  StatusGrows(st, st) /\ AnswersGrow(said, said)
BY Zenon DEF StatusGrows, AnswersGrow

LEMMA PromptIs ==
    ASSUME NEW prompt \in Prompt
    PROVE  prompt.round \in 1 .. Rounds /\ prompt.earlier \in Seq(Shown)
BY DEF Prompt

LEMMA PromptGrows ==
    ASSUME NEW st, NEW st2, NEW said, NEW said2, StatusGrows(st, st2), AnswersGrow(said, said2),
           NEW prompt \in Prompt, PromptOK(st, said, prompt)
    PROVE  PromptOK(st2, said2, prompt)
<1>1. prompt.earlier \in Seq(Shown)
  BY PromptIs, Zenon
<1>2. WholeRounds(st, said, prompt.earlier) /\ Len(prompt.earlier) >= prompt.round - 1
  BY Zenon DEF PromptOK
<1>3. WholeRounds(st2, said2, prompt.earlier)
  BY <1>1, <1>2, WholeRoundsGrow, Zenon
<1> QED BY <1>2, <1>3, Zenon DEF PromptOK

\* The prompts a pane has are all in order.
Box(st, said, box) == box \in Seq(Prompt) /\ \A i \in 1 .. Len(box) : PromptOK(st, said, box[i])

LEMMA PromptsAre ==
    ASSUME inbox \in [DebatePanes -> Seq(Prompt)]
    PROVE  PromptsOK <=> \A p \in DebatePanes : Box(statuses, answered, inbox[p])
<1>1. \A p \in DebatePanes : inbox[p] \in Seq(Prompt)
  OBVIOUS
<1> QED BY <1>1, Zenon DEF PromptsOK, Box

LEMMA BoxGrows ==
    ASSUME NEW st, NEW st2, NEW said, NEW said2, StatusGrows(st, st2), AnswersGrow(said, said2),
           NEW box, Box(st, said, box)
    PROVE  Box(st2, said2, box)
<1>1. box \in Seq(Prompt) /\ \A i \in 1 .. Len(box) : PromptOK(st, said, box[i])
  BY Zenon DEF Box
<1>2. \A i \in 1 .. Len(box) : box[i] \in Prompt
  BY <1>1, ElementOfSeq
<1>3. \A i \in 1 .. Len(box) : PromptOK(st2, said2, box[i])
  BY <1>1, <1>2, PromptGrows, Zenon
<1> QED BY <1>1, <1>3, Zenon DEF Box

LEMMA BoxTail ==
    ASSUME NEW st, NEW said, NEW box, Box(st, said, box), box # <<>>
    PROVE  Box(st, said, Tail(box)) /\ Head(box) \in Prompt
<1>1. box \in Seq(Prompt) /\ \A i \in 1 .. Len(box) : PromptOK(st, said, box[i])
  BY Zenon DEF Box
<1>2. PICK t : t = Tail(box)
  BY Zenon
<1>3. /\ t \in Seq(Prompt) /\ Head(box) \in Prompt
      /\ \A i \in 1 .. Len(t) : i + 1 \in 1 .. Len(box) /\ t[i] = box[i + 1]
  BY <1>1, <1>2, HeadTailProperties
<1>4. \A i \in 1 .. Len(t) : PromptOK(st, said, t[i])
  BY <1>1, <1>3, Zenon
<1> QED BY <1>2, <1>3, <1>4, Zenon DEF Box

LEMMA BoxAppend ==
    ASSUME NEW st, NEW said, NEW box, Box(st, said, box), NEW prompt \in Prompt, PromptOK(st, said, prompt)
    PROVE  Box(st, said, Append(box, prompt))
<1>1. box \in Seq(Prompt) /\ \A i \in 1 .. Len(box) : PromptOK(st, said, box[i])
  BY Zenon DEF Box
<1>2. PICK t : t = Append(box, prompt)
  BY Zenon
<1>3. PICK n \in Nat : n = Len(box)
  BY <1>1
<1>4. t \in Seq(Prompt) /\ Len(t) = n + 1 /\ t[n + 1] = prompt /\ \A i \in 1 .. n : t[i] = box[i]
  BY <1>1, <1>2, <1>3
<1>5. ASSUME NEW i \in 1 .. Len(t) PROVE PromptOK(st, said, t[i])
  <2>1. i \in 1 .. n \/ i = n + 1
    BY <1>3, <1>4
  <2>2. CASE i \in 1 .. n
    BY <1>1, <1>3, <1>4, <2>2, Zenon
  <2>3. CASE i = n + 1
    BY <1>4, <2>3, Zenon
  <2> QED BY <2>1, <2>2, <2>3
<1> QED BY <1>2, <1>4, <1>5, Zenon DEF Box

LEMMA BoxLast ==
    ASSUME NEW st, NEW said, NEW box, Box(st, said, box), box # <<>>
    PROVE  Last(box) \in Prompt /\ PromptOK(st, said, Last(box))
<1>1. box \in Seq(Prompt) /\ \A i \in 1 .. Len(box) : PromptOK(st, said, box[i])
  BY Zenon DEF Box
<1>2. Len(box) \in 1 .. Len(box)
  BY <1>1
<1>3. Last(box) = box[Len(box)]
  BY DEF Last
<1>4. box[Len(box)] \in Prompt
  BY <1>1, <1>2, ElementOfSeq
<1> QED BY <1>1, <1>2, <1>3, <1>4, Zenon

\* Nobody takes back what was decided or said, and no prompt has come.
LEMMA InboxKept ==
    ASSUME DebateTypeOK, PromptsOK, inbox' = inbox, StatusGrows(statuses, statuses'), AnswersGrow(answered, answered')
    PROVE  PromptsOK'
<1>1. inbox \in [DebatePanes -> Seq(Prompt)] /\ inbox' \in [DebatePanes -> Seq(Prompt)]
  BY DEF DebateTypeOK
<1>2. \A p \in DebatePanes : Box(statuses, answered, inbox[p])
  BY <1>1, PromptsAre
<1>3. \A p \in DebatePanes : Box(statuses', answered', inbox'[p])
  BY <1>2, BoxGrows, Zenon
<1> QED BY <1>3, Zenon DEF PromptsOK, Box

\* One pane's prompts change.
LEMMA InboxChanges ==
    ASSUME DebateTypeOK, PromptsOK, StatusGrows(statuses, statuses'), AnswersGrow(answered, answered'),
           NEW p \in DebatePanes, NEW box, Box(statuses', answered', box), inbox' = [inbox EXCEPT ![p] = box]
    PROVE  PromptsOK' /\ inbox' \in [DebatePanes -> Seq(Prompt)]
<1>1. inbox \in [DebatePanes -> Seq(Prompt)]
  BY DEF DebateTypeOK
<1>2. \A q \in DebatePanes : Box(statuses, answered, inbox[q])
  BY <1>1, PromptsAre
<1>3. box \in Seq(Prompt)
  BY Zenon DEF Box
<1>4. inbox' \in [DebatePanes -> Seq(Prompt)]
  BY <1>1, <1>3
<1>5. \A q \in DebatePanes : inbox'[q] = IF q = p THEN box ELSE inbox[q]
  BY <1>1
<1>6. ASSUME NEW q \in DebatePanes PROVE Box(statuses', answered', inbox'[q])
  <2>1. CASE q = p
    <3>1. inbox'[q] = box
      BY <1>5, <2>1, Zenon
    <3> QED BY <3>1, Zenon
  <2>2. CASE q # p
    <3>1. inbox'[q] = inbox[q]
      BY <1>5, <2>2, Zenon
    <3>2. Box(statuses', answered', inbox[q])
      BY <1>2, BoxGrows, Zenon
    <3> QED BY <3>1, <3>2, Zenon
  <2> QED BY <2>1, <2>2
<1> QED BY <1>4, <1>6, Zenon DEF PromptsOK, Box

LEMMA DoneGrows ==
    ASSUME NEW st, NEW said, NEW said2, AnswersGrow(said, said2), DoneIsSaid(st, said),
           \A r \in 1 .. Rounds : DOMAIN st[r] \subseteq DebatePanes
    PROVE  DoneIsSaid(st, said2)
BY DEF DoneIsSaid, AnswersGrow

LEMMA RoundsAre == Rounds \in Nat /\ 1 <= Rounds
BY DebateAssumption

LEMMA ShowsAnswersKept ==
    ASSUME DebateTypeOK, StatusGrows(statuses, statuses'), AnswersGrow(answered, answered'),
           NEW r \in 1 .. Len(outputs), Len(outputs) <= Rounds, ShowsAnswers(statuses, answered, r, outputs[r])
    PROVE  ShowsAnswers(statuses', answered', r, outputs[r])
<1>1. outputs \in Seq(Shown)
  BY DEF DebateTypeOK
<1>2. r \in 1 .. Rounds /\ outputs[r] \in Shown
  BY <1>1, RoundsAre, ElementOfSeq
<1> QED BY <1>2, RoundGrows, Zenon

\* While snapshots are taken, no status changes but more may be said.
LEMMA PartlyKept ==
    ASSUME DebateTypeOK, PartlyShown, outputs' = outputs, round' = round, todo' = todo,
           StatusGrows(statuses, statuses'), AnswersGrow(answered, answered')
    PROVE  PartlyShown'
<1>1. PICK n \in 1 .. Rounds : n = round /\ n = Len(outputs)
  BY Zenon DEF PartlyShown, DebateTypeOK
<1>2. /\ ToSet(todo) \union DOMAIN outputs[n] = ToSet(Debaters) /\ ShowsAnswers(statuses, answered, n, outputs[n])
      /\ \A r \in 1 .. n - 1 : WholeRound(statuses, answered, r, outputs[r])
  BY <1>1, Zenon DEF PartlyShown
<1>3. n \in 1 .. Len(outputs) /\ Len(outputs) <= Rounds /\ \A r \in 1 .. n - 1 : r \in 1 .. Len(outputs)
  BY <1>1
<1>4. ShowsAnswers(statuses', answered', n, outputs[n])
  BY <1>2, <1>3, ShowsAnswersKept, Zenon
<1>5. ASSUME NEW r \in 1 .. n - 1 PROVE WholeRound(statuses', answered', r, outputs[r])
  <2>1. DOMAIN outputs[r] = ToSet(Debaters) /\ ShowsAnswers(statuses, answered, r, outputs[r])
    BY <1>2, Zenon DEF WholeRound
  <2>2. ShowsAnswers(statuses', answered', r, outputs[r])
    BY <1>3, <2>1, ShowsAnswersKept, Zenon
  <2> QED BY <2>1, <2>2, Zenon DEF WholeRound
<1>6. Len(outputs') = n /\ round' = n /\ outputs' = outputs /\ todo' = todo
  BY <1>1, Zenon
<1> QED BY <1>2, <1>4, <1>5, <1>6, Zenon DEF PartlyShown

LEMMA RoundsKept ==
    ASSUME DebateTypeOK, WholeRounds(statuses, answered, outputs), outputs' = outputs,
           StatusGrows(statuses, statuses'), AnswersGrow(answered, answered')
    PROVE  WholeRounds(statuses', answered', outputs')
<1>1. outputs \in Seq(Shown)
  BY DEF DebateTypeOK
<1> QED BY <1>1, WholeRoundsGrow, Zenon

\* A pane has shown something: more may have been said.
LEMMA StageKept ==
    ASSUME DebateTypeOK, StageOK, UNCHANGED <<stage, round, todo, awaited, statuses, outputs>>,
           AnswersGrow(answered, answered')
    PROVE  StageOK'
<1>1. /\ stage' = stage /\ round' = round /\ todo' = todo /\ awaited' = awaited /\ statuses' = statuses
      /\ outputs' = outputs
  OBVIOUS
<1>2. StatusGrows(statuses, statuses')
  BY <1>1, NothingLost, Zenon
<1>3. PartlyShown => PartlyShown'
  BY <1>1, <1>2, PartlyKept, Zenon
<1>4. WholeRounds(statuses, answered, outputs) => WholeRounds(statuses', answered', outputs')
  BY <1>1, <1>2, RoundsKept, Zenon
<1>5. Rounds \in answered[Coordinator] => Rounds \in answered'[Coordinator]
  BY DEF AnswersGrow, DebatePanes
<1>6. /\ stage' \in {"plan", "prompt"} => todo' # <<>> /\ Len(outputs') = round' - 1
      /\ stage' \in {"open", "wait"} =>
            \/ awaited' = ToSet(Debaters) /\ Len(outputs') = round' - 1
            \/ awaited' = {Coordinator} /\ Len(outputs') = round' /\ round' = Rounds
  BY <1>1 DEF StageOK
<1>7. stage' = "snapshot" =>
          /\ todo' # <<>> /\ ToSet(Debaters) \subseteq DOMAIN statuses'[round']
          /\ \/ Len(outputs') = round' - 1 /\ ToSet(todo') = ToSet(Debaters)
             \/ PartlyShown'
  BY <1>1, <1>3, Zenon DEF StageOK
<1>8. /\ stage' \in {"synthesis", "final", "success"} => Len(outputs') = Rounds /\ round' = Rounds
      /\ stage' \in {"final", "success"} => Rounds \in answered'[Coordinator]
  BY <1>1, <1>5, Zenon DEF StageOK
<1>9. /\ stage' \notin {"snapshot", "failed"} => WholeRounds(statuses', answered', outputs')
      /\ stage' = "snapshot" /\ Len(outputs') # round' => WholeRounds(statuses', answered', outputs')
  BY <1>1, <1>4, Zenon DEF StageOK
<1> QED BY <1>6, <1>7, <1>8, <1>9, Zenon DEF StageOK

\* A step of a pane that shows a text of what was said.
LEMMA PaneShows ==
    ASSUME DebateInv, NEW p \in DebatePanes, NEW text, Shows(p, text),
           answered' \in [DebatePanes -> SUBSET (1 .. Rounds)], echoes' \in Nat,
           AnswersGrow(answered, answered'), Clean(text, SaidBy(answered')),
           UNCHANGED <<stage, round, todo, awaited, statuses, outputs>>,
           PromptsOK', inbox' \in [DebatePanes -> Seq(Prompt)]
    PROVE  DebateInv'
<1>1. DebateTypeOK /\ ChannelOK /\ PromptsOK /\ StageOK /\ DoneIsSaid(statuses, answered)
  BY DEF DebateInv
<1>2. /\ stage' = stage /\ round' = round /\ todo' = todo /\ awaited' = awaited /\ statuses' = statuses
      /\ outputs' = outputs
  OBVIOUS
<1>3. StageOK'
  BY <1>1, StageKept, Zenon
<1>4. DoneIsSaid(statuses', answered')
  <2>1. \A r \in 1 .. Rounds : DOMAIN statuses[r] \subseteq DebatePanes
    BY <1>1 DEF DebateTypeOK
  <2>2. DoneIsSaid(statuses, answered')
    BY <1>1, <2>1, DoneGrows, Zenon
  <2> QED BY <1>2, <2>2, Zenon
<1>5. DriverBus(bus, SaidBy(answered'))
  BY <1>1, SaidGrows, BusGrows, Zenon DEF ChannelOK
<1>6. DriverBus(Published(bus, [pane |-> p, text |-> text]), SaidBy(answered'))
  BY <1>5, BusPublishes, Zenon
<1>7. ChannelOK'
  BY <1>6, Zenon DEF ChannelOK, Shows
<1>8. DebateTypeOK'
  BY <1>1, <1>2 DEF DebateTypeOK
<1> QED BY <1>3, <1>4, <1>7, <1>8, Zenon DEF DebateInv

LEMMA StepAnswers ==
    ASSUME DebateInv, NEW p \in DebatePanes, PaneAnswers(p)
    PROVE  DebateInv'
<1>1. DebateTypeOK /\ PromptsOK
  BY DEF DebateInv
<1>2. PICK prompt : prompt = Head(inbox[p])
  BY Zenon
<1>3. PICK r : r = prompt.round
  BY Zenon
<1>4. PICK m : m = completionMarker(r, p)
  BY Zenon
<1>5. /\ inbox[p] # <<>> /\ inbox' = [inbox EXCEPT ![p] = Tail(inbox[p])]
      /\ answered' = [answered EXCEPT ![p] = answered[p] \union {r}]
      /\ Shows(p, m) \/ Shows(p, Wrapped(m))
      /\ UNCHANGED <<stage, round, todo, awaited, statuses, outputs, echoes>>
  BY <1>2, <1>3, <1>4, Zenon DEF PaneAnswers
<1>6. /\ inbox \in [DebatePanes -> Seq(Prompt)] /\ answered \in [DebatePanes -> SUBSET (1 .. Rounds)]
      /\ echoes' \in Nat /\ statuses' = statuses
  BY <1>1, <1>5 DEF DebateTypeOK
<1>7. Box(statuses, answered, inbox[p])
  BY <1>1, <1>6, PromptsAre, Zenon
<1>8. Box(statuses, answered, Tail(inbox[p])) /\ prompt \in Prompt
  BY <1>2, <1>5, <1>7, BoxTail, Zenon
<1>9. r \in 1 .. Rounds
  BY <1>3, <1>8, PromptIs, Zenon
<1>10. /\ answered' \in [DebatePanes -> SUBSET (1 .. Rounds)] /\ r \in answered'[p]
       /\ \A q \in DebatePanes : answered[q] \subseteq answered'[q]
  BY <1>5, <1>6, <1>9
<1>11. AnswersGrow(answered, answered') /\ StatusGrows(statuses, statuses')
  BY <1>6, <1>10, NothingLost, Zenon DEF AnswersGrow
<1>12. Box(statuses', answered', Tail(inbox[p]))
  BY <1>8, <1>11, BoxGrows, Zenon
<1>13. PromptsOK' /\ inbox' \in [DebatePanes -> Seq(Prompt)]
  BY <1>1, <1>5, <1>11, <1>12, InboxChanges, Zenon
<1>14. <<r, p>> \in SaidBy(answered')
  BY <1>9, <1>10 DEF SaidBy
<1>15. Clean(m, SaidBy(answered')) /\ Clean(Wrapped(m), SaidBy(answered'))
  BY <1>4, <1>9, <1>14, CleanMarker, Zenon
<1>16. UNCHANGED <<stage, round, todo, awaited, statuses, outputs>>
  BY <1>5
<1>17. CASE Shows(p, m)
  BY <1>6, <1>10, <1>11, <1>13, <1>15, <1>16, <1>17, PaneShows, Zenon
<1>18. CASE Shows(p, Wrapped(m))
  BY <1>6, <1>10, <1>11, <1>13, <1>15, <1>16, <1>18, PaneShows, Zenon
<1> QED BY <1>5, <1>17, <1>18

\* A pane that only shows something again.
LEMMA PaneRepeats ==
    ASSUME DebateInv, NEW p \in DebatePanes, NEW text, Shows(p, text), Clean(text, SaidBy(answered)),
           echoes' = echoes + 1, UNCHANGED <<stage, round, todo, awaited, statuses, outputs, inbox, answered>>
    PROVE  DebateInv'
<1>1. DebateTypeOK /\ PromptsOK
  BY DEF DebateInv
<1>2. inbox' = inbox /\ answered' = answered /\ statuses' = statuses
  OBVIOUS
<1>3. AnswersGrow(answered, answered') /\ StatusGrows(statuses, statuses')
  BY <1>2, NothingLost, Zenon
<1>4. /\ answered' \in [DebatePanes -> SUBSET (1 .. Rounds)] /\ echoes' \in Nat
      /\ inbox' \in [DebatePanes -> Seq(Prompt)]
  BY <1>1, <1>2 DEF DebateTypeOK
<1>5. PromptsOK'
  BY <1>1, <1>2, <1>3, InboxKept, Zenon
<1>6. Clean(text, SaidBy(answered'))
  BY <1>2, Zenon
<1>7. UNCHANGED <<stage, round, todo, awaited, statuses, outputs>>
  OBVIOUS
<1> QED BY <1>3, <1>4, <1>5, <1>6, <1>7, PaneShows, Zenon

\* What whole rounds have shown, the panes have said.
LEMMA RoundsAreSaid ==
    ASSUME NEW st, NEW said, NEW earlier \in Seq(Shown), WholeRounds(st, said, earlier)
    PROVE  Len(earlier) <= Rounds /\ QuotesSaid(earlier, SaidBy(said))
<1>1. Len(earlier) <= Rounds /\ \A r \in 1 .. Len(earlier) : WholeRound(st, said, r, earlier[r])
  BY Zenon DEF WholeRounds
<1>2. ASSUME NEW r \in 1 .. Len(earlier), NEW q \in ToSet(Debaters), r \in earlier[r][q]
      PROVE  <<r, q>> \in SaidBy(said)
  <2>1. DOMAIN earlier[r] = ToSet(Debaters) /\ earlier[r][q] \subseteq said[q]
    BY <1>1, Zenon DEF WholeRound, ShowsAnswers
  <2>2. r \in 1 .. Rounds /\ r \in said[q] /\ q \in DebatePanes
    BY <1>1, <1>2, <2>1, RoundsAre DEF DebatePanes
  <2> QED BY <2>2 DEF SaidBy
<1> QED BY <1>1, <1>2, Zenon DEF QuotesSaid

LEMMA StepEchoes ==
    ASSUME DebateInv, NEW p \in DebatePanes, PaneEchoes(p)
    PROVE  DebateInv'
<1>1. DebateTypeOK /\ PromptsOK
  BY DEF DebateInv
<1>2. PICK prompt : prompt = Last(inbox[p])
  BY Zenon
<1>3. PICK text : text = IF p = Coordinator THEN Quoted(prompt.earlier) ELSE roundPrompt(prompt, p)
  BY Zenon
<1>4. /\ inbox[p] # <<>> /\ echoes' = echoes + 1 /\ Shows(p, text)
      /\ UNCHANGED <<stage, round, todo, awaited, statuses, outputs, inbox, answered>>
  BY <1>2, <1>3, Zenon DEF PaneEchoes
<1>5. inbox \in [DebatePanes -> Seq(Prompt)]
  BY <1>1 DEF DebateTypeOK
<1>6. Box(statuses, answered, inbox[p])
  BY <1>1, <1>5, PromptsAre, Zenon
<1>7. prompt \in Prompt /\ PromptOK(statuses, answered, prompt)
  BY <1>2, <1>4, <1>6, BoxLast, Zenon
<1>8. prompt.round \in 1 .. Rounds /\ prompt.earlier \in Seq(Shown)
  BY <1>7, PromptIs, Zenon
<1>9. WholeRounds(statuses, answered, prompt.earlier)
  BY <1>7, Zenon DEF PromptOK
<1>10. Len(prompt.earlier) <= Rounds /\ QuotesSaid(prompt.earlier, SaidBy(answered))
  BY <1>8, <1>9, RoundsAreSaid, Zenon
<1>11. Clean(Quoted(prompt.earlier), SaidBy(answered))
  BY <1>8, <1>10, CleanQuoted, Zenon
<1>12. Clean(formatMarkerParts(completionMarker(prompt.round, p)), SaidBy(answered))
  BY <1>8, CleanParts, Zenon
<1>13. Clean(roundPrompt(prompt, p), SaidBy(answered))
  BY <1>11, <1>12, CleanConcat, Zenon DEF roundPrompt
<1>14. Clean(text, SaidBy(answered))
  BY <1>3, <1>11, <1>13, Zenon
<1> QED BY <1>4, <1>14, PaneRepeats, Zenon

\* There are at most three rounds, so that some answer is the last.
LEMMA LastAnswer ==
    ASSUME NEW S \in SUBSET (1 .. Rounds), S # {}
    PROVE  \E r \in S : \A s \in S : s <= r
<1>1. S \subseteq 1 .. 3
  BY DebateAssumption
<1>2. CASE 3 \in S
  <2>1. \A s \in S : s <= 3
    BY <1>1
  <2> QED BY <1>2, <2>1
<1>3. CASE 3 \notin S /\ 2 \in S
  <2>1. \A s \in S : s <= 2
    BY <1>1, <1>3
  <2> QED BY <1>3, <2>1
<1>4. CASE 3 \notin S /\ 2 \notin S
  <2>1. PICK r : r \in S
    OBVIOUS
  <2>2. ASSUME NEW s \in S PROVE s = 1
    <3>1. s \in 1 .. 3 /\ s # 3 /\ s # 2
      BY <1>1, <1>4
    <3> QED BY <3>1
  <2>3. r = 1
    BY <2>1, <2>2
  <2>4. \A s \in S : s <= r
    BY <2>2, <2>3
  <2> QED BY <2>1, <2>4
<1> QED BY <1>2, <1>3, <1>4

LEMMA StepRedraws ==
    ASSUME DebateInv, NEW p \in DebatePanes, PaneRedraws(p)
    PROVE  DebateInv'
<1>1. answered[p] \in SUBSET (1 .. Rounds) /\ answered[p] # {}
  BY DEF DebateInv, DebateTypeOK, PaneRedraws
<1>2. PICK r : r = CHOOSE n \in answered[p] : \A s \in answered[p] : s <= n
  BY Zenon
<1>3. r \in answered[p]
  BY <1>1, <1>2, LastAnswer, Zenon
<1>4. r \in 1 .. Rounds
  BY <1>1, <1>3
<1>5. <<r, p>> \in SaidBy(answered)
  BY <1>3, <1>4 DEF SaidBy
<1>6. Clean(completionMarker(r, p), SaidBy(answered))
  BY <1>4, <1>5, CleanMarker, Zenon
<1>7. /\ echoes' = echoes + 1 /\ Shows(p, completionMarker(r, p))
      /\ UNCHANGED <<stage, round, todo, awaited, statuses, outputs, inbox, answered>>
  BY <1>2, Zenon DEF PaneRedraws
<1> QED BY <1>6, <1>7, PaneRepeats, Zenon

\* The debate fails.
LEMMA StepFails ==
    ASSUME DebateInv, Fails
    PROVE  DebateInv'
<1>1. DebateTypeOK /\ ChannelOK /\ PromptsOK /\ DoneIsSaid(statuses, answered)
  BY DEF DebateInv
<1>2. /\ stage' = "failed" /\ bus' = Unregistered(bus, Driver) /\ round' = round /\ todo' = todo
      /\ awaited' = awaited /\ statuses' = statuses /\ outputs' = outputs /\ inbox' = inbox
      /\ answered' = answered /\ echoes' = echoes
  BY DEF Fails
<1>3. DebateTypeOK'
  BY <1>1, <1>2 DEF DebateTypeOK, DebateStage
<1>4. DriverBus(Unregistered(bus, Driver), SaidBy(answered))
  BY <1>1, BusUnregisters, Zenon DEF ChannelOK
<1>5. ChannelOK'
  BY <1>2, <1>4, Zenon DEF ChannelOK
<1>6. PromptsOK'
  BY <1>1, <1>2, Zenon DEF PromptsOK
<1>7. StageOK'
  BY <1>2 DEF StageOK
<1>8. DoneIsSaid(statuses', answered')
  BY <1>1, <1>2, Zenon
<1> QED BY <1>3, <1>5, <1>6, <1>7, <1>8, Zenon DEF DebateInv

LEMMA StepOpens ==
    ASSUME DebateInv, OpenStream
    PROVE  DebateInv'
<1>1. DebateTypeOK /\ ChannelOK /\ PromptsOK /\ StageOK /\ DoneIsSaid(statuses, answered)
  BY DEF DebateInv
<1>2. /\ stage = "open" /\ stage' = "wait" /\ bus' = Subscribed(bus, Driver) /\ round' = round /\ todo' = todo
      /\ awaited' = awaited /\ statuses' = statuses /\ outputs' = outputs /\ inbox' = inbox
      /\ answered' = answered /\ echoes' = echoes
  BY DEF OpenStream
<1>3. DebateTypeOK'
  BY <1>1, <1>2 DEF DebateTypeOK, DebateStage
<1>4. DriverBus(Subscribed(bus, Driver), SaidBy(answered))
  BY <1>1, BusSubscribes, Zenon DEF ChannelOK
<1>5. ChannelOK'
  BY <1>2, <1>4, Zenon DEF ChannelOK
<1>6. PromptsOK'
  BY <1>1, <1>2, Zenon DEF PromptsOK
<1>7. StageOK'
  BY <1>1, <1>2 DEF StageOK
<1>8. DoneIsSaid(statuses', answered')
  BY <1>1, <1>2, Zenon
<1> QED BY <1>3, <1>5, <1>6, <1>7, <1>8, Zenon DEF DebateInv

\* Only the stage moves on.
LEMMA StepMovesOn ==
    ASSUME DebateInv, SubmitPlan \/ FinalSnapshot
    PROVE  DebateInv'
<1>1. DebateTypeOK /\ ChannelOK /\ PromptsOK /\ StageOK /\ DoneIsSaid(statuses, answered)
  BY DEF DebateInv
<1>2. /\ bus' = bus /\ round' = round /\ todo' = todo
      /\ awaited' = awaited /\ statuses' = statuses /\ outputs' = outputs /\ inbox' = inbox
      /\ answered' = answered /\ echoes' = echoes
  BY DEF SubmitPlan, FinalSnapshot
<1>3. \/ stage = "plan" /\ stage' = "prompt"
      \/ stage = "final" /\ stage' = "success"
  BY Zenon DEF SubmitPlan, FinalSnapshot
<1>4. DebateTypeOK'
  BY <1>1, <1>2, <1>3 DEF DebateTypeOK, DebateStage
<1>5. ChannelOK'
  BY <1>1, <1>2, Zenon DEF ChannelOK
<1>6. PromptsOK'
  BY <1>1, <1>2, Zenon DEF PromptsOK
<1>7. StageOK'
  BY <1>1, <1>2, <1>3 DEF StageOK
<1>8. DoneIsSaid(statuses', answered')
  BY <1>1, <1>2, Zenon
<1> QED BY <1>4, <1>5, <1>6, <1>7, <1>8, Zenon DEF DebateInv

LEMMA DebatersAre ==
    Debaters \in Seq(ToSet(Debaters)) /\ Debaters # <<>> /\ ToSet(Debaters) \subseteq DebatePanes /\ Coordinator \in DebatePanes
<1>1. Debaters \in Seq(STRING) /\ Debaters # <<>>
  BY DebateAssumption
<1>2. Debaters \in Seq(ToSet(Debaters))
  BY <1>1 DEF ToSet
<1> QED BY <1>1, <1>2 DEF DebatePanes

LEMMA TodoIs ==
    ASSUME NEW S, NEW s \in Seq(S), s # <<>>
    PROVE  /\ Head(s) \in S /\ Tail(s) \in Seq(S) /\ ToSet(s) = {Head(s)} \union ToSet(Tail(s))
           /\ Len(s) > 1 => Tail(s) # <<>>
           /\ ~(Len(s) > 1) => Len(s) = 1 /\ ToSet(Tail(s)) = {}
<1>1. PICK n \in Nat : n = Len(s) /\ n >= 1
  <2>1. Len(s) \in Nat /\ Len(s) >= 1
    OBVIOUS
  <2> QED BY <2>1, Zenon
<1>2. PICK t : t = Tail(s)
  BY Zenon
<1>3. t \in Seq(S) /\ Len(t) = n - 1 /\ Head(s) \in S /\ Head(s) = s[1] /\ \A i \in 1 .. n - 1 : t[i] = s[i + 1]
  BY <1>1, <1>2, HeadTailProperties
<1>4. /\ \A x : x \in ToSet(s) <=> \E i \in 1 .. n : s[i] = x
      /\ \A x : x \in ToSet(t) <=> \E i \in 1 .. n - 1 : t[i] = x
  BY <1>1, <1>3 DEF ToSet
<1>5. ASSUME NEW x PROVE x \in ToSet(s) <=> x = s[1] \/ x \in ToSet(t)
  <2>1. ASSUME x \in ToSet(s) PROVE x = s[1] \/ x \in ToSet(t)
    <3>1. PICK i \in 1 .. n : s[i] = x
      BY <1>4, <2>1
    <3>2. CASE i = 1
      BY <3>1, <3>2
    <3>3. CASE i # 1
      <4>1. i - 1 \in 1 .. n - 1 /\ (i - 1) + 1 = i
        BY <3>1, <3>3
      <4>2. t[i - 1] = x
        BY <1>3, <3>1, <4>1
      <4> QED BY <1>4, <4>1, <4>2
    <3> QED BY <3>2, <3>3
  <2>2. ASSUME x = s[1] PROVE x \in ToSet(s)
    <3>1. 1 \in 1 .. n
      BY <1>1
    <3> QED BY <1>4, <2>2, <3>1
  <2>3. ASSUME x \in ToSet(t) PROVE x \in ToSet(s)
    <3>1. PICK i \in 1 .. n - 1 : t[i] = x
      BY <1>4, <2>3
    <3>2. i + 1 \in 1 .. n /\ s[i + 1] = x
      BY <1>3, <3>1
    <3> QED BY <1>4, <3>2
  <2> QED BY <2>1, <2>2, <2>3
<1>6. ToSet(s) = {s[1]} \union ToSet(t)
  BY <1>5
<1>7. n > 1 => t # <<>>
  <2>1. n > 1 => n - 1 # 0
    BY <1>1
  <2>2. t = <<>> => Len(t) = 0
    OBVIOUS
  <2> QED BY <1>3, <2>1, <2>2, Zenon
<1>8. ~(n > 1) => n = 1 /\ ToSet(t) = {}
  <2>1. ASSUME ~(n > 1) PROVE n = 1 /\ ToSet(t) = {}
    <3>1. n = 1 /\ 1 .. n - 1 = {}
      BY <1>1, <2>1
    <3>2. \A x : x \notin ToSet(t)
      BY <1>4, <3>1
    <3> QED BY <3>1, <3>2
  <2> QED BY <2>1
<1> QED BY <1>1, <1>2, <1>3, <1>6, <1>7, <1>8, Zenon

\* A prompt with all that was shown so far.
LEMMA NewPrompt ==
    ASSUME DebateTypeOK, NEW n \in 1 .. Rounds, WholeRounds(statuses, answered, outputs), Len(outputs) >= n - 1
    PROVE  LET prompt == [round |-> n, earlier |-> outputs]
           IN  prompt \in Prompt /\ PromptOK(statuses, answered, prompt)
<1>1. PICK prompt : prompt = [round |-> n, earlier |-> outputs]
  BY Zenon
<1>2. outputs \in Seq(Shown)
  BY DEF DebateTypeOK
<1>3. prompt.round = n /\ prompt.earlier = outputs /\ prompt \in Prompt
  BY <1>1, <1>2 DEF Prompt
<1>4. PromptOK(statuses, answered, prompt)
  BY <1>3, Zenon DEF PromptOK
<1> QED BY <1>1, <1>3, <1>4, Zenon

LEMMA Prompted ==
    ASSUME DebateInv, NEW p \in DebatePanes, NEW n \in 1 .. Rounds, WholeRounds(statuses, answered, outputs),
           Len(outputs) >= n - 1, UNCHANGED <<statuses, answered>>,
           inbox' = [inbox EXCEPT ![p] = Append(inbox[p], [round |-> n, earlier |-> outputs])]
    PROVE  PromptsOK' /\ inbox' \in [DebatePanes -> Seq(Prompt)]
<1>1. DebateTypeOK /\ PromptsOK
  BY DEF DebateInv
<1>2. PICK prompt : prompt = [round |-> n, earlier |-> outputs]
  BY Zenon
<1>3. prompt \in Prompt /\ PromptOK(statuses, answered, prompt)
  BY <1>1, <1>2, NewPrompt, Zenon
<1>4. inbox \in [DebatePanes -> Seq(Prompt)]
  BY <1>1 DEF DebateTypeOK
<1>5. Box(statuses, answered, inbox[p])
  BY <1>1, <1>4, PromptsAre, Zenon
<1>6. Box(statuses, answered, Append(inbox[p], prompt))
  BY <1>3, <1>5, BoxAppend, Zenon
<1>7. statuses' = statuses /\ answered' = answered
  OBVIOUS
<1>8. Box(statuses', answered', Append(inbox[p], prompt)) /\ StatusGrows(statuses, statuses') /\ AnswersGrow(answered, answered')
  BY <1>6, <1>7, NothingLost, Zenon
<1>9. inbox' = [inbox EXCEPT ![p] = Append(inbox[p], prompt)]
  BY <1>2, Zenon
<1> QED BY <1>1, <1>8, <1>9, InboxChanges, Zenon

LEMMA StepPrompts ==
    ASSUME DebateInv, SendPrompt
    PROVE  DebateInv'
<1>1. DebateTypeOK /\ ChannelOK /\ PromptsOK /\ StageOK /\ DoneIsSaid(statuses, answered)
  BY DEF DebateInv
<1>2. /\ stage = "prompt" /\ todo' = Tail(todo)
      /\ inbox' = [inbox EXCEPT ![Head(todo)] = Append(inbox[Head(todo)], [round |-> round, earlier |-> outputs])]
      /\ bus' = bus /\ round' = round /\ statuses' = statuses /\ outputs' = outputs
      /\ answered' = answered /\ echoes' = echoes
  BY DEF SendPrompt
<1>3. \/ Len(todo) > 1 /\ stage' = stage /\ awaited' = awaited
      \/ stage' = "open" /\ awaited' = ToSet(Debaters)
  BY DEF SendPrompt
<1>4. todo # <<>> /\ Len(outputs) = round - 1 /\ WholeRounds(statuses, answered, outputs)
  BY <1>1, <1>2 DEF StageOK
<1>5. /\ todo \in Seq(ToSet(Debaters)) /\ round \in 1 .. Rounds /\ outputs \in Seq(Shown)
  BY <1>1 DEF DebateTypeOK
<1>6. Head(todo) \in DebatePanes /\ Tail(todo) \in Seq(ToSet(Debaters)) /\ (Len(todo) > 1 => Tail(todo) # <<>>)
  <2>1. Head(todo) \in ToSet(Debaters) /\ Tail(todo) \in Seq(ToSet(Debaters)) /\ (Len(todo) > 1 => Tail(todo) # <<>>)
    BY <1>4, <1>5, TodoIs, Zenon
  <2> QED BY <2>1, DebatersAre
<1>7. Len(outputs) >= round - 1
  BY <1>4, <1>5
<1>8. PromptsOK' /\ inbox' \in [DebatePanes -> Seq(Prompt)]
  BY <1>2, <1>4, <1>5, <1>6, <1>7, Prompted, Zenon
<1>9. awaited' \subseteq DebatePanes /\ stage' \in DebateStage
  BY <1>1, <1>3, DebatersAre DEF DebateTypeOK, DebateStage
<1>10. DebateTypeOK'
  BY <1>1, <1>2, <1>6, <1>8, <1>9 DEF DebateTypeOK
<1>11. ChannelOK' /\ DoneIsSaid(statuses', answered') /\ WholeRounds(statuses', answered', outputs')
  BY <1>1, <1>2, <1>4, Zenon DEF ChannelOK
<1>12. StageOK'
  <2>1. CASE Len(todo) > 1 /\ stage' = stage
    <3>1. stage' = "prompt" /\ todo' # <<>> /\ Len(outputs') = round' - 1
      BY <1>2, <1>4, <1>6, <2>1
    <3> QED BY <1>11, <3>1 DEF StageOK
  <2>2. CASE stage' = "open" /\ awaited' = ToSet(Debaters)
    <3>1. Len(outputs') = round' - 1
      BY <1>2, <1>4
    <3> QED BY <1>11, <2>2, <3>1 DEF StageOK
  <2> QED BY <1>3, <2>1, <2>2
<1> QED BY <1>8, <1>10, <1>11, <1>12, Zenon DEF DebateInv

LEMMA StepSynthesis ==
    ASSUME DebateInv, SendSynthesis
    PROVE  DebateInv'
<1>1. DebateTypeOK /\ ChannelOK /\ PromptsOK /\ StageOK /\ DoneIsSaid(statuses, answered)
  BY DEF DebateInv
<1>2. /\ stage = "synthesis" /\ stage' = "open" /\ awaited' = {Coordinator}
      /\ inbox' = [inbox EXCEPT ![Coordinator] = Append(inbox[Coordinator], [round |-> Rounds, earlier |-> outputs])]
      /\ bus' = bus /\ round' = round /\ statuses' = statuses /\ outputs' = outputs
      /\ answered' = answered /\ echoes' = echoes /\ todo' = todo
  BY DEF SendSynthesis
<1>3. Len(outputs) = Rounds /\ round = Rounds /\ WholeRounds(statuses, answered, outputs)
  BY <1>1, <1>2 DEF StageOK
<1>4. Rounds \in 1 .. Rounds /\ Len(outputs) >= Rounds - 1
  BY <1>3, RoundsAre
<1>5. PromptsOK' /\ inbox' \in [DebatePanes -> Seq(Prompt)]
  BY <1>2, <1>3, <1>4, Prompted, DebatersAre, Zenon
<1>6. DebateTypeOK'
  BY <1>1, <1>2, <1>5, DebatersAre DEF DebateTypeOK, DebateStage
<1>7. ChannelOK' /\ DoneIsSaid(statuses', answered') /\ WholeRounds(statuses', answered', outputs')
  BY <1>1, <1>2, <1>3, Zenon DEF ChannelOK
<1>8. StageOK'
  BY <1>2, <1>3, <1>7 DEF StageOK
<1> QED BY <1>5, <1>6, <1>7, <1>8, Zenon DEF DebateInv

\* Decide adds statuses of panes that had none.
Extends(st, panes, status) ==
    /\ st = [r \in 1 .. Rounds |-> st[r]]
    /\ \A r \in 1 .. Rounds : DOMAIN st[r] \subseteq DebatePanes
    /\ StatusGrows(statuses, st)
    /\ \A r \in 1 .. Rounds : \A p \in DOMAIN st[r] :
          \/ p \in DOMAIN statuses[r] /\ st[r][p] = statuses[r][p]
          \/ r = round /\ p \in panes /\ st[r][p] = status

LEMMA DecideIs ==
    ASSUME DebateTypeOK, NEW panes \in SUBSET DebatePanes, NEW status,
           \A p \in panes : p \notin DOMAIN statuses[round]
    PROVE  Extends(Decide(panes, status), panes, status)
<1>1. PICK st : st = Decide(panes, status)
  BY Zenon
<1>2. PICK old : old = statuses[round]
  BY Zenon
<1>3. PICK new : new = [p \in DOMAIN old \union panes |-> IF p \in panes THEN status ELSE old[p]]
  BY Zenon
<1>4. st = [statuses EXCEPT ![round] = new]
  BY <1>1, <1>2, <1>3, Zenon DEF Decide
<1>5. /\ round \in 1 .. Rounds /\ statuses = [r \in 1 .. Rounds |-> statuses[r]]
      /\ \A r \in 1 .. Rounds : DOMAIN statuses[r] \subseteq DebatePanes
  BY DEF DebateTypeOK
<1>6. st = [r \in 1 .. Rounds |-> IF r = round THEN new ELSE statuses[r]]
  BY <1>4, <1>5, Zenon
<1>7. \A r \in 1 .. Rounds : st[r] = IF r = round THEN new ELSE statuses[r]
  BY <1>6
<1>8. /\ DOMAIN new = DOMAIN old \union panes
      /\ \A p \in DOMAIN new : new[p] = IF p \in panes THEN status ELSE old[p]
  BY <1>3
<1>9. st = [r \in 1 .. Rounds |-> st[r]]
  BY <1>6
<1>10. \A r \in 1 .. Rounds : DOMAIN st[r] \subseteq DebatePanes
  BY <1>2, <1>5, <1>7, <1>8
<1>11. StatusGrows(statuses, st)
  <2>1. ASSUME NEW r \in 1 .. Rounds, NEW q \in DOMAIN statuses[r]
        PROVE  q \in DOMAIN st[r] /\ st[r][q] = statuses[r][q]
    <3>1. CASE r = round
      <4>1. st[r] = new /\ statuses[r] = old /\ q \in DOMAIN old /\ q \notin panes
        BY <1>2, <1>7, <2>1, <3>1
      <4> QED BY <1>8, <4>1
    <3>2. CASE r # round
      <4>1. st[r] = statuses[r]
        BY <1>7, <3>2
      <4> QED BY <2>1, <4>1, Zenon
    <3> QED BY <3>1, <3>2
  <2> QED BY <2>1, Zenon DEF StatusGrows
<1>12. ASSUME NEW r \in 1 .. Rounds, NEW p \in DOMAIN st[r]
       PROVE  \/ p \in DOMAIN statuses[r] /\ st[r][p] = statuses[r][p]
              \/ r = round /\ p \in panes /\ st[r][p] = status
  <2>1. CASE r = round
    <3>1. st[r] = new /\ statuses[r] = old
      BY <1>2, <1>7, <2>1
    <3> QED BY <1>8, <2>1, <3>1
  <2>2. CASE r # round
    <3>1. st[r] = statuses[r]
      BY <1>7, <2>2
    <3> QED BY <3>1
  <2> QED BY <2>1, <2>2
<1>13. Extends(st, panes, status)
  BY <1>9, <1>10, <1>11, <1>12, Zenon DEF Extends
<1> QED BY <1>1, <1>13, Zenon

\* The driver decides about panes of which it knew nothing, and as done only about those that have answered.
LEMMA Decided ==
    ASSUME DebateInv, stage = "wait", NEW panes \in SUBSET Missing, NEW status,
           status = "done" => \A p \in panes : round \in answered[p],
           statuses' = Decide(panes, status), DriverBus(bus', SaidBy(answered)),
           UNCHANGED <<stage, round, todo, awaited, outputs, inbox, answered, echoes>>
    PROVE  DebateInv'
<1>1. DebateTypeOK /\ PromptsOK /\ StageOK /\ DoneIsSaid(statuses, answered)
  BY DEF DebateInv
<1>2. /\ stage' = stage /\ round' = round /\ todo' = todo /\ awaited' = awaited
      /\ outputs' = outputs /\ inbox' = inbox /\ answered' = answered /\ echoes' = echoes
  OBVIOUS
<1>3. panes \in SUBSET DebatePanes /\ \A p \in panes : p \notin DOMAIN statuses[round]
  BY <1>1 DEF Missing, DebateTypeOK
<1>4. PICK st : st = Decide(panes, status)
  BY Zenon
<1>5. Extends(st, panes, status)
  BY <1>1, <1>3, <1>4, DecideIs, Zenon
<1>6. /\ st = [r \in 1 .. Rounds |-> st[r]] /\ \A r \in 1 .. Rounds : DOMAIN st[r] \subseteq DebatePanes
      /\ StatusGrows(statuses, st)
  BY <1>5, Zenon DEF Extends
<1>6a. \A r \in 1 .. Rounds : \A p \in DOMAIN st[r] :
          \/ p \in DOMAIN statuses[r] /\ st[r][p] = statuses[r][p]
          \/ r = round /\ p \in panes /\ st[r][p] = status
  BY <1>5, Zenon DEF Extends
<1>7. statuses' = st
  BY <1>4, Zenon
<1>8. StatusGrows(statuses, statuses') /\ AnswersGrow(answered, answered')
  BY <1>2, <1>6, <1>7, NothingLost, Zenon
<1>9. DebateTypeOK'
  BY <1>1, <1>2, <1>6, <1>7, Zenon DEF DebateTypeOK
<1>10. ChannelOK'
  BY <1>2, Zenon DEF ChannelOK
<1>11. PromptsOK'
  BY <1>1, <1>2, <1>8, InboxKept, Zenon
<1>12. WholeRounds(statuses', answered', outputs')
  <2>1. WholeRounds(statuses, answered, outputs)
    BY <1>1 DEF StageOK
  <2> QED BY <1>1, <1>2, <1>8, <2>1, RoundsKept, Zenon
<1>13. StageOK'
  <2>1. stage' = "wait"
    BY <1>2
  <2>2. \/ awaited' = ToSet(Debaters) /\ Len(outputs') = round' - 1
        \/ awaited' = {Coordinator} /\ Len(outputs') = round' /\ round' = Rounds
    BY <1>1, <1>2 DEF StageOK
  <2> QED BY <1>12, <2>1, <2>2 DEF StageOK
<1>14. ASSUME NEW r \in 1 .. Rounds, NEW p \in DOMAIN st[r], st[r][p] = "done"
       PROVE  r \in answered[p]
  <2>1. CASE p \in DOMAIN statuses[r] /\ st[r][p] = statuses[r][p]
    BY <1>1, <1>14, <2>1, Zenon DEF DoneIsSaid
  <2>2. CASE r = round /\ p \in panes /\ st[r][p] = status
    BY <1>14, <2>2, Zenon
  <2> QED BY <1>6a, <2>1, <2>2, Zenon
<1>15. DoneIsSaid(statuses', answered')
  BY <1>2, <1>7, <1>14, Zenon DEF DoneIsSaid
<1> QED BY <1>9, <1>10, <1>11, <1>13, <1>15, Zenon DEF DebateInv

LEMMA StepTimeouts ==
    ASSUME DebateInv, markTimeouts
    PROVE  DebateInv'
<1>1. /\ stage = "wait" /\ bus' = bus /\ statuses' = Decide(Missing, "timed_out")
      /\ UNCHANGED <<stage, round, todo, awaited, outputs, inbox, answered, echoes>>
  BY DEF markTimeouts
<1>2. DriverBus(bus', SaidBy(answered))
  BY <1>1, Zenon DEF DebateInv, ChannelOK
<1>3. Missing \in SUBSET Missing /\ "timed_out" # "done"
  OBVIOUS
<1> QED BY <1>1, <1>2, <1>3, Decided, Zenon

LEMMA NothingDecided ==
    ASSUME DebateInv, DriverBus(bus', SaidBy(answered)),
           UNCHANGED <<stage, round, todo, awaited, statuses, outputs, inbox, answered, echoes>>
    PROVE  DebateInv'
<1>1. DebateTypeOK /\ PromptsOK /\ StageOK /\ DoneIsSaid(statuses, answered)
  BY DEF DebateInv
<1>2. /\ stage' = stage /\ round' = round /\ todo' = todo /\ awaited' = awaited /\ statuses' = statuses
      /\ outputs' = outputs /\ inbox' = inbox /\ answered' = answered /\ echoes' = echoes
  OBVIOUS
<1>3. DebateTypeOK'
  BY <1>1, <1>2, Zenon DEF DebateTypeOK
<1>4. ChannelOK' /\ DoneIsSaid(statuses', answered')
  BY <1>1, <1>2, Zenon DEF ChannelOK
<1>5. PromptsOK'
  BY <1>1, <1>2, Zenon DEF PromptsOK
<1>6. StageOK'
  BY <1>1, <1>2, Zenon DEF StageOK, PartlyShown
<1> QED BY <1>3, <1>4, <1>5, <1>6, Zenon DEF DebateInv

LEMMA StepReceives ==
    ASSUME DebateInv, ReceiveEvent
    PROVE  DebateInv'
<1>1. DebateTypeOK /\ DriverBus(bus, SaidBy(answered))
  BY DEF DebateInv, ChannelOK
<1>2. PICK p, text : p = Received(bus, Driver).pane /\ text = Received(bus, Driver).text
  BY Zenon
<1>3. /\ stage = "wait" /\ Pending(bus, Driver) /\ bus' = Rest(bus, Driver)
      /\ UNCHANGED <<stage, round, todo, awaited, outputs, inbox, answered, echoes>>
  BY Zenon DEF ReceiveEvent
<1>4. \/ p \in Missing /\ markerMatches(text, completionMarker(round, p)) /\ statuses' = Decide({p}, "done")
      \/ statuses' = statuses
  BY <1>2 DEF ReceiveEvent
<1>5. DriverBus(bus', SaidBy(answered)) /\ p \in DebatePanes /\ Clean(text, SaidBy(answered))
  BY <1>1, <1>2, <1>3, BusReceives, Zenon
<1>6. CASE p \in Missing /\ markerMatches(text, completionMarker(round, p)) /\ statuses' = Decide({p}, "done")
  <2>1. round \in 1 .. Rounds
    BY <1>1 DEF DebateTypeOK
  <2>2. <<round, p>> \in SaidBy(answered)
    BY <1>5, <1>6, <2>1, MatchMeansSaid, Zenon
  <2>3. round \in answered[p]
    BY <2>2 DEF SaidBy
  <2>4. {p} \in SUBSET Missing /\ \A q \in {p} : round \in answered[q]
    BY <1>6, <2>3
  <2> QED BY <1>3, <1>5, <1>6, <2>4, Decided, Zenon
<1>7. CASE statuses' = statuses
  <2>1. UNCHANGED <<stage, round, todo, awaited, statuses, outputs, inbox, answered, echoes>>
    BY <1>3, <1>7
  <2> QED BY <1>5, <2>1, NothingDecided, Zenon
<1> QED BY <1>4, <1>6, <1>7

LEMMA StepWaitEnds ==
    ASSUME DebateInv, WaitEnds
    PROVE  DebateInv'
<1>1. DebateTypeOK /\ ChannelOK /\ PromptsOK /\ StageOK /\ DoneIsSaid(statuses, answered)
  BY DEF DebateInv
<1>2. /\ stage = "wait" /\ Missing = {} /\ bus' = Unregistered(bus, Driver) /\ round' = round /\ todo' = Debaters
      /\ awaited' = awaited /\ statuses' = statuses /\ outputs' = outputs /\ inbox' = inbox
      /\ answered' = answered /\ echoes' = echoes
  BY DEF WaitEnds
<1>3. stage' = IF awaited # {Coordinator} THEN "snapshot"
               ELSE IF statuses[round][Coordinator] = "done" THEN "final" ELSE "failed"
  BY DEF WaitEnds
<1>4. DebateTypeOK'
  BY <1>1, <1>2, <1>3, DebatersAre DEF DebateTypeOK, DebateStage
<1>5. DriverBus(Unregistered(bus, Driver), SaidBy(answered))
  BY <1>1, BusUnregisters, Zenon DEF ChannelOK
<1>6. ChannelOK'
  BY <1>2, <1>5, Zenon DEF ChannelOK
<1>7. PromptsOK'
  BY <1>1, <1>2, Zenon DEF PromptsOK
<1>8. WholeRounds(statuses, answered, outputs) /\ awaited \subseteq DOMAIN statuses[round]
  BY <1>1, <1>2 DEF StageOK, Missing
<1>9. WholeRounds(statuses', answered', outputs') /\ DoneIsSaid(statuses', answered')
  BY <1>1, <1>2, <1>8, Zenon
<1>10. \/ awaited = ToSet(Debaters) /\ Len(outputs) = round - 1
       \/ awaited = {Coordinator} /\ Len(outputs) = round /\ round = Rounds
  BY <1>1, <1>2 DEF StageOK
<1>11. StageOK'
  <2>1. CASE awaited # {Coordinator}
    <3>1. stage' = "snapshot" /\ Len(outputs') = round' - 1 /\ ToSet(Debaters) \subseteq DOMAIN statuses'[round']
      BY <1>2, <1>3, <1>8, <1>10, <2>1
    <3>2. todo' # <<>> /\ ToSet(todo') = ToSet(Debaters)
      BY <1>2, DebatersAre, Zenon
    <3> QED BY <1>9, <3>1, <3>2, Zenon DEF StageOK
  <2>2. CASE awaited = {Coordinator} /\ statuses[round][Coordinator] = "done"
    <3>1. stage' = "final"
      BY <1>3, <2>2
    <3>2. awaited # ToSet(Debaters)
      BY <2>2, DebateAssumption
    <3>3. Len(outputs') = Rounds /\ round' = Rounds /\ round = Rounds /\ round \in 1 .. Rounds
      BY <1>1, <1>2, <1>10, <3>2 DEF DebateTypeOK
    <3>4. Coordinator \in DOMAIN statuses[round]
      BY <1>8, <2>2
    <3>5. Rounds \in answered'[Coordinator]
      BY <1>1, <1>2, <2>2, <3>3, <3>4, Zenon DEF DoneIsSaid
    <3> QED BY <1>9, <3>1, <3>3, <3>5, Zenon DEF StageOK
  <2>3. CASE awaited = {Coordinator} /\ statuses[round][Coordinator] # "done"
    <3>1. stage' = "failed"
      BY <1>3, <2>3
    <3> QED BY <3>1 DEF StageOK
  <2> QED BY <2>1, <2>2, <2>3
<1> QED BY <1>4, <1>6, <1>7, <1>9, <1>11, Zenon DEF DebateInv

\* A pane more among those shown.
LEMMA SnapshotIs ==
    ASSUME DebateTypeOK, DoneIsSaid(statuses, answered), NEW p \in ToSet(Debaters), p \in DOMAIN statuses[round],
           NEW base \in Shown, ShowsAnswers(statuses, answered, round, base)
    PROVE  LET shown == WithSnapshot(base, p)
           IN  shown \in Shown /\ DOMAIN shown = DOMAIN base \union {p} /\ ShowsAnswers(statuses, answered, round, shown)
<1>1. PICK shown : shown = WithSnapshot(base, p)
  BY Zenon
<1>2. DOMAIN base \subseteq ToSet(Debaters) /\ base \in [DOMAIN base -> SUBSET (1 .. Rounds)]
  BY ShownIs, Zenon
<1>3. answered[p] \in SUBSET (1 .. Rounds) /\ round \in 1 .. Rounds
  BY DebatersAre DEF DebateTypeOK
<1>4. shown = [q \in DOMAIN base \union {p} |-> IF q = p THEN answered[p] ELSE base[q]]
  BY <1>1, Zenon DEF WithSnapshot
<1>5. /\ DOMAIN shown = DOMAIN base \union {p}
      /\ \A q \in DOMAIN shown : shown[q] = IF q = p THEN answered[p] ELSE base[q]
  BY <1>4
<1>6. shown \in Shown
  <2>1. shown \in [DOMAIN base \union {p} -> SUBSET (1 .. Rounds)]
    BY <1>2, <1>3, <1>4
  <2>2. DOMAIN shown \subseteq ToSet(Debaters) /\ shown \in [DOMAIN shown -> SUBSET (1 .. Rounds)]
    BY <1>2, <1>5, <2>1
  <2> QED BY <2>2, ShownIs, Zenon
<1>7. ASSUME NEW q \in DOMAIN shown
      PROVE  /\ q \in DOMAIN statuses[round]
             /\ statuses[round][q] = "done" => round \in shown[q]
             /\ shown[q] \subseteq answered[q]
  <2>1. CASE q = p
    <3>1. shown[q] = answered[q] /\ q \in DOMAIN statuses[round]
      BY <1>5, <2>1
    <3>2. statuses[round][q] = "done" => round \in answered[q]
      BY <1>3, <3>1, Zenon DEF DoneIsSaid
    <3> QED BY <3>1, <3>2, Zenon
  <2>2. CASE q # p
    <3>1. q \in DOMAIN base /\ shown[q] = base[q]
      BY <1>5, <2>2
    <3> QED BY <3>1, Zenon DEF ShowsAnswers
  <2> QED BY <2>1, <2>2
<1>8. ShowsAnswers(statuses, answered, round, shown)
  BY <1>7, Zenon DEF ShowsAnswers
<1> QED BY <1>1, <1>5, <1>6, <1>8, Zenon

LEMMA EmptyIsShown ==
    Empty \in Shown /\ DOMAIN Empty = {} /\ ShowsAnswers(statuses, answered, round, Empty)
<1>1. DOMAIN Empty = {} /\ Empty \in [DOMAIN Empty -> SUBSET (1 .. Rounds)] /\ DOMAIN Empty \subseteq ToSet(Debaters)
  BY DEF Empty
<1>2. Empty \in Shown
  BY <1>1, ShownIs, Zenon
<1>3. ShowsAnswers(statuses, answered, round, Empty)
  BY <1>1 DEF ShowsAnswers
<1> QED BY <1>1, <1>2, <1>3

LEMMA AppendIs ==
    ASSUME NEW S, NEW seq \in Seq(S), NEW x \in S, NEW n \in Nat, Len(seq) = n - 1, NEW longer, longer = Append(seq, x)
    PROVE  longer \in Seq(S) /\ Len(longer) = n /\ longer[n] = x /\ \A r \in 1 .. n - 1 : longer[r] = seq[r]
OBVIOUS

\* What has been shown once the next pane is snapshotted.
Snapshotted(out, p) ==
    IF Len(out) < round THEN Append(out, WithSnapshot(Empty, p)) ELSE [out EXCEPT ![round] = WithSnapshot(@, p)]

LEMMA SnapshottedIs ==
    ASSUME DebateInv, stage = "snapshot", NEW n, n = round, NEW out, out = Snapshotted(outputs, Head(todo))
    PROVE  /\ n \in 1 .. Rounds /\ out \in Seq(Shown) /\ Len(out) = n
           /\ ShowsAnswers(statuses, answered, n, out[n])
           /\ ToSet(Tail(todo)) \union DOMAIN out[n] = ToSet(Debaters)
           /\ \A r \in 1 .. n - 1 : WholeRound(statuses, answered, r, out[r])
<1>1. DebateTypeOK /\ StageOK /\ DoneIsSaid(statuses, answered)
  BY DEF DebateInv
<1>2. /\ n \in 1 .. Rounds /\ outputs \in Seq(Shown) /\ todo \in Seq(ToSet(Debaters))
  BY <1>1 DEF DebateTypeOK
<1>3. todo # <<>> /\ ToSet(Debaters) \subseteq DOMAIN statuses[n]
  BY <1>1 DEF StageOK
<1>4. PICK p : p = Head(todo)
  BY Zenon
<1>5. p \in ToSet(Debaters) /\ ToSet(todo) = {p} \union ToSet(Tail(todo))
  BY <1>2, <1>3, <1>4, TodoIs, Zenon
<1>6. p \in DOMAIN statuses[n]
  BY <1>3, <1>5
<1>7. \/ Len(outputs) = n - 1 /\ ToSet(todo) = ToSet(Debaters) /\ WholeRounds(statuses, answered, outputs)
      \/ PartlyShown
  <2>1. n - 1 # n
    BY <1>2
  <2> QED BY <1>1, <2>1, Zenon DEF StageOK
<1>8. CASE Len(outputs) = n - 1 /\ ToSet(todo) = ToSet(Debaters) /\ WholeRounds(statuses, answered, outputs)
  <2>1. PICK shown : shown = WithSnapshot(Empty, p)
    BY Zenon
  <2>2. shown \in Shown /\ DOMAIN shown = DOMAIN Empty \union {p} /\ ShowsAnswers(statuses, answered, n, shown)
    BY <1>1, <1>5, <1>6, <2>1, EmptyIsShown, SnapshotIs, Zenon
  <2>3. DOMAIN shown = {p}
    BY <2>2, EmptyIsShown
  <2>4. Len(outputs) < n
    BY <1>2, <1>8
  <2>5. out = Append(outputs, shown)
    BY <1>4, <2>1, <2>4, Zenon DEF Snapshotted
  <2>6. out \in Seq(Shown) /\ Len(out) = n /\ out[n] = shown /\ \A r \in 1 .. n - 1 : out[r] = outputs[r]
    <3>1. n \in Nat
      BY <1>2
    <3>2. outputs \in Seq(Shown) /\ shown \in Shown /\ Len(outputs) = n - 1
      BY <1>2, <1>8, <2>2
    <3> QED BY <2>5, <3>1, <3>2, AppendIs
  <2>7. ToSet(Tail(todo)) \union DOMAIN out[n] = ToSet(Debaters)
    BY <1>5, <1>8, <2>3, <2>6
  <2>8. \A r \in 1 .. n - 1 : WholeRound(statuses, answered, r, out[r])
    BY <1>8, <2>6, Zenon DEF WholeRounds
  <2> QED BY <1>2, <2>2, <2>6, <2>7, <2>8, Zenon
<1>9. CASE PartlyShown
  <2>0. /\ Len(outputs) = n /\ ToSet(todo) \union DOMAIN outputs[n] = ToSet(Debaters)
        /\ ShowsAnswers(statuses, answered, n, outputs[n])
        /\ \A r \in 1 .. n - 1 : WholeRound(statuses, answered, r, outputs[r])
    BY <1>9, Zenon DEF PartlyShown
  <2>1. PICK base : base = outputs[n]
    BY Zenon
  <2>2. base \in Shown
    BY <1>2, <2>0, <2>1
  <2>3. PICK shown : shown = WithSnapshot(base, p)
    BY Zenon
  <2>4. shown \in Shown /\ DOMAIN shown = DOMAIN base \union {p} /\ ShowsAnswers(statuses, answered, n, shown)
    BY <1>1, <1>5, <1>6, <2>0, <2>1, <2>2, <2>3, SnapshotIs, Zenon
  <2>5. ~(Len(outputs) < n)
    BY <1>2, <2>0
  <2>6. out = [outputs EXCEPT ![n] = shown]
    BY <1>4, <2>1, <2>3, <2>5, Zenon DEF Snapshotted
  <2>7. out \in Seq(Shown) /\ Len(out) = n /\ out[n] = shown /\ \A r \in 1 .. n - 1 : out[r] = outputs[r]
    BY <1>2, <2>0, <2>4, <2>6
  <2>8. ToSet(Tail(todo)) \union DOMAIN out[n] = ToSet(Debaters)
    <3>1. out[n] = shown
      BY <2>7
    <3> QED BY <1>5, <2>0, <2>1, <2>4, <3>1
  <2>9. \A r \in 1 .. n - 1 : WholeRound(statuses, answered, r, out[r])
    BY <2>0, <2>7, Zenon
  <2> QED BY <1>2, <2>4, <2>7, <2>8, <2>9, Zenon
<1> QED BY <1>7, <1>8, <1>9

LEMMA StepSnapshots ==
    ASSUME DebateInv, SnapshotOutput
    PROVE  DebateInv'
<1>1. DebateTypeOK /\ ChannelOK /\ PromptsOK /\ StageOK /\ DoneIsSaid(statuses, answered)
  BY DEF DebateInv
<1>2. /\ stage = "snapshot" /\ bus' = bus /\ awaited' = awaited /\ statuses' = statuses /\ inbox' = inbox
      /\ answered' = answered /\ echoes' = echoes
  BY DEF SnapshotOutput
<1>3. /\ todo' = IF Len(todo) > 1 THEN Tail(todo) ELSE Debaters
      /\ round' = IF Len(todo) = 1 /\ round < Rounds THEN round + 1 ELSE round
      /\ stage' = IF Len(todo) > 1 THEN stage ELSE IF round < Rounds THEN "prompt" ELSE "synthesis"
  BY DEF SnapshotOutput
<1>4. PICK n, out : n = round /\ out = Snapshotted(outputs, Head(todo))
  BY Zenon
<1>5. outputs' = out
  BY <1>4, Zenon DEF SnapshotOutput, Snapshotted
<1>6. n \in 1 .. Rounds /\ out \in Seq(Shown) /\ Len(out) = n
  BY <1>2, <1>4, SnapshottedIs, Zenon
<1>7. /\ ShowsAnswers(statuses, answered, n, out[n])
      /\ ToSet(Tail(todo)) \union DOMAIN out[n] = ToSet(Debaters)
  BY <1>2, <1>4, SnapshottedIs, Zenon
<1>8. \A r \in 1 .. n - 1 : WholeRound(statuses, answered, r, out[r])
  BY <1>2, <1>4, SnapshottedIs, Zenon
<1>9. todo \in Seq(ToSet(Debaters)) /\ todo # <<>> /\ ToSet(Debaters) \subseteq DOMAIN statuses[n]
  BY <1>1, <1>2, <1>4, Zenon DEF DebateTypeOK, StageOK
<1>10. /\ Tail(todo) \in Seq(ToSet(Debaters))
       /\ Len(todo) > 1 => Tail(todo) # <<>>
  BY <1>9, TodoIs, Zenon
<1>11. ~(Len(todo) > 1) => Len(todo) = 1 /\ ToSet(Tail(todo)) = {}
  BY <1>9, TodoIs, Zenon
<1>12. ChannelOK' /\ DoneIsSaid(statuses', answered')
  BY <1>1, <1>2, Zenon DEF ChannelOK
<1>13. PromptsOK'
  BY <1>1, <1>2, Zenon DEF PromptsOK
<1>14. todo' \in Seq(ToSet(Debaters)) /\ todo' # <<>>
  BY <1>3, <1>10, DebatersAre, Zenon
<1>15. CASE Len(todo) > 1
  <2>1. todo' = Tail(todo) /\ stage' = "snapshot"
    BY <1>2, <1>3, <1>15, Zenon
  <2>2. round' = n
    <3>1. ~(1 > 1)
      OBVIOUS
    <3> QED BY <1>3, <1>4, <1>15, <3>1, Zenon
  <2>3. PartlyShown'
    BY <1>2, <1>5, <1>6, <1>7, <1>8, <2>1, <2>2, Zenon DEF PartlyShown
  <2>4. ToSet(Debaters) \subseteq DOMAIN statuses'[round'] /\ Len(outputs') = round'
    BY <1>2, <1>5, <1>6, <1>9, <2>2, Zenon
  <2>5. StageOK'
    BY <1>14, <2>1, <2>3, <2>4, Zenon DEF StageOK
  <2>6. round' \in 1 .. Rounds /\ stage' \in DebateStage /\ outputs' \in Seq(Shown)
    BY <1>5, <1>6, <2>1, <2>2 DEF DebateStage
  <2>7. DebateTypeOK'
    BY <1>1, <1>2, <1>14, <2>6, Zenon DEF DebateTypeOK
  <2> QED BY <1>12, <1>13, <2>5, <2>7, Zenon DEF DebateInv
<1>16. CASE ~(Len(todo) > 1)
  <2>1. Len(todo) = 1 /\ ToSet(Tail(todo)) = {}
    BY <1>11, <1>16, Zenon
  <2>2. WholeRound(statuses, answered, n, out[n])
    <3>1. DOMAIN out[n] = ToSet(Debaters)
      BY <1>7, <2>1
    <3> QED BY <1>7, <3>1, Zenon DEF WholeRound
  <2>3. ASSUME NEW r \in 1 .. n PROVE WholeRound(statuses, answered, r, out[r])
    <3>1. r = n \/ r \in 1 .. n - 1
      BY <1>6
    <3> QED BY <1>8, <2>2, <3>1, Zenon
  <2>4. WholeRounds(statuses', answered', outputs')
    <3>1. Len(out) <= Rounds
      BY <1>6
    <3>2. WholeRounds(statuses, answered, out)
      BY <1>6, <2>3, <3>1, Zenon DEF WholeRounds
    <3> QED BY <1>2, <1>5, <3>2, Zenon
  <2>5. CASE n < Rounds
    <3>1. round' = n + 1 /\ stage' = "prompt"
      BY <1>3, <1>4, <1>16, <2>1, <2>5, Zenon
    <3>2. round' \in 1 .. Rounds /\ Len(outputs') = round' - 1
      BY <1>5, <1>6, <2>5, <3>1, RoundsAre
    <3>3. stage' \in DebateStage /\ outputs' \in Seq(Shown)
      BY <1>5, <1>6, <3>1 DEF DebateStage
    <3>4. DebateTypeOK'
      BY <1>1, <1>2, <1>14, <3>2, <3>3, Zenon DEF DebateTypeOK
    <3>5. StageOK'
      BY <1>14, <2>4, <3>1, <3>2, Zenon DEF StageOK
    <3> QED BY <1>12, <1>13, <3>4, <3>5, Zenon DEF DebateInv
  <2>6. CASE ~(n < Rounds)
    <3>1. round' = n /\ stage' = "synthesis"
      BY <1>3, <1>4, <1>16, <2>6, Zenon
    <3>2. round' \in 1 .. Rounds /\ Len(outputs') = Rounds /\ round' = Rounds
      BY <1>5, <1>6, <2>6, <3>1, RoundsAre
    <3>3. stage' \in DebateStage /\ outputs' \in Seq(Shown)
      BY <1>5, <1>6, <3>1 DEF DebateStage
    <3>4. DebateTypeOK'
      BY <1>1, <1>2, <1>14, <3>2, <3>3, Zenon DEF DebateTypeOK
    <3>5. StageOK'
      BY <2>4, <3>1, <3>2, Zenon DEF StageOK
    <3> QED BY <1>12, <1>13, <3>4, <3>5, Zenon DEF DebateInv
  <2> QED BY <2>5, <2>6
<1> QED BY <1>15, <1>16

LEMMA DebateStarts ==
    ASSUME DebateInit
    PROVE  DebateInv
<1>1. /\ bus = NewBus /\ stage = "plan" /\ round = 1 /\ todo = Debaters /\ awaited = {}
      /\ statuses = [r \in 1 .. Rounds |-> Empty] /\ outputs = <<>>
      /\ inbox = [p \in DebatePanes |-> <<>>] /\ answered = [p \in DebatePanes |-> {}] /\ echoes = 0
  BY DEF DebateInit
<1>2. \A r \in 1 .. Rounds : statuses[r] = Empty /\ DOMAIN statuses[r] = {}
  BY <1>1, EmptyIsShown
<1>3. outputs \in Seq(Shown) /\ Len(outputs) = 0
  BY <1>1
<1>4. inbox \in [DebatePanes -> Seq(Prompt)] /\ \A p \in DebatePanes : Len(inbox[p]) = 0
  BY <1>1
<1>5. round \in 1 .. Rounds /\ answered \in [DebatePanes -> SUBSET (1 .. Rounds)]
  BY <1>1, RoundsAre
<1>6. statuses = [r \in 1 .. Rounds |-> statuses[r]] /\ \A r \in 1 .. Rounds : DOMAIN statuses[r] \subseteq DebatePanes
  BY <1>1, <1>2
<1>7. todo \in Seq(ToSet(Debaters)) /\ todo # <<>>
  BY <1>1, DebatersAre, Zenon
<1>8. DebateTypeOK
  BY <1>1, <1>3, <1>4, <1>5, <1>6, <1>7 DEF DebateTypeOK, DebateStage
<1>9. ChannelOK
  BY <1>1, NewBusIsClean, Zenon DEF ChannelOK
<1>10. PromptsOK
  BY <1>4 DEF PromptsOK
<1>11. DoneIsSaid(statuses, answered)
  BY <1>2 DEF DoneIsSaid
<1>12. WholeRounds(statuses, answered, outputs)
  BY <1>3, RoundsAre DEF WholeRounds
<1>13. StageOK
  BY <1>1, <1>3, <1>7, <1>12 DEF StageOK
<1> QED BY <1>8, <1>9, <1>10, <1>11, <1>13, Zenon DEF DebateInv

LEMMA DebateSteps ==
    ASSUME DebateInv, [DebateNext]_debateVars
    PROVE  DebateInv'
<1>1. CASE UNCHANGED debateVars
  <2>1. bus' = bus /\ UNCHANGED <<stage, round, todo, awaited, statuses, outputs, inbox, answered, echoes>>
    BY <1>1 DEF debateVars
  <2>2. DriverBus(bus', SaidBy(answered))
    BY <2>1, Zenon DEF DebateInv, ChannelOK
  <2> QED BY <2>1, <2>2, NothingDecided, Zenon
<1>2. CASE DriverSteps
  BY <1>2, StepMovesOn, StepPrompts, StepSynthesis, StepOpens, StepReceives, StepTimeouts, StepWaitEnds, StepSnapshots,
     Zenon DEF DriverSteps
<1>3. CASE CallFails
  BY <1>3, StepFails, Zenon DEF CallFails
<1>4. CASE \E p \in DebatePanes : PaneAnswers(p) \/ PaneEchoes(p) \/ PaneRedraws(p)
  BY <1>4, StepAnswers, StepEchoes, StepRedraws, Zenon
<1> QED BY <1>1, <1>2, <1>3, <1>4, Zenon DEF DebateNext

\* The inductive invariant of a debate (RunPrepared, waitForMarkers): whatever text the driver's
\* channel holds shows a round's marker only of an answer the pane has printed, and the
\* statuses, snapshots and prompts collected at every stage are those of such answers.
THEOREM DebateInvariant == DebateSpec => []DebateInv
<1>1. DebateInit => DebateInv
  BY DebateStarts
<1>2. DebateInv /\ [DebateNext]_debateVars => DebateInv'
  BY DebateSteps
<1> QED BY <1>1, <1>2, PTL DEF DebateSpec

LEMMA InvIsHonest ==
    ASSUME DebateInv
    PROVE  DebateIsHonest
<1>1. DebateTypeOK /\ PromptsOK /\ StageOK /\ DoneIsSaid(statuses, answered)
  BY DEF DebateInv
<1>2. DoneMeansAnswered
  BY <1>1, Zenon DEF DoneMeansAnswered, DoneIsSaid
<1>3. PromptsQuoteAnswers
  <2>1. ASSUME NEW p \in DebatePanes, NEW i \in DOMAIN inbox[p]
        PROVE  /\ Len(inbox[p][i].earlier) >= inbox[p][i].round - 1
               /\ \A r \in DOMAIN inbox[p][i].earlier, q \in ToSet(Debaters) :
                     /\ statuses[r][q] = "done" => r \in inbox[p][i].earlier[r][q]
                     /\ inbox[p][i].earlier[r][q] \subseteq answered[q]
    <3>1. inbox[p] \in Seq(Prompt)
      BY <1>1 DEF DebateTypeOK
    <3>2. i \in 1 .. Len(inbox[p]) /\ inbox[p][i] \in Prompt
      BY <2>1, <3>1
    <3>3. PICK prompt : prompt = inbox[p][i]
      BY Zenon
    <3>4. PromptOK(statuses, answered, prompt) /\ prompt.earlier \in Seq(Shown)
      BY <1>1, <3>2, <3>3, PromptIs, Zenon DEF PromptsOK
    <3>5. /\ Len(prompt.earlier) >= prompt.round - 1
          /\ \A r \in 1 .. Len(prompt.earlier) : WholeRound(statuses, answered, r, prompt.earlier[r])
      BY <3>4, Zenon DEF PromptOK, WholeRounds
    <3>6. DOMAIN prompt.earlier = 1 .. Len(prompt.earlier)
      BY <3>4
    <3>7. ASSUME NEW r \in DOMAIN prompt.earlier, NEW q \in ToSet(Debaters)
          PROVE  /\ statuses[r][q] = "done" => r \in prompt.earlier[r][q]
                 /\ prompt.earlier[r][q] \subseteq answered[q]
      <4>1. DOMAIN prompt.earlier[r] = ToSet(Debaters) /\ ShowsAnswers(statuses, answered, r, prompt.earlier[r])
        BY <3>5, <3>6, <3>7, Zenon DEF WholeRound
      <4> QED BY <4>1, Zenon DEF ShowsAnswers
    <3> QED BY <3>3, <3>5, <3>7, Zenon
  <2> QED BY <2>1, Zenon DEF PromptsQuoteAnswers
<1>4. SuccessIsComplete
  <2>1. ASSUME stage = "success"
        PROVE  /\ Len(outputs) = Rounds /\ Rounds \in answered[Coordinator]
               /\ \A r \in 1 .. Rounds : ToSet(Debaters) \subseteq DOMAIN statuses[r] \intersect DOMAIN outputs[r]
    <3>1. Len(outputs) = Rounds /\ Rounds \in answered[Coordinator] /\ WholeRounds(statuses, answered, outputs)
      BY <1>1, <2>1 DEF StageOK
    <3>2. ASSUME NEW r \in 1 .. Rounds PROVE ToSet(Debaters) \subseteq DOMAIN statuses[r] \intersect DOMAIN outputs[r]
      <4>1. DOMAIN outputs[r] = ToSet(Debaters) /\ ShowsAnswers(statuses, answered, r, outputs[r])
        BY <3>1, Zenon DEF WholeRounds, WholeRound
      <4>2. \A q \in ToSet(Debaters) : q \in DOMAIN statuses[r]
        BY <4>1, Zenon DEF ShowsAnswers
      <4> QED BY <4>1, <4>2
    <3> QED BY <3>1, <3>2, Zenon
  <2> QED BY <2>1, Zenon DEF SuccessIsComplete
<1> QED BY <1>2, <1>3, <1>4, Zenon DEF DebateIsHonest

\* A debate reports what was said, whoever the debaters, however long the channel and whatever panes
\* echo, wrap or redraw: done means answered, prompts quote answers, success is complete.
THEOREM DebateHonest == DebateSpec => []DebateIsHonest
<1>1. DebateInv => DebateIsHonest
  BY InvIsHonest
<1> QED BY <1>1, DebateInvariant, PTL
=============================================================================
