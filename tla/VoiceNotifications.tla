------------------------- MODULE VoiceNotifications -------------------------
(***************************************************************************)
(* Spoken notifications.  The voice service (internal/voice/service.go)    *)
(* keeps a bounded queue and remembers which requests it has accepted.  It *)
(* is fed by HTTP clients, which may repeat a request                      *)
(* (transport/handlers_voice.go, cli/daemon/voice.go), and by the idle     *)
(* loop (cli/daemon/agent_idle_voice.go), which hears on the event bus     *)
(* that an agent's state changed and looks the agent up only when it       *)
(* handles the event.                                                      *)
(***************************************************************************)
EXTENDS EventBus, FiniteSets

CONSTANTS
    VoiceAgents,
    Tickets,      \* request IDs of HTTP clients
    Capacity,     \* places in the queue
    RecentLimit,  \* request IDs remembered altogether
    MaxChanges    \* bound: state changes of one agent

\* NewService refuses any other limits.  "none" names no request.
ASSUME VoiceAssumption ==
    /\ Capacity \in Nat \ {0} /\ RecentLimit \in Nat
    /\ Capacity + 1 <= RecentLimit
    /\ MaxChanges \in Nat /\ "none" \notin VoiceAgents \union Tickets

Loop == "idle-loop"
ASSUME LoopAssumption == Loop \in Subscribers

VARIABLES
    agent,      \* the store's records
    voice,      \* the service
    announced,  \* idle announcements queued, by agent
    finished,   \* how often an agent came to rest after working or having been blocked
    spoken,     \* how often each request was spoken
    forgotten   \* how often each request was evicted after it was spoken

voiceVars == <<agent, voice, announced, finished, spoken, forgotten>>
vars == <<bus, voiceVars>>

Nothing == <<"none", 0>>
AgentStates == {"unknown", "working", "blocked", "idle"}
Requests == (VoiceAgents \X (0 .. MaxChanges)) \union (Tickets \X {0})

VoiceInit ==
    /\ bus = Subscribed(NewBus, Loop)
    /\ \E notify \in [VoiceAgents -> BOOLEAN] :
          agent = [a \in VoiceAgents |-> [state |-> "unknown", changes |-> 0, notify |-> notify[a]]]
    /\ voice = [queue |-> <<>>, active |-> {}, recent |-> <<>>, closed |-> FALSE, speaking |-> Nothing]
    /\ announced = [a \in VoiceAgents |-> 0]
    /\ finished = [a \in VoiceAgents |-> 0]
    /\ spoken = [r \in Requests |-> 0]
    /\ forgotten = [r \in Requests |-> 0]

-----------------------------------------------------------------------------
(* The service.                                                            *)

Remembered(v) == Cardinality(v.active) + Len(v.recent)

\* Evictions go on until there is room: at most one is ever needed.
Evicts(v, limit) == Remembered(v) > limit
EvictOldest(v) == [v EXCEPT !.recent = Tail(@)]
Evict(v, limit) == IF Evicts(v, limit) THEN EvictOldest(v) ELSE v

\* Slip: a request that was spoken is not remembered.
QueuedAlready(r) == r \in voice.active

Duplicate(r) == r \in voice.active \/ r \in ToSet(voice.recent)

Full == Len(voice.queue) >= Capacity

\* Enqueue: refused when closed, a duplicate, or full.
Enqueue(r) ==
    IF voice.closed \/ Duplicate(r) \/ Full
    THEN UNCHANGED <<voice, forgotten>>
    ELSE /\ voice' = [Evict(voice, RecentLimit - 1) EXCEPT !.queue = Append(@, r), !.active = @ \union {r}]
         /\ forgotten' = IF Evicts(voice, RecentLimit - 1) THEN [forgotten EXCEPT ![Head(voice.recent)] = @ + 1]
                                                           ELSE forgotten
Accepts(r) == ~voice.closed /\ ~Duplicate(r) /\ ~Full

\* Slip: the goroutine leaves its loop after the first speech.
SpeakFirstOnly ==
    /\ ~voice.closed /\ voice.queue # <<>> /\ voice.speaking = Nothing
    /\ \A r \in Requests : spoken[r] = 0
    /\ voice' = [voice EXCEPT !.queue = Tail(@), !.speaking = Head(voice.queue)]
    /\ spoken' = [spoken EXCEPT ![Head(voice.queue)] = @ + 1]
    /\ UNCHANGED <<bus, agent, announced, finished, forgotten>>

\* run: take the first of the queue and speak it.
SpeakNext ==
    /\ ~voice.closed /\ voice.queue # <<>> /\ voice.speaking = Nothing
    /\ voice' = [voice EXCEPT !.queue = Tail(@), !.speaking = Head(voice.queue)]
    /\ spoken' = [spoken EXCEPT ![Head(voice.queue)] = @ + 1]
    /\ UNCHANGED <<bus, agent, announced, finished, forgotten>>

\* finish, whether the speech succeeded, failed or was cancelled.
Finish ==
    LET r == voice.speaking
        idle == [voice EXCEPT !.speaking = Nothing, !.active = @ \ {r}]
        kept == [idle EXCEPT !.recent = Append(@, r)]
    IN  /\ r # Nothing
        /\ voice' = IF voice.closed THEN idle ELSE Evict(kept, RecentLimit)
        /\ forgotten' = IF ~voice.closed /\ Evicts(kept, RecentLimit)
                        THEN [forgotten EXCEPT ![Head(kept.recent)] = @ + 1] ELSE forgotten
        /\ UNCHANGED <<bus, agent, announced, finished, spoken>>

\* Close drops what is queued and cancels the speech under way.
CloseVoice ==
    /\ ~voice.closed
    /\ voice' = [voice EXCEPT !.closed = TRUE, !.queue = <<>>, !.active = {}]
    /\ bus' = Unregistered(bus, Loop)
    /\ UNCHANGED <<agent, announced, finished, spoken, forgotten>>

-----------------------------------------------------------------------------
(* Where requests come from.                                               *)

\* A client posts a request, again if it likes.
QueueVoiceNotification(t) ==
    /\ Enqueue(<<t, 0>>)
    /\ UNCHANGED <<bus, agent, announced, finished, spoken>>

\* An agent that worked, or waited for an answer to go on working, is at rest.
ComesToRest(before, state) == before \in {"working", "blocked"} /\ state = "idle"

\* The monitor updates the record and publishes the change under its lock.  Another
\* reason or rule for the same state is a change too, and renames the next request.
StateChanges(a, state) ==
    /\ agent[a].state # "gone" /\ agent[a].changes < MaxChanges
    /\ agent' = [agent EXCEPT ![a].state = state, ![a].changes = @ + 1]
    /\ bus' = Published(bus, [agent |-> a, previous |-> agent[a].state, state |-> state])
    /\ finished' = [finished EXCEPT ![a] = IF ComesToRest(agent[a].state, state) THEN @ + 1 ELSE @]
    /\ UNCHANGED <<voice, announced, spoken, forgotten>>

AgentRemoved(a) ==
    /\ agent[a].state # "gone"
    /\ agent' = [agent EXCEPT ![a].state = "gone"]
    /\ UNCHANGED <<bus, voice, announced, finished, spoken, forgotten>>

\* Only a known, not idle, state that turns idle is announced.
IdleTransition(event) ==
    event.previous \notin {"idle", "unknown"} /\ event.state = "idle"

\* handleAgentIdleVoiceEvent: the request is named after the latest change of
\* the record, which may be a later one than the event's.
HandleIdleEvent ==
    /\ Pending(bus, Loop) /\ ~voice.closed
    /\ bus' = Rest(bus, Loop)
    /\ LET event == Received(bus, Loop)
           a == event.agent
           r == <<a, agent[a].changes>>
       IN  IF IdleTransition(event) /\ agent[a].state # "gone" /\ agent[a].notify
           THEN /\ Enqueue(r)
                /\ announced' = IF Accepts(r) THEN [announced EXCEPT ![a] = @ + 1] ELSE announced
           ELSE UNCHANGED <<voice, forgotten, announced>>
    /\ UNCHANGED <<agent, finished, spoken>>

VoiceNext ==
    \/ SpeakNext \/ Finish \/ CloseVoice \/ HandleIdleEvent
    \/ \E t \in Tickets : QueueVoiceNotification(t)
    \/ \E a \in VoiceAgents : AgentRemoved(a) \/ \E state \in AgentStates : StateChanges(a, state)

-----------------------------------------------------------------------------
(* Properties.                                                             *)

\* A repeated request is not spoken again as long as it is remembered.
SpokenOnce ==
    \A r \in Requests : spoken[r] <= 1 + forgotten[r]

\* No agent is announced more often than it came to rest after working or having been
\* blocked: neither the first detection of an agent, nor another reason for being idle, nor a
\* late event, looked up against a newer record, adds an announcement.
AnnouncedOnlyWhenFinished ==
    \A a \in VoiceAgents : announced[a] <= finished[a]

\* What was accepted is spoken, unless the service is closed: the queue, served from
\* its front, never stands still (Close empties it).
AcceptedIsSpoken ==
    []<>(voice.queue = <<>>) \/ []<><<voice.queue # <<>> /\ voice.queue' = Tail(voice.queue)>>_vars

\* A request is spoken once as long as it is remembered, and an agent is announced only when it
\* came to rest, and once each time.
FinishedIsSpokenOnce == SpokenOnce /\ AnnouncedOnlyWhenFinished
=============================================================================
