------------------------------- MODULE Debate -------------------------------
(***************************************************************************)
(* A debate between panes (internal/debate/debate.go).  Every round, each  *)
(* agent is prompted in turn, the driver opens an event stream and waits   *)
(* until every agent's completion marker was seen or its time is up, and   *)
(* takes a snapshot of every pane; then the coordinator pane               *)
(* (cmd/agent-role/debatecoordinator) is asked for a synthesis.  Agents    *)
(* answer when they like, one prompt after the other, or never; terminals  *)
(* echo prompts, wrap lines and redraw.                                    *)
(***************************************************************************)
EXTENDS EventBus, FiniteSets

CONSTANTS
    Debaters,   \* the agents, in the order of prompting
    Rounds,     \* rounds asked for
    MaxEchoes   \* bound: screen updates that are not an answer

Driver == "driver"
Coordinator == "coordinator"

ASSUME DebateAssumption ==
    /\ Rounds \in 1 .. 3 /\ MaxEchoes \in Nat
    /\ Driver \in Subscribers /\ Coordinator \notin ToSet(Debaters)
    /\ Debaters \in Seq(STRING) /\ Debaters # <<>>

VARIABLES
    stage,     \* where RunPrepared is
    round,
    todo,      \* panes still to be prompted or snapshotted in this round
    awaited,   \* panes waitForMarkers waits for
    statuses,  \* by round and pane, as far as decided
    outputs,   \* snapshots by round: the answers each pane showed
    inbox,     \* prompts a pane has not answered yet
    answered,  \* rounds whose answer a pane has printed
    echoes

debateVars == <<bus, stage, round, todo, awaited, statuses, outputs, inbox, answered, echoes>>

DebatePanes == ToSet(Debaters) \union {Coordinator}
Empty == [p \in {} |-> {}]

DebateInit ==
    /\ bus = NewBus
    /\ stage = "plan" /\ round = 1 /\ todo = Debaters /\ awaited = {}
    /\ statuses = [r \in 1 .. Rounds |-> Empty]
    /\ outputs = <<>>
    /\ inbox = [p \in DebatePanes |-> <<>>]
    /\ answered = [p \in DebatePanes |-> {}]
    /\ echoes = 0

-----------------------------------------------------------------------------
(* Texts, as sequences of tokens; white space is a token of its own.       *)

Token(kind, value) == <<kind, value>>
Space == Token("space", 0)

\* Slip: the marker does not name its round.
MarkerWithoutRound(r, p) == <<Token("open", 0), Space, Token("agent", p), Token("close", 0)>>

completionMarker(r, p) ==
    <<Token("open", 0), Space, Token("round", r), Space, Token("agent", p), Token("close", 0)>>

compactWhitespace(text) == FlattenSeq([i \in DOMAIN text |-> IF text[i] = Space THEN <<>> ELSE <<text[i]>>])

\* The prompt lists the marker's parts, numbered, one to a line.
formatMarkerParts(marker) ==
    LET parts == compactWhitespace(marker)
    IN  FlattenSeq([i \in DOMAIN parts |-> <<Token("number", i), Space, parts[i], Space>>])

\* The answers of earlier rounds, quoted in the prompt, end in their markers.
Quoted(earlier) ==
    FlattenSeq([r \in DOMAIN earlier |->
       FlattenSeq([i \in DOMAIN Debaters |->
          IF r \in earlier[r][Debaters[i]] THEN completionMarker(r, Debaters[i]) ELSE <<Space>>])])

roundPrompt(prompt, p) == Quoted(prompt.earlier) \o formatMarkerParts(completionMarker(prompt.round, p))

\* A narrow pane breaks the line inside the marker.
Wrapped(text) == <<Head(text), Space>> \o Tail(text)

Occurs(text, part) == \E i \in 0 .. Len(text) - Len(part) : SubSeq(text, i + 1, i + Len(part)) = part
markerMatches(text, marker) ==
    Occurs(text, marker) \/ Occurs(compactWhitespace(text), compactWhitespace(marker))

-----------------------------------------------------------------------------
(* The driver, RunPrepared.                                                *)

Fails ==
    /\ stage' = "failed"
    /\ bus' = Unregistered(bus, Driver)
    /\ UNCHANGED <<round, todo, awaited, statuses, outputs, inbox, answered, echoes>>

SubmitPlan ==
    /\ stage = "plan" /\ stage' = "prompt"
    /\ UNCHANGED <<bus, round, todo, awaited, statuses, outputs, inbox, answered, echoes>>

\* One prompt, with what the earlier rounds showed.
SendPrompt ==
    /\ stage = "prompt"
    /\ inbox' = [inbox EXCEPT ![Head(todo)] = Append(@, [round |-> round, earlier |-> outputs])]
    /\ todo' = Tail(todo)
    /\ IF Len(todo) > 1 THEN UNCHANGED <<stage, awaited>>
                        ELSE stage' = "open" /\ awaited' = ToSet(Debaters)
    /\ UNCHANGED <<bus, round, statuses, outputs, answered, echoes>>

\* Once every round has been held, synthesisBlock carries all of it.
SendSynthesis ==
    /\ stage = "synthesis"
    /\ inbox' = [inbox EXCEPT ![Coordinator] = Append(@, [round |-> Rounds, earlier |-> outputs])]
    /\ stage' = "open" /\ awaited' = {Coordinator}
    /\ UNCHANGED <<bus, round, todo, statuses, outputs, answered, echoes>>

\* waitForMarkers subscribes only now, after the prompts were sent.
OpenStream ==
    /\ stage = "open" /\ stage' = "wait"
    /\ bus' = Subscribed(bus, Driver)
    /\ UNCHANGED <<round, todo, awaited, statuses, outputs, inbox, answered, echoes>>

Missing == awaited \ DOMAIN statuses[round]
Decide(panes, status) ==
    [statuses EXCEPT ![round] = [p \in DOMAIN @ \union panes |-> IF p \in panes THEN status ELSE @[p]]]

ReceiveEvent ==
    /\ stage = "wait" /\ Missing # {} /\ Pending(bus, Driver)
    /\ bus' = Rest(bus, Driver)
    /\ LET event == Received(bus, Driver)
           p == event.pane
       IN  IF p \in Missing /\ markerMatches(event.text, completionMarker(round, p))
           THEN statuses' = Decide({p}, "done")
           ELSE UNCHANGED statuses
    /\ UNCHANGED <<stage, round, todo, awaited, outputs, inbox, answered, echoes>>

\* Slip: deadlines are looked at only when an event has come.
TimeoutsNeedEvent ==
    /\ stage = "wait" /\ Missing # {} /\ Pending(bus, Driver)
    /\ statuses' = Decide(Missing, "timed_out")
    /\ UNCHANGED <<bus, stage, round, todo, awaited, outputs, inbox, answered, echoes>>

\* All deadlines of a wait are equal: time is up for whoever is missing.
markTimeouts ==
    /\ stage = "wait" /\ Missing # {}
    /\ statuses' = Decide(Missing, "timed_out")
    /\ UNCHANGED <<bus, stage, round, todo, awaited, outputs, inbox, answered, echoes>>

\* The wait is over; a coordinator that timed out fails the debate.
WaitEnds ==
    /\ stage = "wait" /\ Missing = {}
    /\ bus' = Unregistered(bus, Driver)
    /\ todo' = Debaters
    /\ stage' = IF awaited # {Coordinator} THEN "snapshot"
                ELSE IF statuses[round][Coordinator] = "done" THEN "final" ELSE "failed"
    /\ UNCHANGED <<round, awaited, statuses, outputs, inbox, answered, echoes>>

\* One more pane among those shown.
WithSnapshot(shown, p) == [q \in DOMAIN shown \union {p} |-> IF q = p THEN answered[p] ELSE shown[q]]

SnapshotOutput ==
    /\ stage = "snapshot"
    /\ outputs' = IF Len(outputs) < round THEN Append(outputs, WithSnapshot(Empty, Head(todo)))
                  ELSE [outputs EXCEPT ![round] = WithSnapshot(@, Head(todo))]
    /\ todo' = IF Len(todo) > 1 THEN Tail(todo) ELSE Debaters
    /\ round' = IF Len(todo) = 1 /\ round < Rounds THEN round + 1 ELSE round
    /\ stage' = IF Len(todo) > 1 THEN stage ELSE IF round < Rounds THEN "prompt" ELSE "synthesis"
    /\ UNCHANGED <<bus, awaited, statuses, inbox, answered, echoes>>

FinalSnapshot ==
    /\ stage = "final" /\ stage' = "success"
    /\ UNCHANGED <<bus, round, todo, awaited, statuses, outputs, inbox, answered, echoes>>

\* A call of the daemon fails, or the event stream ends early.
CallFails == stage \in {"plan", "prompt", "synthesis", "open", "wait", "snapshot", "final"} /\ Fails

-----------------------------------------------------------------------------
(* The panes.                                                              *)

\* What panes show once the debate has ended reaches nobody.
Shows(p, text) ==
    /\ stage \notin {"success", "failed"}
    /\ bus' = Published(bus, [pane |-> p, text |-> text])

\* An agent finishes its oldest prompt; the coordinator decodes the marker of
\* the synthesis block and prints it when its model is done.
PaneAnswers(p) ==
    /\ inbox[p] # <<>>
    /\ inbox' = [inbox EXCEPT ![p] = Tail(@)]
    /\ answered' = [answered EXCEPT ![p] = @ \union {Head(inbox[p]).round}]
    /\ LET marker == completionMarker(Head(inbox[p]).round, p)
       IN  Shows(p, marker) \/ Shows(p, Wrapped(marker))
    /\ UNCHANGED <<stage, round, todo, awaited, statuses, outputs, echoes>>

\* A prompt is echoed: the agents' own text, or the encoded synthesis block.
PaneEchoes(p) ==
    /\ inbox[p] # <<>> /\ echoes < MaxEchoes
    /\ echoes' = echoes + 1
    /\ LET prompt == Last(inbox[p])
       IN  Shows(p, IF p = Coordinator THEN Quoted(prompt.earlier) ELSE roundPrompt(prompt, p))
    /\ UNCHANGED <<stage, round, todo, awaited, statuses, outputs, inbox, answered>>

\* A redraw shows the last answer again.
PaneRedraws(p) ==
    /\ answered[p] # {} /\ echoes < MaxEchoes
    /\ echoes' = echoes + 1
    /\ Shows(p, completionMarker(CHOOSE r \in answered[p] : \A s \in answered[p] : s <= r, p))
    /\ UNCHANGED <<stage, round, todo, awaited, statuses, outputs, inbox, answered>>

DriverSteps ==
    \/ SubmitPlan \/ SendPrompt \/ SendSynthesis \/ OpenStream \/ ReceiveEvent
    \/ markTimeouts \/ WaitEnds \/ SnapshotOutput \/ FinalSnapshot

DebateNext ==
    \/ DriverSteps \/ CallFails
    \/ \E p \in DebatePanes : PaneAnswers(p) \/ PaneEchoes(p) \/ PaneRedraws(p)

-----------------------------------------------------------------------------
(* Properties.                                                             *)

\* A pane is reported done with a round only when it has printed its answer of
\* that round: an echoed prompt, a quoted answer or a late marker of an earlier
\* round does not count.
DoneMeansAnswered ==
    \A r \in 1 .. Rounds : \A p \in DOMAIN statuses[r] :
       statuses[r][p] = "done" => r \in answered[p]

\* A prompt quotes, for every earlier round, every agent that was done in time:
\* its own answer of that round and no other agent's.
PromptsQuoteAnswers ==
    \A p \in DebatePanes : \A i \in DOMAIN inbox[p] :
       LET prompt == inbox[p][i]
       IN  /\ Len(prompt.earlier) >= prompt.round - 1
           /\ \A r \in DOMAIN prompt.earlier, q \in ToSet(Debaters) :
                 /\ statuses[r][q] = "done" => r \in prompt.earlier[r][q]
                 /\ prompt.earlier[r][q] \subseteq answered[q]

\* Success: every agent has a status in every round, every round was shown to
\* the coordinator, and the coordinator answered it.
SuccessIsComplete ==
    stage = "success" =>
       /\ Len(outputs) = Rounds /\ Rounds \in answered[Coordinator]
       /\ \A r \in 1 .. Rounds : ToSet(Debaters) \subseteq DOMAIN statuses[r] \intersect DOMAIN outputs[r]

\* Whatever agents do, the debate comes to an end.
DebateEnds == <>(stage \in {"success", "failed"})

\* The debate reports what was said: no agent counts as done, is quoted or stands
\* behind a success without its own answer.
DebateIsHonest == DoneMeansAnswered /\ PromptsQuoteAnswers /\ SuccessIsComplete
=============================================================================
