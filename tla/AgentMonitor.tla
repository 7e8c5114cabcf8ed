---------------------------- MODULE AgentMonitor ----------------------------
(***************************************************************************)
(* The monitor that turns what a coding agent's pane shows into the state  *)
(* of the agent (internal/codingagent: monitor.go), with the agent's       *)
(* record in the store and the part of the agent service that creates and  *)
(* removes both.                                                           *)
(*                                                                         *)
(* Agents share only the mutex and the token counter and their IDs are     *)
(* never reused, so one agent is modelled.  A timer callback is a record   *)
(* of `timers' with the tokens it captured.  Stopping a timer removes it   *)
(* only while it has not fired: a callback that waits for the mutex runs   *)
(* later, whatever happened in between.                                    *)
(*                                                                         *)
(* A handler looks the record up before it locks the mutex, so the record  *)
(* may be gone by the time the handler works; an entry is only made for an *)
(* existing record, hence the early lookup adds nothing to the guards.     *)
(*                                                                         *)
(* Definitions marked "Slip" are plausible mistakes in the definition that *)
(* follows; they only serve to test the properties.                        *)
(***************************************************************************)
EXTENDS Naturals, FiniteSets

CONSTANTS
    idleConfirmationCount, \* confirmations of an inferred idle state (3)
    MaxGeneration,         \* bound: registrations of the agent's pane
    MaxToken,              \* bound: observation epochs
    MaxIdleToken           \* bound: evaluations in one epoch

ASSUME MonitorAssumption ==
    /\ idleConfirmationCount \in Nat \ {0}
    /\ {MaxGeneration, MaxToken, MaxIdleToken} \subseteq Nat

VARIABLES
    svc,       \* progress of StartAgent and of the clean-up of the agent
    rec,       \* the record in the store
    entry,     \* Monitor.monitoring[id]
    nextToken,
    timers,    \* timers that are scheduled, or whose callback has yet to run
    removal,   \* PaneClosed has yet to delete the record
    \* history
    evidence,  \* the pane generation that delivered entry.input
    calm       \* confirmation delays passed since the last sign of anything but
               \*   an inferred idle state

vars == <<svc, rec, entry, nextToken, timers, removal, evidence, calm>>

State == {"idle", "working", "blocked", "unknown"}

\* What Detect makes of a screen and a title: a matched rule (no rule of the
\* embedded manifests says unknown), "inferred" for idle without a visible sign
\* of it, "skip" for no update or a detection error.
Detection == {"working", "blocked", "visibleIdle", "inferred", "skip"}
StateOf(d) == IF d \in {"visibleIdle", "inferred"} THEN "idle" ELSE d

\* Of the timers of an entry only whether they are set matters.
Entry == [mon: BOOLEAN, token: Nat, gen: Nat, hasInput: BOOLEAN, input: Detection,
          grace: BOOLEAN, timer: BOOLEAN, deadline: BOOLEAN, conf: Nat,
          idleToken: Nat, rev: Nat, state: State]
NoEntry == [mon |-> FALSE, token |-> 0, gen |-> 0, hasInput |-> FALSE, input |-> "skip",
            grace |-> FALSE, timer |-> FALSE, deadline |-> FALSE, conf |-> 0,
            idleToken |-> 0, rev |-> 0, state |-> "unknown"]

\* `fresh' is history: no contrary evidence since the timer was scheduled.
Callback == [kind: {"grace", "confirm", "deadline"}, token: Nat, idle: Nat,
             fired: BOOLEAN, fresh: BOOLEAN]
AfterFunc(kind, token, idle) ==
    [kind |-> kind, token |-> token, idle |-> idle, fired |-> FALSE, fresh |-> TRUE]

-----------------------------------------------------------------------------
(* Helpers of the monitor, called with the mutex held                      *)

Unstopped(ts, kinds) == {x \in ts : x.fired \/ x.kind \notin kinds}
IdleTimers == {"confirm", "deadline"}

cancelIdleCandidate(e) ==
    [e EXCEPT !.idleToken = @ + 1, !.timer = FALSE, !.deadline = FALSE, !.conf = 0]

stopTimers(e) == [cancelIdleCandidate(e) EXCEPT !.grace = FALSE]
Stopped(ts) == Unstopped(ts, IdleTimers \cup {"grace"})

\* History: evidence other than an inferred idle state.
Contrary(ts) == {[x EXCEPT !.fresh = FALSE] : x \in ts}

updateState(e, s) ==
    IF rec.exists
    THEN /\ rec' = [rec EXCEPT !.state = s]
         /\ entry' = [e EXCEPT !.state = s,
                        !.rev = IF rec.state # "working" /\ s = "working" THEN @ + 1 ELSE @]
    ELSE entry' = e /\ UNCHANGED rec

startIdleCandidate(e, ts) ==
    /\ UNCHANGED rec
    /\ IF e.timer \/ e.deadline
       THEN entry' = e /\ timers' = ts
       ELSE /\ entry' = [e EXCEPT !.conf = 0, !.idleToken = @ + 1, !.timer = TRUE,
                                  !.deadline = TRUE]
            /\ timers' = ts \cup {AfterFunc(k, e.token, e.idleToken + 1) : k \in IdleTimers}

evaluate(e, ts) ==
    IF e.input = "skip"
    THEN entry' = cancelIdleCandidate(e) /\ timers' = Unstopped(ts, IdleTimers) /\ UNCHANGED rec
    ELSE IF e.state = "working" /\ e.input = "inferred" THEN startIdleCandidate(e, ts)
    ELSE updateState(cancelIdleCandidate(e), StateOf(e.input)) /\ timers' = Unstopped(ts, IdleTimers)

\* Slip: generations are not compared.
sameMonitoredPaneAny(g) == entry.mon /\ entry.gen # 0

sameMonitoredPane(g) == entry.mon /\ entry.gen # 0 /\ entry.gen = g

\* The transient observation is dropped and a new epoch begins.
Reset(e) == [stopTimers(e) EXCEPT !.hasInput = FALSE, !.input = "skip", !.rev = 0,
                                  !.token = nextToken + 1]

-----------------------------------------------------------------------------
(* Lifecycle                                                               *)

\* registerStart
Create ==
    /\ svc = "none"
    /\ svc' = "created" /\ rec' = [exists |-> TRUE, state |-> "unknown"]
    /\ UNCHANGED <<entry, nextToken, timers, removal, evidence, calm>>

Start ==
    /\ svc = "created" /\ nextToken < MaxToken
    /\ svc' = "started"
    /\ nextToken' = nextToken + 1
    /\ entry' = [NoEntry EXCEPT !.mon = TRUE, !.token = nextToken + 1, !.state = rec.state]
    /\ timers' = Stopped(timers)
    /\ UNCHANGED <<rec, removal, evidence, calm>>

\* The detector is unusable: StartAgent takes the record back.
StartFails ==
    /\ svc = "created"
    /\ svc' = "gone" /\ rec' = [rec EXCEPT !.exists = FALSE]
    /\ UNCHANGED <<entry, nextToken, timers, removal, evidence, calm>>

Stop ==
    /\ entry' = NoEntry /\ timers' = Stopped(timers)

\* cleanupOwnedRecord and cleanupOrphan: the record, then the monitor.
CleanupDelete ==
    /\ svc = "started" /\ rec.exists
    /\ svc' = "cleaning" /\ rec' = [rec EXCEPT !.exists = FALSE]
    /\ UNCHANGED <<entry, nextToken, timers, removal, evidence, calm>>

CleanupStop ==
    /\ svc = "cleaning" /\ svc' = "gone"
    /\ Stop
    /\ UNCHANGED <<rec, nextToken, removal, evidence, calm>>

Close ==
    /\ svc # "closed" /\ svc' = "closed"
    /\ Stop
    /\ UNCHANGED <<rec, nextToken, removal, evidence, calm>>

-----------------------------------------------------------------------------
(* Observations of the runtime, for any generation of the pane, late or not *)

PaneOpened(g) ==
    /\ entry.mon /\ g > entry.gen /\ nextToken < MaxToken
    /\ nextToken' = nextToken + 1
    /\ entry' = [Reset(entry) EXCEPT !.gen = g, !.grace = TRUE]
    /\ timers' = Contrary(Stopped(timers)) \cup {AfterFunc("grace", nextToken + 1, 0)}
    /\ calm' = 0
    /\ UNCHANGED <<svc, rec, removal, evidence>>

\* The screen (PaneOutput) or the title (PaneMetadata) changed and Detect makes
\* d of the two; `some' says whether there is input now.
Observed(g, d, some) ==
    LET e  == [entry EXCEPT !.input = d, !.hasInput = some]
        ts == IF d = "inferred" THEN timers ELSE Contrary(timers)
    IN /\ sameMonitoredPane(g) /\ entry.idleToken < MaxIdleToken
       /\ IF entry.grace \/ ~some
          THEN entry' = e /\ timers' = ts /\ UNCHANGED rec
          ELSE evaluate(e, ts)
       /\ calm' = IF d = "inferred" THEN calm ELSE 0
       /\ evidence' = g
       /\ UNCHANGED <<svc, nextToken, removal>>

PaneOutput(g, d) == Observed(g, d, TRUE)

\* Only a working or blocked title is input by itself.
PaneMetadata(g, d) ==
    Observed(g, d, entry.hasInput) \/ (d \in {"working", "blocked"} /\ Observed(g, d, TRUE))

\* The record is deleted after the mutex is released.
PaneClosed(g) ==
    /\ sameMonitoredPane(g)
    /\ Stop
    /\ removal' = TRUE
    /\ UNCHANGED <<svc, rec, nextToken, evidence, calm>>

PaneClosedDelete ==
    /\ removal /\ removal' = FALSE
    /\ rec' = [rec EXCEPT !.exists = FALSE]
    /\ UNCHANGED <<svc, entry, nextToken, timers, evidence, calm>>

\* Slip: the epoch goes on.
PaneErrorSameEpoch(g) ==
    /\ sameMonitoredPane(g)
    /\ updateState([Reset(entry) EXCEPT !.token = entry.token], "unknown")
    /\ timers' = Contrary(Stopped(timers)) /\ calm' = 0
    /\ UNCHANGED <<svc, removal, evidence, nextToken>>

PaneError(g) ==
    /\ sameMonitoredPane(g) /\ nextToken < MaxToken
    /\ nextToken' = nextToken + 1
    /\ updateState(Reset(entry), "unknown")
    /\ timers' = Contrary(Stopped(timers)) /\ calm' = 0
    /\ UNCHANGED <<svc, removal, evidence>>

-----------------------------------------------------------------------------
(* Timers                                                                  *)

\* A timer expires: its callback will run, and Stop comes too late.
Fire(x) ==
    /\ ~x.fired
    /\ timers' = (timers \ {x}) \cup {[x EXCEPT !.fired = TRUE]}
    /\ calm' = IF ~x.fresh \/ x.kind = "grace" THEN calm
               ELSE IF x.kind = "deadline" THEN idleConfirmationCount
               ELSE IF calm < idleConfirmationCount THEN calm + 1 ELSE calm
    /\ UNCHANGED <<svc, rec, entry, nextToken, removal, evidence>>

\* Slip: at the end only an idle candidate is begun, other states wait for output.
finishGraceLate(x) ==
    LET e == [entry EXCEPT !.grace = FALSE] IN
    IF ~entry.mon \/ entry.token # x.token THEN timers' = timers \ {x} /\ UNCHANGED <<entry, rec>>
    ELSE IF entry.input = "inferred" /\ entry.state = "working" THEN evaluate(e, timers \ {x})
    ELSE entry' = e /\ timers' = timers \ {x} /\ UNCHANGED rec

finishGrace(x) ==
    LET e == [entry EXCEPT !.grace = FALSE] IN
    IF ~entry.mon \/ entry.token # x.token THEN timers' = timers \ {x} /\ UNCHANGED <<entry, rec>>
    ELSE IF entry.hasInput THEN evaluate(e, timers \ {x})
    ELSE entry' = e /\ timers' = timers \ {x} /\ UNCHANGED rec

\* Slip: callbacks of an abandoned candidate count for the present one.
CurrentInEpoch(x) == entry.mon /\ entry.token = x.token

Current(x) == entry.mon /\ entry.token = x.token /\ entry.idleToken = x.idle

\* The candidate is over: its timers stop and the detection, if any, is applied.
Settle(x) ==
    /\ timers' = Unstopped(timers \ {x}, IdleTimers)
    /\ IF entry.input = "skip" THEN entry' = cancelIdleCandidate(entry) /\ UNCHANGED rec
       ELSE updateState(cancelIdleCandidate(entry), StateOf(entry.input))

confirmIdle(x) ==
    IF ~Current(x) \/ ~entry.timer THEN timers' = timers \ {x} /\ UNCHANGED <<entry, rec>>
    ELSE IF entry.input = "inferred" /\ entry.conf + 1 < idleConfirmationCount
    THEN /\ entry' = [entry EXCEPT !.conf = @ + 1]
         /\ timers' = (timers \ {x}) \cup {AfterFunc("confirm", x.token, x.idle)}
         /\ UNCHANGED rec
    ELSE Settle(x)

finishIdleDeadline(x) ==
    IF ~Current(x) \/ ~entry.deadline THEN timers' = timers \ {x} /\ UNCHANGED <<entry, rec>>
    ELSE Settle(x)

Run(x) ==
    /\ x.fired
    /\ \/ x.kind = "grace" /\ finishGrace(x)
       \/ x.kind = "confirm" /\ confirmIdle(x)
       \/ x.kind = "deadline" /\ finishIdleDeadline(x)
    /\ UNCHANGED <<svc, nextToken, removal, evidence, calm>>

-----------------------------------------------------------------------------
Init ==
    /\ svc = "none" /\ rec = [exists |-> FALSE, state |-> "unknown"]
    /\ entry = NoEntry /\ nextToken = 0 /\ timers = {} /\ removal = FALSE
    /\ evidence = 0 /\ calm = 0

Observation(g) ==
    \/ PaneOpened(g) \/ PaneClosed(g) \/ PaneError(g)
    \/ \E d \in Detection : PaneOutput(g, d) \/ PaneMetadata(g, d)

Lifecycle == Create \/ Start \/ StartFails \/ CleanupDelete \/ CleanupStop \/ Close

Next ==
    \/ Lifecycle \/ PaneClosedDelete
    \/ \E g \in 1..MaxGeneration : Observation(g)
    \/ \E x \in timers : Fire(x) \/ Run(x)

Spec == Init /\ [][Next]_vars

\* Timers expire, callbacks and handlers that began get the mutex and end.
\* Nothing is assumed of the pane or of users.
Fairness ==
    /\ WF_vars(\E x \in timers : Fire(x)) /\ WF_vars(\E x \in timers : Run(x))
    /\ WF_vars(Start \/ StartFails) /\ WF_vars(CleanupStop) /\ WF_vars(PaneClosedDelete)

FairSpec == Spec /\ Fairness

-----------------------------------------------------------------------------
(* Properties                                                              *)

\* Every variable keeps its type.
TypeOK ==
    /\ svc \in {"none", "created", "started", "cleaning", "gone", "closed"}
    /\ rec \in [exists: BOOLEAN, state: State]
    /\ entry \in Entry /\ nextToken \in Nat
    /\ timers \in SUBSET Callback /\ removal \in BOOLEAN
    /\ evidence \in Nat /\ calm \in Nat

\* A working agent is declared idle without a visible sign only after the full
\* number of confirmation delays, or the whole limit, passed since anything else
\* was seen: callbacks of an earlier candidate that come late never count.
IdleIsConfirmed ==
    [][rec.state = "working" /\ rec'.state = "idle" /\ entry'.input = "inferred"
        => calm = idleConfirmationCount]_vars

\* What the state is derived from was shown by the pane generation the entry is
\* bound to, never by an older pane of the agent whose output comes late.
EvidenceIsCurrent == entry.mon /\ entry.hasInput => evidence = entry.gen

\* The idle candidate of an agent that works no longer, and a grace period, have
\* a callback on its way that will end them: no order of stops, restarts and
\* late callbacks leaves the agent working, or unobserved, for good.
Armed(kind, idle) ==
    \E x \in timers : x.kind = kind /\ x.token = entry.token /\ x.idle = idle
CandidateIsPending ==
    entry.mon =>
        /\ entry.grace => Armed("grace", 0)
        /\ rec.exists /\ entry.hasInput /\ ~entry.grace
              /\ entry.state = "working" /\ entry.input = "inferred"
           => entry.deadline /\ Armed("deadline", entry.idleToken)

\* The monitor keeps the promise of MonitorEpochs: an epoch is never used twice,
\* and in it the revision only counts new working periods.
Epochs == INSTANCE MonitorEpochs WITH
    epoch <- entry.token, revision <- entry.rev, issued <- nextToken,
    working <- entry.mon /\ entry.state = "working"
ImplementsEpochs == Epochs!Spec

\* An idle screen is recognised: the record becomes idle unless something else
\* is shown, or the agent goes away.
ShowsIdle ==
    entry.mon /\ rec.exists /\ entry.hasInput /\ entry.input \in {"visibleIdle", "inferred"}
IdleIsRecognised == ShowsIdle ~> (rec.state = "idle" \/ ~ShowsIdle)

\* A record without its monitor entry, or an entry without its record, is always
\* temporary while the daemon serves, however the two clean-ups interleave.
Half == svc # "closed" /\ entry.mon # rec.exists
HalfIsTemporary == Half ~> ~Half

\* The monitor comes to rest: an idle agent is reported idle and a removed one is
\* gone in both places, however timers and clean-ups interleave.
MonitorSettles == IdleIsRecognised /\ HalfIsTemporary

-----------------------------------------------------------------------------
(* The inductive invariant.                                                *)

\* The entry's copy of the record is exact, and there is none before Start.
Synced ==
    /\ ~entry.mon => entry = NoEntry
    /\ entry.mon /\ rec.exists => entry.state = rec.state
    /\ svc \in {"none", "created"} => ~entry.mon

\* Callbacks captured tokens that were given out, never future ones.
TokensIssued ==
    /\ entry.token <= nextToken /\ (entry.mon => 1 <= entry.token)
    /\ \A x \in timers :
          /\ 1 <= x.token /\ x.token <= nextToken
          /\ x.token = entry.token => x.idle <= entry.idleToken

\* A candidate rests on input that still says so, outside the grace period.
CandidateShape ==
    /\ entry.timer => entry.deadline
    /\ entry.deadline => /\ entry.hasInput /\ entry.input = "inferred" /\ ~entry.grace
                         /\ Armed("deadline", entry.idleToken)
                         /\ entry.conf < idleConfirmationCount

\* The callbacks of the present candidate are as old as its calm.
CalmCounts ==
    /\ calm <= idleConfirmationCount
    /\ entry.deadline =>
        \A x \in timers : Current(x) /\ x.kind \in IdleTimers =>
            /\ x.fresh
            /\ x.kind = "deadline" /\ x.fired => calm = idleConfirmationCount
            /\ x.kind = "confirm" =>
                  calm = idleConfirmationCount
                  \/ (IF x.fired THEN entry.conf + 1 ELSE entry.conf) <= calm

\* It has at most one confirmation under way.
OneConfirm ==
    entry.deadline => \A x, y \in timers :
        Current(x) /\ Current(y) /\ x.kind = "confirm" /\ y.kind = "confirm" => x = y

IInv == /\ Synced /\ TokensIssued /\ CandidateShape /\ CalmCounts /\ OneConfirm
        /\ EvidenceIsCurrent /\ CandidateIsPending

=============================================================================
