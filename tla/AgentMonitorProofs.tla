------------------------- MODULE AgentMonitorProofs -------------------------
(***************************************************************************)
(* Proofs about AgentMonitor, for every confirmation count and every bound *)
(* on generations, epochs and evaluations.                                 *)
(***************************************************************************)
EXTENDS AgentMonitor, TLAPS

-----------------------------------------------------------------------------
(* The helpers keep their types.                                           *)

\* What the callers of evaluate, finishGrace, confirmIdle and finishIdleDeadline
\* rely on: the entry, the record and the timers that result are well typed.
Typed == entry' \in Entry /\ rec' \in [exists: BOOLEAN, state: State] /\ timers' \in SUBSET Callback

\* Scheduling a timer creates a callback.
LEMMA AfterFuncType ==
    ASSUME NEW k \in {"grace", "confirm", "deadline"}, NEW t \in Nat, NEW i \in Nat
    PROVE  AfterFunc(k, t, i) \in Callback
BY DEF AfterFunc, Callback

\* Marking callbacks as contradicted leaves callbacks.
LEMMA ContraryType ==
    ASSUME NEW ts \in SUBSET Callback
    PROVE  Contrary(ts) \in SUBSET Callback
BY DEF Contrary, Callback

\* Changing one field of an entry leaves an entry.
LEMMA Setters ==
    ASSUME NEW e \in Entry
    PROVE  /\ \A n \in Nat : [e EXCEPT !.token = n] \in Entry
           /\ \A n \in Nat : [e EXCEPT !.gen = n] \in Entry
           /\ \A n \in Nat : [e EXCEPT !.conf = n] \in Entry
           /\ \A n \in Nat : [e EXCEPT !.idleToken = n] \in Entry
           /\ \A n \in Nat : [e EXCEPT !.rev = n] \in Entry
           /\ \A b \in BOOLEAN : [e EXCEPT !.hasInput = b] \in Entry
           /\ \A b \in BOOLEAN : [e EXCEPT !.grace = b] \in Entry
           /\ \A b \in BOOLEAN : [e EXCEPT !.timer = b] \in Entry
           /\ \A b \in BOOLEAN : [e EXCEPT !.deadline = b] \in Entry
           /\ \A d \in Detection : [e EXCEPT !.input = d] \in Entry
           /\ \A s \in State : [e EXCEPT !.state = s] \in Entry
<1>1. \A n \in Nat : [e EXCEPT !.token = n] \in Entry
  BY DEF Entry
<1>2. \A n \in Nat : [e EXCEPT !.gen = n] \in Entry
  BY DEF Entry
<1>3. \A n \in Nat : [e EXCEPT !.conf = n] \in Entry
  BY DEF Entry
<1>4. \A n \in Nat : [e EXCEPT !.idleToken = n] \in Entry
  BY DEF Entry
<1>5. \A n \in Nat : [e EXCEPT !.rev = n] \in Entry
  BY DEF Entry
<1>6. \A b \in BOOLEAN : [e EXCEPT !.hasInput = b] \in Entry
  BY DEF Entry
<1>7. \A b \in BOOLEAN : [e EXCEPT !.grace = b] \in Entry
  BY DEF Entry
<1>8. \A b \in BOOLEAN : [e EXCEPT !.timer = b] \in Entry
  BY DEF Entry
<1>9. \A b \in BOOLEAN : [e EXCEPT !.deadline = b] \in Entry
  BY DEF Entry
<1>10. \A d \in Detection : [e EXCEPT !.input = d] \in Entry
  BY DEF Entry
<1>11. \A s \in State : [e EXCEPT !.state = s] \in Entry
  BY DEF Entry
<1> QED
  BY <1>1, <1>2, <1>3, <1>4, <1>5, <1>6, <1>7, <1>8, <1>9, <1>10, <1>11


\* The types of an entry's fields.
LEMMA Fields ==
    ASSUME NEW e \in Entry
    PROVE  /\ e.token \in Nat /\ e.gen \in Nat /\ e.conf \in Nat /\ e.idleToken \in Nat
           /\ e.rev \in Nat /\ e.input \in Detection /\ e.state \in State
           /\ {e.mon, e.hasInput, e.grace, e.timer, e.deadline} \subseteq BOOLEAN
BY DEF Entry

\* Stopping the idle candidate leaves an entry.
LEMMA CancelType ==
    ASSUME NEW e \in Entry
    PROVE  cancelIdleCandidate(e) \in Entry /\ stopTimers(e) \in Entry
<1>1. [e EXCEPT !.idleToken = e.idleToken + 1] \in Entry
  BY Setters, Fields
<1>2. cancelIdleCandidate(e) \in Entry
  BY <1>1, Setters DEF cancelIdleCandidate
<1> QED
  BY <1>2, Setters DEF stopTimers

\* updateState (store and entry) keeps the types.
LEMMA UpdateType ==
    ASSUME TypeOK, NEW e \in Entry, NEW s \in State, updateState(e, s)
    PROVE  entry' \in Entry /\ rec' \in [exists: BOOLEAN, state: State]
<1>1. [e EXCEPT !.state = s] \in Entry
  BY Setters
<1>2. e.rev \in Nat /\ e.rev + 1 \in Nat
  BY Fields
<1>3. [e EXCEPT !.state = s, !.rev = e.rev] \in Entry
  BY <1>1, <1>2, Setters
<1>4. [e EXCEPT !.state = s, !.rev = e.rev + 1] \in Entry
  BY <1>1, <1>2, Setters
<1>5. entry' \in Entry
  BY <1>3, <1>4 DEF updateState
<1>6. rec' \in [exists: BOOLEAN, state: State]
  BY DEF updateState, TypeOK
<1> QED
  BY <1>5, <1>6

\* Every detection but "skip" stands for a state.
LEMMA StateOfType ==
    ASSUME NEW d \in Detection, d # "skip"
    PROVE  StateOf(d) \in State
BY DEF Detection, StateOf, State

\* evaluateLocked keeps the types.
LEMMA EvaluateType ==
    ASSUME TypeOK, NEW e \in Entry, NEW ts \in SUBSET Callback, evaluate(e, ts)
    PROVE  Typed
<1>1. CASE e.input = "skip"
  BY <1>1, CancelType DEF evaluate, Typed, Unstopped, TypeOK
<1>2. CASE e.input # "skip" /\ e.state = "working" /\ e.input = "inferred"
  <2>1. startIdleCandidate(e, ts)
    BY <1>2 DEF evaluate
  <2>2. e.token \in Nat /\ e.idleToken + 1 \in Nat
    BY DEF Entry
  <2>3. \A k \in IdleTimers : AfterFunc(k, e.token, e.idleToken + 1) \in Callback
    BY <2>2, AfterFuncType DEF IdleTimers
  <2>4. timers' \in SUBSET Callback
    BY <2>1, <2>3 DEF startIdleCandidate
  <2>5. entry' \in Entry
    <3>1. [e EXCEPT !.conf = 0] \in Entry
      BY Setters
    <3>2. [e EXCEPT !.conf = 0, !.idleToken = e.idleToken + 1] \in Entry
      BY <2>2, <3>1, Setters
    <3>3. [e EXCEPT !.conf = 0, !.idleToken = @ + 1, !.timer = TRUE, !.deadline = TRUE] \in Entry
      BY <3>2, Setters
    <3> QED
      BY <2>1, <3>3 DEF startIdleCandidate
  <2> QED
    BY <2>1, <2>4, <2>5 DEF startIdleCandidate, Typed, TypeOK
<1>3. CASE e.input # "skip" /\ ~(e.state = "working" /\ e.input = "inferred")
  <2>1. updateState(cancelIdleCandidate(e), StateOf(e.input)) /\ timers' = Unstopped(ts, IdleTimers)
    BY <1>3 DEF evaluate
  <2>2. StateOf(e.input) \in State
    BY <1>3, StateOfType DEF Entry
  <2> QED
    BY <2>1, <2>2, CancelType, UpdateType DEF Unstopped, Typed
<1> QED
  BY <1>1, <1>2, <1>3

\* The end of a candidate keeps the types.
LEMMA SettleType ==
    ASSUME TypeOK, NEW x \in timers, Settle(x)
    PROVE  Typed
<1>1. timers' \in SUBSET Callback
  BY DEF Settle, Unstopped, TypeOK
<1>2. entry \in Entry
  BY DEF TypeOK
<1>3. CASE entry.input = "skip"
  BY <1>1, <1>2, <1>3, CancelType DEF Settle, Typed, TypeOK
<1>4. CASE entry.input # "skip"
  <2>1. StateOf(entry.input) \in State
    BY <1>2, <1>4, StateOfType DEF Entry
  <2> QED
    BY <1>1, <1>2, <1>4, <2>1, CancelType, UpdateType DEF Settle, Typed
<1> QED
  BY <1>3, <1>4

\* A new epoch keeps the type of the entry.
LEMMA ResetType ==
    ASSUME TypeOK
    PROVE  Reset(entry) \in Entry
<1> DEFINE f == stopTimers(entry)
<1>1. f \in Entry /\ nextToken + 1 \in Nat /\ "skip" \in Detection
  BY CancelType DEF TypeOK, Detection
<1> HIDE DEF f
<1>2. [f EXCEPT !.hasInput = FALSE] \in Entry
  BY <1>1, Setters
<1>3. [f EXCEPT !.hasInput = FALSE, !.input = "skip"] \in Entry
  BY <1>1, <1>2, Setters
<1>4. [f EXCEPT !.hasInput = FALSE, !.input = "skip", !.rev = 0] \in Entry
  BY <1>3, Setters
<1>5. [f EXCEPT !.hasInput = FALSE, !.input = "skip", !.rev = 0, !.token = nextToken + 1] \in Entry
  BY <1>1, <1>4, Setters
<1> QED
  BY <1>5 DEF Reset, f

\* The entry that stands for none is an entry.
LEMMA NoEntryType == NoEntry \in Entry
BY DEF NoEntry, Entry, Detection, State

\* Every step of the monitor keeps the types.
LEMMA TypeStep == TypeOK /\ [Next]_vars => TypeOK'
<1> SUFFICES ASSUME TypeOK, [Next]_vars PROVE TypeOK'
  OBVIOUS
<1> USE MonitorAssumption
<1>1. CASE Lifecycle
  <2>1. CASE Create
    BY <2>1 DEF Create, TypeOK, State
  <2>2. CASE Start
    <3>1. entry' \in Entry
      <4>1. [NoEntry EXCEPT !.mon = TRUE] \in Entry
        BY DEF State, Entry, NoEntry, Detection
      <4>2. nextToken + 1 \in Nat /\ rec.state \in State
        BY DEF TypeOK
      <4>3. [NoEntry EXCEPT !.mon = TRUE, !.token = nextToken + 1] \in Entry
        BY <4>1, <4>2, Setters
      <4> QED
        BY <2>2, <4>2, <4>3, Setters DEF Start
    <3> QED
      BY <2>2, <3>1 DEF Start, TypeOK, Stopped, Unstopped
  <2>3. CASE StartFails
    BY <2>3 DEF StartFails, TypeOK
  <2>4. CASE CleanupDelete
    BY <2>4 DEF CleanupDelete, TypeOK
  <2>5. CASE CleanupStop
    BY <2>5, NoEntryType DEF CleanupStop, Stop, TypeOK, Stopped, Unstopped
  <2>6. CASE Close
    BY <2>6, NoEntryType DEF Close, Stop, TypeOK, Stopped, Unstopped
  <2> QED
    BY <1>1, <2>1, <2>2, <2>3, <2>4, <2>5, <2>6 DEF Lifecycle
<1>2. CASE PaneClosedDelete
  BY <1>2 DEF PaneClosedDelete, TypeOK
<1>3. ASSUME NEW g \in 1..MaxGeneration, PaneOpened(g)
      PROVE  TypeOK'
  <2>1. Stopped(timers) \in SUBSET Callback
    BY DEF Stopped, Unstopped, TypeOK
  <2>2. Contrary(Stopped(timers)) \in SUBSET Callback
    BY <2>1, ContraryType
  <2>3. AfterFunc("grace", nextToken + 1, 0) \in Callback
    BY AfterFuncType DEF TypeOK
  <2>4. entry' \in Entry
    <3>1. [Reset(entry) EXCEPT !.gen = g] \in Entry
      BY ResetType, Setters
    <3> QED
      BY <1>3, <3>1, Setters DEF PaneOpened
  <2> QED
    BY <1>3, <2>2, <2>3, <2>4 DEF PaneOpened, TypeOK
<1>4. ASSUME NEW g \in 1..MaxGeneration, NEW d \in Detection, NEW some \in BOOLEAN,
             Observed(g, d, some)
      PROVE  TypeOK'
  <2> DEFINE e == [entry EXCEPT !.input = d, !.hasInput = some]
             ts == IF d = "inferred" THEN timers ELSE Contrary(timers)
  <2>1. e \in Entry
    <3>1. [entry EXCEPT !.input = d] \in Entry
      BY Setters DEF TypeOK
    <3> QED
      BY <3>1, Setters
  <2>2. ts \in SUBSET Callback
    BY ContraryType DEF TypeOK
  <2>3. (entry' = e /\ timers' = ts /\ UNCHANGED rec) \/ evaluate(e, ts)
    BY <1>4 DEF Observed
  <2>4. Typed
    <3> HIDE DEF e, ts
    <3> QED
      BY <2>1, <2>2, <2>3, EvaluateType DEF Typed, TypeOK
  <2> QED
    BY <1>4, <2>4 DEF Observed, Typed, TypeOK
<1>5. ASSUME NEW g \in 1..MaxGeneration, PaneClosed(g)
      PROVE  TypeOK'
  BY <1>5, NoEntryType DEF PaneClosed, Stop, TypeOK, Stopped, Unstopped
<1>6. ASSUME NEW g \in 1..MaxGeneration, PaneError(g)
      PROVE  TypeOK'
  <2>1. Stopped(timers) \in SUBSET Callback
    BY DEF Stopped, Unstopped, TypeOK
  <2>2. Contrary(Stopped(timers)) \in SUBSET Callback
    BY <2>1, ContraryType
  <2>3. updateState(Reset(entry), "unknown") /\ "unknown" \in State
    BY <1>6 DEF PaneError, State
  <2>4. entry' \in Entry /\ rec' \in [exists: BOOLEAN, state: State]
    BY <2>3, ResetType, UpdateType
  <2> QED
    BY <1>6, <2>2, <2>4 DEF PaneError, TypeOK
<1>7. ASSUME NEW x \in timers, Fire(x)
      PROVE  TypeOK'
  <2>1. [x EXCEPT !.fired = TRUE] \in Callback
    BY DEF TypeOK, Callback
  <2>2. calm' \in Nat
    BY <1>7 DEF Fire, TypeOK
  <2> QED
    BY <1>7, <2>1, <2>2 DEF Fire, TypeOK
<1>8. ASSUME NEW x \in timers, Run(x)
      PROVE  TypeOK'
  <2>0. entry \in Entry /\ timers \in SUBSET Callback /\ timers \ {x} \in SUBSET Callback
        /\ x \in Callback
    BY DEF TypeOK
  <2>1. CASE finishGrace(x)
    <3> DEFINE e == [entry EXCEPT !.grace = FALSE]
    <3>1. e \in Entry
      BY <2>0 DEF Entry
    <3>2. \/ timers' = timers \ {x} /\ UNCHANGED <<entry, rec>>
          \/ evaluate(e, timers \ {x})
          \/ entry' = e /\ timers' = timers \ {x} /\ UNCHANGED rec
      BY <2>1 DEF finishGrace
    <3> HIDE DEF e
    <3>3. Typed
      BY <2>0, <3>1, <3>2, EvaluateType DEF Typed, TypeOK
    <3> QED
      BY <1>8, <3>3 DEF Run, Typed, TypeOK
  <2>2. CASE confirmIdle(x)
    <3>1. AfterFunc("confirm", x.token, x.idle) \in Callback
      BY <2>0, AfterFuncType DEF Callback
    <3>2. [entry EXCEPT !.conf = @ + 1] \in Entry
      BY <2>0 DEF Entry
    <3>3. Typed
      BY <2>0, <2>2, <3>1, <3>2, SettleType DEF confirmIdle, Typed, TypeOK
    <3> QED
      BY <1>8, <3>3 DEF Run, Typed, TypeOK
  <2>3. CASE finishIdleDeadline(x)
    <3>1. Typed
      BY <2>0, <2>3, SettleType DEF finishIdleDeadline, Typed, TypeOK
    <3> QED
      BY <1>8, <3>1 DEF Run, Typed, TypeOK
  <2> QED
    BY <1>8, <2>1, <2>2, <2>3 DEF Run
<1>9. CASE UNCHANGED vars
  BY <1>9 DEF vars, TypeOK
<1>10. ASSUME NEW g \in 1..MaxGeneration, Observation(g)
       PROVE  TypeOK'
  <2>1. entry.hasInput \in BOOLEAN
    BY DEF TypeOK, Entry
  <2> QED
    BY <1>3, <1>4, <1>5, <1>6, <1>10, <2>1 DEF Observation, PaneOutput, PaneMetadata
<1> QED
  BY <1>1, <1>2, <1>7, <1>8, <1>9, <1>10 DEF Next

-----------------------------------------------------------------------------
(* What the helpers do to the entry and its timers.                        *)

Frame(e) ==
    /\ entry'.mon = e.mon /\ entry'.token = e.token /\ entry'.gen = e.gen
    /\ entry'.hasInput = e.hasInput /\ entry'.input = e.input /\ entry'.grace = e.grace

\* The state of the record follows the input.
Applied(e) ==
    /\ rec.exists /\ rec'.exists /\ e.input # "skip"
    /\ rec'.state = StateOf(e.input) /\ entry'.state = rec'.state
    /\ entry'.rev = IF rec.state # "working" /\ rec'.state = "working" THEN e.rev + 1 ELSE e.rev

NotApplied(e) ==
    /\ e.input = "skip" \/ ~rec.exists
    /\ rec' = rec /\ entry'.state = e.state /\ entry'.rev = e.rev

Ended(e, ts) ==
    /\ Frame(e) /\ entry'.idleToken = e.idleToken + 1 /\ ~entry'.timer /\ ~entry'.deadline
    /\ timers' = Unstopped(ts, IdleTimers)
    /\ Applied(e) \/ NotApplied(e)

Began(e, ts) ==
    /\ Frame(e) /\ rec' = rec /\ entry'.state = e.state /\ entry'.rev = e.rev
    /\ e.state = "working" /\ e.input = "inferred"
    /\ entry'.idleToken = e.idleToken + 1 /\ entry'.timer /\ entry'.deadline /\ entry'.conf = 0
    /\ timers' = ts \cup {AfterFunc(k, e.token, e.idleToken + 1) : k \in IdleTimers}

Kept(e, ts) ==
    /\ e.state = "working" /\ e.input = "inferred" /\ (e.timer \/ e.deadline)
    /\ entry' = e /\ timers' = ts /\ rec' = rec

\* updateState on an entry whose candidate was cancelled.
LEMMA UpdateEffect ==
    ASSUME TypeOK, NEW e \in Entry, e.input # "skip",
           updateState(cancelIdleCandidate(e), StateOf(e.input))
    PROVE  /\ Frame(e) /\ entry'.idleToken = e.idleToken + 1
           /\ ~entry'.timer /\ ~entry'.deadline
           /\ Applied(e) \/ NotApplied(e)
<1> DEFINE f == cancelIdleCandidate(e)
<1>1. /\ f.mon = e.mon /\ f.token = e.token /\ f.gen = e.gen /\ f.hasInput = e.hasInput
      /\ f.input = e.input /\ f.grace = e.grace /\ f.state = e.state /\ f.rev = e.rev
      /\ f.idleToken = e.idleToken + 1 /\ ~f.timer /\ ~f.deadline
  BY DEF cancelIdleCandidate, Entry
<1>2. f \in Entry
  BY CancelType
<1> HIDE DEF f
<1>3. CASE rec.exists
  <2>1. /\ rec' = [rec EXCEPT !.state = StateOf(e.input)]
        /\ entry' = [f EXCEPT !.state = StateOf(e.input),
                        !.rev = IF rec.state # "working" /\ StateOf(e.input) = "working"
                                THEN @ + 1 ELSE @]
    BY <1>3 DEF updateState, f
  <2>2. rec'.exists /\ rec'.state = StateOf(e.input)
    BY <1>3, <2>1 DEF TypeOK
  <2>3. /\ entry'.mon = f.mon /\ entry'.token = f.token /\ entry'.gen = f.gen
        /\ entry'.hasInput = f.hasInput /\ entry'.input = f.input /\ entry'.grace = f.grace
        /\ entry'.idleToken = f.idleToken /\ entry'.timer = f.timer
        /\ entry'.deadline = f.deadline /\ entry'.state = StateOf(e.input)
    BY <1>2, <2>1 DEF Entry
  <2>4. entry'.rev = IF rec.state # "working" /\ StateOf(e.input) = "working"
                     THEN f.rev + 1 ELSE f.rev
    BY <1>2, <2>1 DEF Entry
  <2> QED
    BY <1>1, <1>3, <2>2, <2>3, <2>4 DEF Frame, Applied
<1>4. CASE ~rec.exists
  BY <1>1, <1>4 DEF updateState, Frame, NotApplied, f
<1> QED
  BY <1>3, <1>4

\* evaluateLocked ends the candidate, begins one, or keeps the one there is.
LEMMA EvaluateEffect ==
    ASSUME TypeOK, NEW e \in Entry, NEW ts \in SUBSET Callback, evaluate(e, ts)
    PROVE  \/ Ended(e, ts) /\ ~(e.state = "working" /\ e.input = "inferred")
           \/ Began(e, ts) /\ ~e.timer /\ ~e.deadline
           \/ Kept(e, ts)
<1>1. CASE e.input = "skip"
  BY <1>1 DEF evaluate, cancelIdleCandidate, Entry, Ended, Frame, NotApplied
<1>2. CASE e.input # "skip" /\ e.state = "working" /\ e.input = "inferred"
  <2>1. CASE e.timer \/ e.deadline
    BY <1>2, <2>1 DEF evaluate, startIdleCandidate, Kept
  <2>2. CASE ~(e.timer \/ e.deadline)
    BY <1>2, <2>2 DEF evaluate, startIdleCandidate, Began, Frame, Entry
  <2> QED
    BY <2>1, <2>2
<1>3. CASE e.input # "skip" /\ ~(e.state = "working" /\ e.input = "inferred")
  BY <1>3, UpdateEffect DEF evaluate, Ended
<1> QED
  BY <1>1, <1>2, <1>3

\* The end of a candidate by one of its callbacks.
LEMMA SettleEffect ==
    ASSUME TypeOK, NEW x \in timers, Settle(x)
    PROVE  Ended(entry, timers \ {x})
<1>0. entry \in Entry
  BY DEF TypeOK
<1>1. CASE entry.input = "skip"
  BY <1>0, <1>1 DEF Settle, cancelIdleCandidate, Entry, Ended, Frame, NotApplied
<1>2. CASE entry.input # "skip"
  BY <1>0, <1>2, UpdateEffect DEF Settle, Ended
<1> QED
  BY <1>1, <1>2

-----------------------------------------------------------------------------
(* The invariant.                                                          *)

\* The tokens of an entry and of callbacks were given out.
TokOK(e, ts) ==
    /\ e.token <= nextToken /\ 1 <= e.token
    /\ \A x \in ts : /\ 1 <= x.token /\ x.token <= nextToken
                     /\ x.token = e.token => x.idle <= e.idleToken

\* What holds of the entry a helper is called with.
Ready(e, ts) ==
    /\ e \in Entry /\ ts \in SUBSET Callback /\ e.mon /\ ~e.grace /\ e.hasInput
    /\ rec.exists => e.state = rec.state
    /\ TokOK(e, ts)
    /\ evidence' = e.gen /\ calm' \in Nat /\ calm' <= idleConfirmationCount
    /\ nextToken' = nextToken /\ svc' = svc /\ svc \notin {"none", "created"}

\* Without a candidate the invariant says little.
LEMMA EndedInv ==
    ASSUME TypeOK, TypeOK', NEW e, NEW ts, Ready(e, ts), Ended(e, ts)
    PROVE  IInv'
<1>1. Synced'
  BY DEF Ready, Ended, Frame, Applied, NotApplied, Synced
<1>2. TokensIssued'
  <2>1. e.idleToken \in Nat
    BY Fields DEF Ready
  <2>2. \A x \in ts : x.idle \in Nat
    BY DEF Ready, Callback
  <2>3. timers' \subseteq ts
    BY DEF Ended, Unstopped
  <2>4. \A x \in ts : /\ 1 <= x.token /\ x.token <= nextToken
                      /\ x.token = e.token => x.idle <= e.idleToken + 1
    BY <2>1, <2>2 DEF Ready, TokOK
  <2>5. /\ entry'.token = e.token /\ entry'.idleToken = e.idleToken + 1
        /\ nextToken' = nextToken /\ e.token <= nextToken /\ 1 <= e.token
    BY DEF Ready, TokOK, Ended, Frame
  <2> QED
    BY <2>3, <2>4, <2>5 DEF TokensIssued
<1>3. CandidateShape' /\ CalmCounts' /\ OneConfirm'
  BY DEF Ready, Ended, CandidateShape, CalmCounts, OneConfirm
<1>4. EvidenceIsCurrent'
  BY DEF Ready, Ended, Frame, EvidenceIsCurrent
<1>5. CandidateIsPending'
  BY DEF Ready, Ended, Frame, Applied, NotApplied, CandidateIsPending, StateOf
<1> QED
  BY <1>1, <1>2, <1>3, <1>4, <1>5 DEF IInv

\* A new candidate has new tokens, so no old callback is one of its own.
LEMMA BeganInv ==
    ASSUME TypeOK, TypeOK', NEW e, NEW ts, Ready(e, ts), Began(e, ts)
    PROVE  IInv'
<1> USE MonitorAssumption
<1> DEFINE n == e.idleToken + 1
           new(k) == AfterFunc(k, e.token, n)
<1>0. e.idleToken \in Nat /\ n \in Nat /\ e.token \in Nat /\ \A x \in ts : x.idle \in Nat
  BY Fields DEF Ready, Callback
<1>1. \A k \in IdleTimers : /\ new(k).kind = k /\ new(k).token = e.token /\ new(k).idle = n
                            /\ ~new(k).fired /\ new(k).fresh
  BY DEF AfterFunc
<1>2. /\ entry'.token = e.token /\ entry'.idleToken = n /\ entry'.mon /\ entry'.deadline
      /\ entry'.timer /\ entry'.conf = 0 /\ ~entry'.grace /\ entry'.hasInput
      /\ entry'.input = "inferred" /\ entry'.gen = e.gen
  BY DEF Ready, Began, Frame
<1>3. timers' = ts \cup {new(k) : k \in IdleTimers}
  BY DEF Began
<1> HIDE DEF n, new
<1>4. \A x \in timers' : Current(x)' => \E k \in IdleTimers : x = new(k)
  <2>1. \A x \in ts : x.token = e.token => x.idle < n
    BY <1>0 DEF Ready, TokOK, n
  <2> QED
    BY <1>0, <1>2, <1>3, <2>1 DEF Current
<1>5. Synced'
  BY <1>2 DEF Ready, Began, Frame, Synced
<1>6. TokensIssued'
  <2>1. \A x \in ts : /\ 1 <= x.token /\ x.token <= nextToken
                      /\ x.token = e.token => x.idle <= n
    BY <1>0 DEF Ready, TokOK, n
  <2>2. e.token <= nextToken /\ 1 <= e.token
    BY DEF Ready, TokOK
  <2> QED
    BY <1>0, <1>1, <1>2, <1>3, <2>1, <2>2 DEF Ready, TokensIssued
<1>7. Armed("deadline", entry.idleToken)'
  BY <1>1, <1>2, <1>3 DEF Armed, IdleTimers
<1>8. CandidateShape' /\ CandidateIsPending'
  BY <1>2, <1>7 DEF CandidateShape, CandidateIsPending
<1>9. CalmCounts'
  BY <1>1, <1>2, <1>4 DEF CalmCounts, Ready
<1>10. OneConfirm'
  BY <1>1, <1>4 DEF OneConfirm
<1>11. EvidenceIsCurrent'
  BY <1>2 DEF Ready, EvidenceIsCurrent
<1> QED
  BY <1>5, <1>6, <1>8, <1>9, <1>10, <1>11 DEF IInv

\* A candidate that is kept keeps its callbacks.
LEMMA KeptInv ==
    ASSUME TypeOK, TypeOK', IInv, NEW e, NEW ts, Ready(e, ts), Kept(e, ts), calm' = calm,
           ts \subseteq timers, \A x \in timers \ ts : x.kind = "grace",
           e.token = entry.token, e.idleToken = entry.idleToken, e.conf = entry.conf,
           e.timer = entry.timer, e.deadline = entry.deadline, entry.mon
    PROVE  IInv'
<1>1. entry.deadline /\ entry.conf < idleConfirmationCount
      /\ \E x \in timers : x.kind = "deadline" /\ x.token = entry.token /\ x.idle = entry.idleToken
  BY DEF IInv, CandidateShape, Kept, Armed
<1>2. entry' = e /\ timers' = ts /\ rec' = rec /\ e.input = "inferred"
  BY DEF Kept
<1>3. Synced' /\ EvidenceIsCurrent'
  BY <1>2 DEF Ready, Synced, EvidenceIsCurrent
<1>9. TokensIssued'
  <2>1. TokOK(e, ts) /\ nextToken' = nextToken
    BY DEF Ready
  <2> QED
    BY <1>2, <2>1 DEF TokOK, TokensIssued
<1>4. Armed("deadline", entry.idleToken)'
  BY <1>1, <1>2 DEF Armed
<1>5. CandidateShape' /\ CandidateIsPending'
  BY <1>1, <1>2, <1>4 DEF Ready, CandidateShape, CandidateIsPending
<1>6. \A x \in timers' : Current(x)' => x \in timers /\ Current(x)
  BY <1>2 DEF Current
<1>7. CalmCounts'
  BY <1>1, <1>2, <1>6 DEF IInv, CalmCounts
<1>8. OneConfirm'
  BY <1>1, <1>6 DEF IInv, OneConfirm
<1> QED
  BY <1>3, <1>5, <1>7, <1>8, <1>9 DEF IInv

\* An entry without input has no candidate.
LEMMA BlankInv ==
    ASSUME Synced', TokensIssued', calm' <= idleConfirmationCount,
           ~entry'.timer, ~entry'.deadline, ~entry'.hasInput,
           entry'.grace => Armed("grace", 0)'
    PROVE  IInv'
BY DEF IInv, CandidateShape, CalmCounts, OneConfirm, EvidenceIsCurrent, CandidateIsPending

\* The fields of an entry whose epoch begins anew.
LEMMA ResetFields ==
    ASSUME TypeOK
    PROVE  LET f == Reset(entry) IN
           /\ f.mon = entry.mon /\ f.gen = entry.gen /\ f.state = entry.state /\ f.rev = 0
           /\ f.token = nextToken + 1 /\ f.input = "skip"
           /\ ~f.hasInput /\ ~f.grace /\ ~f.timer /\ ~f.deadline
<1>1. entry \in Entry
  BY DEF TypeOK
<1> QED
  BY <1>1 DEF Reset, stopTimers, cancelIdleCandidate, Entry

\* Callbacks that remain after a stop are callbacks of before.
LEMMA StoppedTokens ==
    ASSUME NEW ts
    PROVE  Stopped(ts) \subseteq ts
BY DEF Stopped, Unstopped

\* Contradicting callbacks changes none of what they captured.
LEMMA ContraryFields ==
    ASSUME NEW ts \in SUBSET Callback, NEW y \in Contrary(ts)
    PROVE  \E x \in ts : /\ y.kind = x.kind /\ y.token = x.token /\ y.idle = x.idle
                         /\ y.fired = x.fired
BY DEF Contrary, Callback

\* Stop, CleanupStop and Close: there is no entry any more.
LEMMA StopInv ==
    ASSUME TypeOK, TypeOK', IInv, Stop, nextToken' = nextToken, calm' = calm
    PROVE  IInv'
<1>0. /\ entry' = NoEntry /\ ~entry'.mon /\ entry'.token = 0 /\ entry'.idleToken = 0
      /\ ~entry'.timer /\ ~entry'.deadline /\ ~entry'.hasInput /\ ~entry'.grace
  BY DEF Stop, NoEntry
<1>1. Synced'
  BY <1>0 DEF Synced
<1>2. CandidateShape' /\ CalmCounts' /\ OneConfirm' /\ EvidenceIsCurrent' /\ CandidateIsPending'
  BY <1>0 DEF IInv, CalmCounts, CandidateShape, OneConfirm, EvidenceIsCurrent, CandidateIsPending
<1>3. TokensIssued'
  <2>1. \A x \in timers' : x \in timers
    BY StoppedTokens DEF Stop
  <2>2. \A x \in timers : x.token >= 1 /\ x.token <= nextToken
    BY DEF IInv, TokensIssued
  <2> QED
    BY <1>0, <2>1, <2>2 DEF TokensIssued, TypeOK
<1> QED
  BY <1>1, <1>2, <1>3 DEF IInv

\* PaneOpened and PaneError: a new epoch, known to no callback but its own.
LEMMA NewEpochInv ==
    ASSUME TypeOK, TypeOK', IInv, entry.mon, nextToken' = nextToken + 1, calm' = 0,
           entry'.mon, entry'.token = nextToken + 1, svc' = svc,
           ~entry'.timer, ~entry'.deadline, ~entry'.hasInput,
           rec'.exists => entry'.state = rec'.state,
           \A y \in timers' : \/ y = AfterFunc("grace", nextToken + 1, 0)
                              \/ y \in Contrary(Stopped(timers)),
           entry'.grace => AfterFunc("grace", nextToken + 1, 0) \in timers'
    PROVE  IInv'
<1> USE MonitorAssumption
<1> DEFINE a == AfterFunc("grace", nextToken + 1, 0)
<1>0. nextToken \in Nat /\ idleConfirmationCount \in Nat /\ timers \in SUBSET Callback
      /\ entry' \in Entry
  BY DEF TypeOK
<1>1. a.kind = "grace" /\ a.token = nextToken + 1 /\ a.idle = 0
  BY DEF AfterFunc
<1>2. \A y \in timers' : y = a \/ (1 <= y.token /\ y.token <= nextToken)
  <2>1. Stopped(timers) \in SUBSET Callback /\ Stopped(timers) \subseteq timers
    BY <1>0, StoppedTokens
  <2>2. \A x \in timers : 1 <= x.token /\ x.token <= nextToken
    BY DEF IInv, TokensIssued
  <2> QED
    BY <2>1, <2>2, ContraryFields
<1> HIDE DEF a
<1>3. TokensIssued'
  <2>1. entry'.idleToken \in Nat
    BY <1>0, Fields
  <2>2. \A y \in timers' : y.token \in Nat
    BY DEF TypeOK, Callback
  <2>3. ASSUME NEW y \in timers'
        PROVE  /\ 1 <= y.token /\ y.token <= nextToken'
               /\ y.token = entry'.token => y.idle <= entry'.idleToken
    <3>1. CASE y = a
      BY <1>0, <1>1, <2>1, <3>1
    <3>2. CASE y # a
      BY <1>0, <1>2, <2>2, <2>3, <3>2
    <3> QED
      BY <3>1, <3>2
  <2> QED
    BY <1>0, <2>3 DEF TokensIssued
<1>4. Synced'
  BY DEF IInv, Synced
<1>5. entry'.grace => Armed("grace", 0)'
  BY <1>1 DEF Armed, a
<1> QED
  BY <1>0, <1>3, <1>4, <1>5, BlankInv

\* A timer that expires changes only its own callback and the calm.
LEMMA FireInv ==
    ASSUME TypeOK, TypeOK', IInv, NEW x \in timers, Fire(x)
    PROVE  IInv'
<1> USE MonitorAssumption
<1> DEFINE y == [x EXCEPT !.fired = TRUE]
<1>0. /\ x \in Callback /\ calm \in Nat /\ calm' \in Nat /\ idleConfirmationCount \in Nat
      /\ entry.conf \in Nat /\ calm <= idleConfirmationCount
  BY Fields DEF TypeOK, IInv, CalmCounts
<1>1. /\ y.kind = x.kind /\ y.token = x.token /\ y.idle = x.idle /\ y.fresh = x.fresh /\ y.fired
  BY <1>0 DEF Callback
<1>2. timers' = (timers \ {x}) \cup {y} /\ ~x.fired
  BY DEF Fire
<1>3. entry' = entry /\ rec' = rec /\ svc' = svc /\ nextToken' = nextToken /\ evidence' = evidence
  BY DEF Fire
<1>4. calm <= calm' /\ calm' <= idleConfirmationCount
  BY <1>0 DEF Fire
<1> HIDE DEF y
<1>5. \A k, i : Armed(k, i) => Armed(k, i)'
  BY <1>1, <1>2, <1>3 DEF Armed
<1>6. Synced' /\ EvidenceIsCurrent' /\ TokensIssued'
  BY <1>1, <1>2, <1>3 DEF IInv, Synced, EvidenceIsCurrent, TokensIssued
<1>7. CandidateShape' /\ CandidateIsPending'
  BY <1>3, <1>5 DEF IInv, CandidateShape, CandidateIsPending
<1>8. CalmCounts'
  <2> SUFFICES ASSUME entry.deadline, NEW z \in timers', Current(z), z.kind \in IdleTimers
               PROVE  /\ z.fresh
                      /\ z.kind = "deadline" /\ z.fired => calm' = idleConfirmationCount
                      /\ z.kind = "confirm" =>
                            calm' = idleConfirmationCount
                            \/ (IF z.fired THEN entry.conf + 1 ELSE entry.conf) <= calm'
    BY <1>3, <1>4 DEF CalmCounts, Current
  <2>1. CASE z \in timers
    BY <1>0, <1>4, <2>1 DEF IInv, CalmCounts
  <2>2. CASE z = y
    <3>1. Current(x) /\ x.kind = z.kind
      BY <1>1, <2>2 DEF Current
    <3>2. x.fresh /\ (x.kind = "confirm" => calm = idleConfirmationCount \/ entry.conf <= calm)
      BY <1>2, <3>1 DEF IInv, CalmCounts
    <3>3. calm' = IF x.kind = "deadline" THEN idleConfirmationCount
                  ELSE IF calm < idleConfirmationCount THEN calm + 1 ELSE calm
      BY <3>1, <3>2 DEF Fire, IdleTimers
    <3>4. z.fresh /\ z.fired
      BY <1>1, <2>2, <3>2
    <3>5. CASE x.kind = "deadline"
      BY <3>1, <3>3, <3>4, <3>5
    <3>6. CASE x.kind = "confirm"
      BY <1>0, <3>1, <3>2, <3>3, <3>4, <3>6
    <3> QED
      BY <3>1, <3>5, <3>6 DEF IdleTimers
  <2> QED
    BY <1>2, <2>1, <2>2
<1>9. OneConfirm'
  <2> SUFFICES ASSUME entry.deadline, NEW u \in timers', NEW v \in timers',
                      Current(u), Current(v), u.kind = "confirm", v.kind = "confirm"
               PROVE  u = v
    BY <1>3 DEF OneConfirm, Current
  <2> DEFINE old(w) == IF w = y THEN x ELSE w
  <2>1. /\ old(u) \in timers /\ Current(old(u)) /\ old(u).kind = "confirm"
        /\ old(v) \in timers /\ Current(old(v)) /\ old(v).kind = "confirm"
    BY <1>1, <1>2 DEF Current
  <2>2. old(u) = old(v)
    BY <2>1 DEF IInv, OneConfirm
  <2> QED
    BY <1>2, <2>2
<1> QED
  BY <1>6, <1>7, <1>8, <1>9 DEF IInv

\* A callback that finds its tokens outdated, or nothing to do, just disappears.
LEMMA DropInv ==
    ASSUME TypeOK, IInv, NEW x \in timers, timers' = timers \ {x}, UNCHANGED <<entry, rec>>,
           UNCHANGED <<svc, nextToken, removal, evidence, calm>>,
           x.kind = "deadline" => ~Current(x) \/ ~entry.deadline,
           x.kind = "grace" => ~entry.mon \/ entry.token # x.token
    PROVE  IInv'
<1>1. Synced' /\ TokensIssued' /\ EvidenceIsCurrent'
  BY DEF IInv, Synced, TokensIssued, EvidenceIsCurrent
<1>2. entry.mon /\ entry.deadline /\ Armed("deadline", entry.idleToken)
         => Armed("deadline", entry.idleToken)'
  BY DEF Armed, Current
<1>3. entry.mon /\ entry.grace /\ Armed("grace", 0) => Armed("grace", 0)'
  BY DEF Armed
<1>4. entry.deadline => entry.mon
  BY DEF IInv, Synced, NoEntry
<1>5. CandidateShape' /\ CandidateIsPending'
  BY <1>2, <1>3, <1>4 DEF IInv, CandidateShape, CandidateIsPending
<1>6. CalmCounts' /\ OneConfirm'
  BY DEF IInv, CalmCounts, OneConfirm, Current
<1> QED
  BY <1>1, <1>5, <1>6 DEF IInv

\* Evaluating an entry that holds a candidate only if the present one does.
LEMMA EvaluateInv ==
    ASSUME TypeOK, TypeOK', IInv, NEW e, NEW ts, Ready(e, ts), evaluate(e, ts),
           Kept(e, ts) => IInv'
    PROVE  IInv'
<1>1. e \in Entry /\ ts \in SUBSET Callback
  BY DEF Ready
<1> QED
  BY <1>1, EvaluateEffect, EndedInv, BeganInv

\* PaneOutput and PaneMetadata.
LEMMA ObservedInv ==
    ASSUME TypeOK, TypeOK', IInv, NEW g \in 1..MaxGeneration, NEW d \in Detection,
           NEW some \in BOOLEAN, Observed(g, d, some), entry.hasInput => some
    PROVE  IInv'
<1> USE MonitorAssumption
<1> DEFINE e == [entry EXCEPT !.input = d, !.hasInput = some]
           ts == IF d = "inferred" THEN timers ELSE Contrary(timers)
<1>0. entry \in Entry /\ timers \in SUBSET Callback /\ calm \in Nat /\ calm <= idleConfirmationCount
      /\ idleConfirmationCount \in Nat /\ calm' \in Nat
  BY DEF TypeOK, IInv, CalmCounts
<1>1. /\ e.mon = entry.mon /\ e.token = entry.token /\ e.gen = entry.gen /\ e.grace = entry.grace
      /\ e.timer = entry.timer /\ e.deadline = entry.deadline /\ e.conf = entry.conf
      /\ e.idleToken = entry.idleToken /\ e.state = entry.state /\ e.rev = entry.rev
      /\ e.input = d /\ e.hasInput = some
  BY <1>0 DEF Entry
<1>2. e \in Entry
  <2>1. [entry EXCEPT !.input = d] \in Entry
    BY <1>0, Setters
  <2> QED
    BY <2>1, Setters
<1>3. ts \in SUBSET Callback
  BY <1>0, ContraryType
<1>4. /\ entry.mon /\ entry.gen = g
      /\ IF entry.grace \/ ~some THEN entry' = e /\ timers' = ts /\ UNCHANGED rec
                                 ELSE evaluate(e, ts)
      /\ calm' = (IF d = "inferred" THEN calm ELSE 0) /\ evidence' = g
      /\ svc' = svc /\ nextToken' = nextToken
  BY DEF Observed, sameMonitoredPane
<1>5. \A y \in ts : \E x \in timers :
          y.kind = x.kind /\ y.token = x.token /\ y.idle = x.idle
  BY <1>0, ContraryFields
<1>6. \A k \in {"grace", "deadline"}, i \in Nat : Armed(k, i) =>
          \E y \in ts : y.kind = k /\ y.token = entry.token /\ y.idle = i
  <2>1. \A x \in timers : \E y \in Contrary(timers) :
            y.kind = x.kind /\ y.token = x.token /\ y.idle = x.idle
    <3> TAKE x \in timers
    <3> DEFINE y == [x EXCEPT !.fresh = FALSE]
    <3>1. y \in Contrary(timers)
      BY DEF Contrary
    <3>2. x \in Callback
      BY <1>0
    <3>3. y.kind = x.kind /\ y.token = x.token /\ y.idle = x.idle
      BY <3>2 DEF Callback
    <3> HIDE DEF y
    <3> QED
      BY <3>1, <3>3
  <2> QED
    BY <2>1 DEF Armed
<1>7. TokOK(e, ts)
  <2>1. \A x \in timers : /\ 1 <= x.token /\ x.token <= nextToken
                          /\ x.token = entry.token => x.idle <= entry.idleToken
    BY DEF IInv, TokensIssued
  <2>2. entry.token <= nextToken /\ 1 <= entry.token
    BY <1>4 DEF IInv, TokensIssued
  <2> HIDE DEF e, ts
  <2> QED
    BY <1>1, <1>5, <2>1, <2>2 DEF TokOK
<1>8. CASE entry.grace \/ ~some
  <2>1. entry' = e /\ timers' = ts /\ rec' = rec
    BY <1>4, <1>8
  <2>2. ~entry.deadline /\ ~entry.timer
    BY <1>8 DEF IInv, CandidateShape
  <2> HIDE DEF e, ts
  <2>3. Synced' /\ TokensIssued' /\ EvidenceIsCurrent'
    BY <1>1, <1>4, <1>7, <2>1 DEF IInv, Synced, TokensIssued, TokOK, EvidenceIsCurrent
  <2>4. CandidateShape' /\ CalmCounts' /\ OneConfirm'
    BY <1>0, <1>1, <1>4, <2>1, <2>2 DEF CandidateShape, CalmCounts, OneConfirm
  <2>5. entry.grace => Armed("grace", 0)'
    BY <1>1, <1>4, <1>6, <2>1 DEF IInv, CandidateIsPending, Armed
  <2>6. CandidateIsPending'
    BY <1>1, <1>8, <2>1, <2>5 DEF CandidateIsPending
  <2> QED
    BY <2>3, <2>4, <2>6 DEF IInv
<1>9. CASE ~entry.grace /\ some
  <2>1. evaluate(e, ts)
    BY <1>4, <1>9
  <2>2. svc \notin {"none", "created"} /\ (rec.exists => entry.state = rec.state)
    BY <1>4 DEF IInv, Synced
  <2>3. (d = "inferred" => ts = timers)
    OBVIOUS
  <2> HIDE DEF e, ts
  <2>4. Ready(e, ts)
    BY <1>0, <1>1, <1>2, <1>3, <1>4, <1>7, <1>9, <2>2 DEF Ready
  <2>5. ASSUME Kept(e, ts)
        PROVE  IInv'
    <3>1. d = "inferred"
      BY <1>1, <2>5 DEF Kept
    <3>2. ts = timers /\ calm' = calm
      BY <1>4, <2>3, <3>1
    <3> QED
      BY <1>1, <1>4, <2>4, <2>5, <3>2, KeptInv
  <2> QED
    BY <2>1, <2>4, <2>5, EvaluateInv
<1> QED
  BY <1>8, <1>9

\* finishGrace
LEMMA FinishGraceInv ==
    ASSUME TypeOK, TypeOK', IInv, NEW x \in timers, x.kind = "grace", finishGrace(x),
           UNCHANGED <<svc, nextToken, removal, evidence, calm>>
    PROVE  IInv'
<1> USE MonitorAssumption
<1> DEFINE e == [entry EXCEPT !.grace = FALSE]
           ts == timers \ {x}
<1>0. entry \in Entry /\ timers \in SUBSET Callback /\ calm \in Nat /\ calm <= idleConfirmationCount
      /\ idleConfirmationCount \in Nat
  BY DEF TypeOK, IInv, CalmCounts
<1>1. /\ e.mon = entry.mon /\ e.token = entry.token /\ e.gen = entry.gen /\ ~e.grace
      /\ e.timer = entry.timer /\ e.deadline = entry.deadline /\ e.conf = entry.conf
      /\ e.idleToken = entry.idleToken /\ e.state = entry.state /\ e.rev = entry.rev
      /\ e.input = entry.input /\ e.hasInput = entry.hasInput
  BY <1>0 DEF Entry
<1>2. e \in Entry
  BY <1>0, Setters
<1>3. CASE ~entry.mon \/ entry.token # x.token
  BY <1>3, DropInv DEF finishGrace
<1>4. ASSUME entry.mon, entry.token = x.token, entry.hasInput
      PROVE  IInv'
  <2>1. evaluate(e, ts)
    BY <1>4 DEF finishGrace
  <2>2. /\ svc \notin {"none", "created"} /\ (rec.exists => entry.state = rec.state)
        /\ evidence = entry.gen
    BY <1>4 DEF IInv, Synced, EvidenceIsCurrent
  <2>3. TokOK(e, ts)
    <3>1. TokensIssued
      BY DEF IInv
    <3> QED
      BY <1>1, <1>4, <3>1 DEF TokOK, TokensIssued
  <2>4. ts \subseteq timers /\ \A y \in timers \ ts : y.kind = "grace"
    OBVIOUS
  <2> HIDE DEF e, ts
  <2>5. Ready(e, ts)
    BY <1>0, <1>1, <1>2, <1>4, <2>2, <2>3, <2>4 DEF Ready
  <2>6. Kept(e, ts) => IInv'
    BY <1>1, <1>4, <2>4, <2>5, KeptInv
  <2> QED
    BY <2>1, <2>5, <2>6, EvaluateInv
<1>5. ASSUME entry.mon, entry.token = x.token, ~entry.hasInput
      PROVE  IInv'
  <2>1. entry' = e /\ timers' = ts /\ rec' = rec
    BY <1>5 DEF finishGrace
  <2>2. ~entry.deadline /\ ~entry.timer
    BY <1>5 DEF IInv, CandidateShape
  <2>3. \A y \in ts : y \in timers
    OBVIOUS
  <2> HIDE DEF e, ts
  <2>4. Synced' /\ TokensIssued'
    BY <1>1, <1>5, <2>1, <2>3 DEF IInv, Synced, TokensIssued
  <2> QED
    BY <1>0, <1>1, <1>5, <2>1, <2>2, <2>4, BlankInv
<1> QED
  BY <1>3, <1>4, <1>5

\* A candidate that a callback settles was calm for long enough.
LEMMA SettledIsCalm ==
    ASSUME TypeOK, IInv, NEW x \in timers, x.fired, Current(x), entry.deadline,
           \/ x.kind = "deadline"
           \/ x.kind = "confirm" /\ ~(entry.conf + 1 < idleConfirmationCount)
    PROVE  calm = idleConfirmationCount
<1>1. calm \in Nat /\ idleConfirmationCount \in Nat /\ entry.conf \in Nat
  BY MonitorAssumption, Fields DEF TypeOK
<1>2. /\ calm <= idleConfirmationCount
      /\ x.kind = "deadline" => calm = idleConfirmationCount
      /\ x.kind = "confirm" => calm = idleConfirmationCount \/ entry.conf + 1 <= calm
  BY DEF IInv, CalmCounts, IdleTimers
<1> QED
  BY <1>1, <1>2

\* The end of a candidate.
LEMMA SettleInv ==
    ASSUME TypeOK, TypeOK', IInv, NEW x \in timers, Settle(x), Current(x), entry.deadline,
           UNCHANGED <<svc, nextToken, removal, evidence, calm>>
    PROVE  IInv'
<1>1. Ended(entry, timers \ {x})
  BY SettleEffect
<1>2. TokOK(entry, timers \ {x})
  BY DEF IInv, TokensIssued, TokOK, Current
<1>3. /\ entry.hasInput /\ ~entry.grace /\ entry.mon /\ evidence = entry.gen
      /\ rec.exists => entry.state = rec.state
      /\ svc \notin {"none", "created"} /\ calm <= idleConfirmationCount
  BY DEF IInv, CandidateShape, EvidenceIsCurrent, Synced, CalmCounts, Current
<1>4. Ready(entry, timers \ {x})
  BY <1>2, <1>3 DEF Ready, TypeOK
<1> QED
  BY <1>1, <1>4, EndedInv

\* confirmIdle
LEMMA ConfirmIdleInv ==
    ASSUME TypeOK, TypeOK', IInv, NEW x \in timers, x.kind = "confirm", x.fired, confirmIdle(x),
           UNCHANGED <<svc, nextToken, removal, evidence, calm>>
    PROVE  IInv'
<1> USE MonitorAssumption
<1>0. entry \in Entry /\ timers \in SUBSET Callback /\ entry.conf \in Nat
      /\ calm \in Nat /\ idleConfirmationCount \in Nat
  BY Fields DEF TypeOK
<1>1. CASE ~Current(x) \/ ~entry.timer
  BY <1>1, DropInv DEF confirmIdle
<1>2. ASSUME Current(x), entry.timer,
             entry.input = "inferred" /\ entry.conf + 1 < idleConfirmationCount
      PROVE  IInv'
  <2> DEFINE n == AfterFunc("confirm", x.token, x.idle)
  <2>1. /\ entry' = [entry EXCEPT !.conf = @ + 1] /\ rec' = rec
        /\ timers' = (timers \ {x}) \cup {n}
    BY <1>2 DEF confirmIdle
  <2>2. /\ n.kind = "confirm" /\ n.token = x.token /\ n.idle = x.idle /\ ~n.fired /\ n.fresh
    BY DEF AfterFunc
  <2> HIDE DEF n
  <2>3. /\ entry'.mon = entry.mon /\ entry'.token = entry.token /\ entry'.gen = entry.gen
        /\ entry'.grace = entry.grace /\ entry'.timer = entry.timer
        /\ entry'.deadline = entry.deadline /\ entry'.conf = entry.conf + 1
        /\ entry'.idleToken = entry.idleToken /\ entry'.state = entry.state
        /\ entry'.input = entry.input /\ entry'.hasInput = entry.hasInput
    BY <1>0, <2>1 DEF Entry
  <2>4. entry.deadline /\ entry.mon /\ entry.token = x.token /\ entry.idleToken = x.idle
        /\ ~entry.grace
    BY <1>2 DEF IInv, CandidateShape, Current
  <2>5. calm = idleConfirmationCount \/ entry.conf + 1 <= calm
    BY <1>2, <2>4 DEF IInv, CalmCounts, IdleTimers
  <2>6. Synced' /\ EvidenceIsCurrent'
    BY <2>1, <2>3, <2>4 DEF IInv, Synced, EvidenceIsCurrent
  <2>7. TokensIssued'
    <3>1. \A y \in timers' : y \in timers \/ (y.token = x.token /\ y.idle = x.idle)
      BY <2>1, <2>2
    <3> QED
      BY <2>3, <3>1 DEF IInv, TokensIssued
  <2>8. Armed("deadline", entry.idleToken)'
    BY <2>1, <2>3, <2>4 DEF IInv, CandidateShape, Armed
  <2>9. CandidateShape' /\ CandidateIsPending'
    BY <1>0, <1>2, <2>3, <2>4, <2>8 DEF IInv, CandidateShape, CandidateIsPending
  <2>10. \A y \in timers' : Current(y)' /\ y.kind = "confirm" => y = n
    <3>1. \A y \in timers : Current(y) /\ y.kind = "confirm" => y = x
      BY <1>2, <2>4 DEF IInv, OneConfirm
    <3> QED
      BY <2>1, <2>3, <3>1 DEF Current
  <2>11. OneConfirm'
    BY <2>10 DEF OneConfirm
  <2>12. CalmCounts'
    <3>1. \A y \in timers' : y.kind = "deadline" => y \in timers
      BY <2>1, <2>2
    <3>2. \A y \in timers' : Current(y)' => Current(y)
      BY <2>3 DEF Current
    <3>3. ASSUME NEW y \in timers', Current(y)', y.kind = "deadline"
          PROVE  y.fresh /\ (y.fired => calm' = idleConfirmationCount)
      BY <2>4, <3>1, <3>2, <3>3 DEF IInv, CalmCounts, IdleTimers
    <3>4. ASSUME NEW y \in timers', Current(y)', y.kind = "confirm"
          PROVE  y.fresh /\ ~y.fired /\ (calm' = idleConfirmationCount \/ entry'.conf <= calm')
      BY <2>2, <2>3, <2>5, <2>10, <3>4
    <3>5. calm' <= idleConfirmationCount
      BY DEF IInv, CalmCounts
    <3> QED
      BY <3>3, <3>4, <3>5 DEF CalmCounts, IdleTimers
  <2> QED
    BY <2>6, <2>7, <2>9, <2>11, <2>12 DEF IInv
<1>3. ASSUME Current(x), entry.timer,
             ~(entry.input = "inferred" /\ entry.conf + 1 < idleConfirmationCount)
      PROVE  IInv'
  <2>1. Settle(x)
    BY <1>3 DEF confirmIdle
  <2>2. entry.deadline
    BY <1>3 DEF IInv, CandidateShape
  <2> QED
    BY <1>3, <2>1, <2>2, SettleInv
<1> QED
  BY <1>1, <1>2, <1>3

\* PaneError: its fields, and the record, which no longer claims to know.
LEMMA PaneErrorEffect ==
    ASSUME TypeOK, NEW g, PaneError(g)
    PROVE  /\ entry.mon /\ entry'.mon = entry.mon /\ entry'.token = nextToken + 1
           /\ entry'.rev = 0 /\ ~entry'.grace
           /\ ~entry'.timer /\ ~entry'.deadline /\ ~entry'.hasInput
           /\ \/ rec.exists /\ rec'.exists /\ rec'.state = "unknown" /\ entry'.state = "unknown"
              \/ ~rec.exists /\ rec' = rec /\ entry'.state = entry.state
<1> DEFINE f == Reset(entry)
<1>0. f \in Entry /\ entry.mon /\ updateState(f, "unknown")
  BY ResetType DEF PaneError, sameMonitoredPane
<1>1. /\ f.mon = entry.mon /\ f.state = entry.state /\ f.rev = 0 /\ f.token = nextToken + 1
      /\ ~f.hasInput /\ ~f.grace /\ ~f.timer /\ ~f.deadline
  BY ResetFields
<1> HIDE DEF f
<1>2. CASE rec.exists
  <2>1. /\ rec' = [rec EXCEPT !.state = "unknown"]
        /\ entry' = [f EXCEPT !.state = "unknown", !.rev = f.rev]
    BY <1>0, <1>2 DEF updateState
  <2>2. rec'.exists /\ rec'.state = "unknown"
    BY <1>2, <2>1 DEF TypeOK
  <2> QED
    BY <1>0, <1>1, <1>2, <2>1, <2>2 DEF Entry
<1>3. CASE ~rec.exists
  BY <1>0, <1>1, <1>3 DEF updateState
<1> QED
  BY <1>2, <1>3

\* PaneOpened: its fields.
LEMMA PaneOpenedEffect ==
    ASSUME TypeOK, NEW g, PaneOpened(g)
    PROVE  /\ entry.mon /\ entry'.mon = entry.mon /\ entry'.token = nextToken + 1
           /\ entry'.rev = 0 /\ entry'.grace /\ entry'.state = entry.state
           /\ ~entry'.timer /\ ~entry'.deadline /\ ~entry'.hasInput
<1> DEFINE f == Reset(entry)
<1>0. f \in Entry /\ entry.mon /\ entry' = [f EXCEPT !.gen = g, !.grace = TRUE]
  BY ResetType DEF PaneOpened
<1>1. /\ f.mon = entry.mon /\ f.state = entry.state /\ f.rev = 0 /\ f.token = nextToken + 1
      /\ ~f.hasInput /\ ~f.timer /\ ~f.deadline
  BY ResetFields
<1> HIDE DEF f
<1> QED
  BY <1>0, <1>1 DEF Entry

\* Start: its fields.
LEMMA StartEffect ==
    ASSUME Start
    PROVE  /\ entry'.mon /\ entry'.token = nextToken + 1 /\ entry'.state = rec.state
           /\ entry'.rev = 0 /\ entry'.idleToken = 0
           /\ ~entry'.timer /\ ~entry'.deadline /\ ~entry'.hasInput /\ ~entry'.grace
BY DEF Start, NoEntry

\* A step that changes neither the entry nor its timers and makes no record.
LEMMA RecordGone ==
    ASSUME IInv, UNCHANGED <<entry, nextToken, timers, evidence, calm>>,
           ~rec'.exists \/ ~entry.mon,
           svc' \in {"none", "created"} => svc \in {"none", "created"}
    PROVE  IInv'
<1>1. Synced' /\ TokensIssued' /\ CandidateShape' /\ EvidenceIsCurrent'
  BY DEF IInv, Synced, TokensIssued, CandidateShape, Armed, EvidenceIsCurrent
<1>2. CalmCounts' /\ OneConfirm'
  BY DEF IInv, CalmCounts, OneConfirm, Current
<1>3. CandidateIsPending'
  BY DEF IInv, CandidateIsPending, Armed
<1> QED
  BY <1>1, <1>2, <1>3 DEF IInv

\* Every step keeps the invariant.
LEMMA InvStep == TypeOK /\ IInv /\ [Next]_vars => IInv'
<1> SUFFICES ASSUME TypeOK, IInv, [Next]_vars PROVE IInv'
  OBVIOUS
<1> USE MonitorAssumption
<1>0. TypeOK'
  BY TypeStep
<1>1. CASE Lifecycle
  <2>1. CASE Create \/ StartFails
    <3>1. ~entry.mon
      BY <2>1 DEF Create, StartFails, IInv, Synced
    <3> QED
      BY <2>1, <3>1, RecordGone DEF Create, StartFails
  <2>2. CASE Start
    <3>1. Synced'
      BY <2>2, StartEffect DEF Start, Synced
    <3>2. timers' \subseteq timers
      BY <2>2, StoppedTokens DEF Start
    <3>3. \A x \in timers : x.token \in Nat /\ 1 <= x.token /\ x.token <= nextToken
      BY DEF IInv, TokensIssued, TypeOK, Callback
    <3>4. TokensIssued'
      BY <2>2, <3>2, <3>3, StartEffect DEF Start, TokensIssued, TypeOK
    <3>5. calm' <= idleConfirmationCount
      BY <2>2 DEF Start, IInv, CalmCounts
    <3> QED
      BY <3>1, <3>4, <3>5, <2>2, StartEffect, BlankInv
  <2>3. CASE CleanupDelete
    <3>1. ~rec'.exists
      BY <2>3 DEF CleanupDelete, TypeOK
    <3> QED
      BY <2>3, <3>1, RecordGone DEF CleanupDelete
  <2>4. CASE CleanupStop \/ Close
    BY <1>0, <2>4, StopInv DEF CleanupStop, Close
  <2> QED
    BY <1>1, <2>1, <2>2, <2>3, <2>4 DEF Lifecycle
<1>2. CASE PaneClosedDelete
  <2>1. ~rec'.exists
    BY <1>2 DEF PaneClosedDelete, TypeOK
  <2> QED
    BY <1>2, <2>1, RecordGone DEF PaneClosedDelete
<1>3. ASSUME NEW g \in 1..MaxGeneration, PaneOpened(g)
      PROVE  IInv'
  <2>1. rec'.exists => entry'.state = rec'.state
    BY <1>3, PaneOpenedEffect DEF PaneOpened, IInv, Synced
  <2>2. /\ nextToken' = nextToken + 1 /\ calm' = 0 /\ svc' = svc
        /\ timers' = Contrary(Stopped(timers)) \cup {AfterFunc("grace", nextToken + 1, 0)}
    BY <1>3 DEF PaneOpened
  <2> QED
    BY <1>0, <1>3, <2>1, <2>2, PaneOpenedEffect, NewEpochInv
<1>4. ASSUME NEW g \in 1..MaxGeneration, PaneError(g)
      PROVE  IInv'
  <2>1. rec'.exists => entry'.state = rec'.state
    BY <1>4, PaneErrorEffect
  <2>2. /\ nextToken' = nextToken + 1 /\ calm' = 0 /\ svc' = svc
        /\ timers' = Contrary(Stopped(timers))
    BY <1>4 DEF PaneError
  <2> QED
    BY <1>0, <1>4, <2>1, <2>2, PaneErrorEffect, NewEpochInv
<1>5. ASSUME NEW g \in 1..MaxGeneration, PaneClosed(g)
      PROVE  IInv'
  BY <1>0, <1>5, StopInv DEF PaneClosed
<1>6. ASSUME NEW g \in 1..MaxGeneration, NEW d \in Detection,
             PaneOutput(g, d) \/ PaneMetadata(g, d)
      PROVE  IInv'
  <2>1. entry.hasInput \in BOOLEAN
    BY Fields DEF TypeOK
  <2> QED
    BY <1>0, <1>6, <2>1, ObservedInv DEF PaneOutput, PaneMetadata
<1>7. ASSUME NEW x \in timers, Fire(x)
      PROVE  IInv'
  BY <1>0, <1>7, FireInv
<1>8. ASSUME NEW x \in timers, Run(x)
      PROVE  IInv'
  <2>1. CASE x.kind = "grace" /\ finishGrace(x)
    BY <1>0, <1>8, <2>1, FinishGraceInv DEF Run
  <2>2. CASE x.kind = "confirm" /\ confirmIdle(x)
    BY <1>0, <1>8, <2>2, ConfirmIdleInv DEF Run
  <2>3. ASSUME x.kind = "deadline", finishIdleDeadline(x)
        PROVE  IInv'
    <3>1. UNCHANGED <<svc, nextToken, removal, evidence, calm>>
      BY <1>8 DEF Run
    <3>2. CASE ~Current(x) \/ ~entry.deadline
      BY <2>3, <3>1, <3>2, DropInv DEF finishIdleDeadline
    <3>3. CASE Current(x) /\ entry.deadline
      BY <1>0, <2>3, <3>1, <3>3, SettleInv DEF finishIdleDeadline
    <3> QED
      BY <3>2, <3>3
  <2> QED
    BY <1>8, <2>1, <2>2, <2>3 DEF Run
<1>9. CASE UNCHANGED vars
  BY <1>9 DEF vars, IInv, Synced, TokensIssued, CandidateShape, CalmCounts, OneConfirm,
              EvidenceIsCurrent, CandidateIsPending, Armed, Current
<1>10. ASSUME NEW g \in 1..MaxGeneration, Observation(g)
       PROVE  IInv'
  BY <1>3, <1>4, <1>5, <1>6, <1>10 DEF Observation
<1> QED
  BY <1>1, <1>2, <1>7, <1>8, <1>9, <1>10 DEF Next

-----------------------------------------------------------------------------
(* The theorems.                                                           *)

\* The monitor always satisfies its type invariant and the inductive invariant.
THEOREM Invariance == Spec => [](TypeOK /\ IInv)
<1>1. Init => TypeOK
  <2>1. Init => rec \in [exists: BOOLEAN, state: State]
    BY DEF Init, State
  <2>0. Init => removal \in BOOLEAN
    BY Zenon DEF Init
  <2>2. Init => timers \in SUBSET Callback
    BY DEF Init
  <2> QED
    BY <2>0, <2>1, <2>2, NoEntryType DEF Init, TypeOK
<1>2. Init => IInv
  BY MonitorAssumption DEF Init, NoEntry, IInv, Synced, TokensIssued, CandidateShape, CalmCounts,
     OneConfirm, EvidenceIsCurrent, CandidateIsPending
<1> QED
  BY <1>1, <1>2, TypeStep, InvStep, PTL DEF Spec

\* Type correctness of the monitor's entry, its timers and the store's record.
THEOREM TypeCorrect == Spec => []TypeOK
BY Invariance, PTL

\* The state is only derived from output of the pane generation that is bound.
THEOREM EvidenceHolds == Spec => []EvidenceIsCurrent
<1>1. IInv => EvidenceIsCurrent
  BY DEF IInv
<1> QED
  BY <1>1, Invariance, PTL

\* Every idle candidate and every grace period has a callback that will end it.
THEOREM CandidateHolds == Spec => []CandidateIsPending
<1>1. IInv => CandidateIsPending
  BY DEF IInv
<1> QED
  BY <1>1, Invariance, PTL

\* What a step of the monitor does to the epoch, the revision and the state: the
\* three facts the refinement and the confirmation of idle states rest on.
Same == entry'.mon = entry.mon /\ entry'.token = entry.token /\ nextToken' = nextToken

Moved == \* the state follows the input, in the same epoch
    /\ Same /\ entry.mon /\ rec.exists /\ rec.state = entry.state
    /\ rec'.state = entry'.state
    /\ entry'.rev = IF rec.state # "working" /\ rec'.state = "working"
                    THEN entry.rev + 1 ELSE entry.rev
    /\ rec.state = "working" /\ rec'.state = "idle" /\ entry'.input = "inferred"
          => calm = idleConfirmationCount

Still == Same /\ entry'.state = entry.state /\ entry'.rev = entry.rev /\ rec'.state = rec.state

Anew ==
    /\ nextToken' = nextToken + 1 /\ entry'.token = nextToken + 1 /\ entry'.rev = 0
    /\ rec'.state \in {rec.state, "unknown"}

Lost == entry' = NoEntry /\ nextToken' = nextToken /\ rec'.state = rec.state

\* The end of a candidate moves the state or leaves it.
LEMMA EndedMoves ==
    ASSUME TypeOK, IInv, NEW e \in Entry, NEW ts, Ended(e, ts), nextToken' = nextToken, entry.mon,
           e.mon = entry.mon, e.token = entry.token, e.state = entry.state, e.rev = entry.rev,
           entry.state = "working" /\ e.input = "inferred" => calm = idleConfirmationCount
    PROVE  Moved \/ Still
<1>1. rec.exists => rec.state = entry.state
  BY DEF IInv, Synced
<1>2. CASE Applied(e)
  BY <1>1, <1>2 DEF Ended, Frame, Applied, Same, Moved
<1>3. CASE NotApplied(e)
  BY <1>3 DEF Ended, Frame, NotApplied, Same, Still
<1> QED
  BY <1>2, <1>3 DEF Ended

\* Evaluating an entry moves the state or leaves it.
LEMMA EvaluateMoves ==
    ASSUME TypeOK, IInv, NEW e \in Entry, NEW ts \in SUBSET Callback, evaluate(e, ts),
           nextToken' = nextToken, entry.mon,
           e.mon = entry.mon, e.token = entry.token, e.state = entry.state, e.rev = entry.rev
    PROVE  Moved \/ Still
<1>1. CASE Ended(e, ts) /\ ~(e.state = "working" /\ e.input = "inferred")
  BY <1>1, EndedMoves
<1>2. CASE Began(e, ts)
  BY <1>2 DEF Began, Frame, Same, Still
<1>3. CASE Kept(e, ts)
  BY <1>3 DEF Kept, Same, Still
<1> QED
  BY <1>1, <1>2, <1>3, EvaluateEffect

\* PaneOutput and PaneMetadata.
LEMMA ObservedMoves ==
    ASSUME TypeOK, IInv, NEW g, NEW d \in Detection, NEW some \in BOOLEAN, Observed(g, d, some)
    PROVE  Moved \/ Still
<1> DEFINE e == [entry EXCEPT !.input = d, !.hasInput = some]
           ts == IF d = "inferred" THEN timers ELSE Contrary(timers)
<1>0. entry \in Entry /\ timers \in SUBSET Callback
  BY DEF TypeOK
<1>1. /\ e.mon = entry.mon /\ e.token = entry.token /\ e.state = entry.state /\ e.rev = entry.rev
  BY <1>0 DEF Entry
<1>2. e \in Entry
  <2>1. [entry EXCEPT !.input = d] \in Entry
    BY <1>0, Setters
  <2> QED
    BY <2>1, Setters
<1>3. ts \in SUBSET Callback
  BY <1>0, ContraryType
<1>4. /\ entry.mon /\ nextToken' = nextToken
      /\ (entry' = e /\ rec' = rec) \/ evaluate(e, ts)
  BY DEF Observed, sameMonitoredPane
<1> HIDE DEF e, ts
<1>5. CASE entry' = e /\ rec' = rec
  BY <1>1, <1>4, <1>5 DEF Same, Still
<1>6. CASE evaluate(e, ts)
  BY <1>1, <1>2, <1>3, <1>4, <1>6, EvaluateMoves
<1> QED
  BY <1>4, <1>5, <1>6

\* A callback moves the state, an inferred idle state only after enough calm.
LEMMA RunMoves ==
    ASSUME TypeOK, IInv, NEW x \in timers, Run(x)
    PROVE  Moved \/ Still
<1>0. /\ entry \in Entry /\ timers \ {x} \in SUBSET Callback /\ nextToken' = nextToken /\ x.fired
  BY DEF TypeOK, Run
<1>1. CASE UNCHANGED <<entry, rec>>
  BY <1>0, <1>1 DEF Same, Still
<1>2. CASE x.kind = "grace" /\ finishGrace(x)
  <2> DEFINE e == [entry EXCEPT !.grace = FALSE]
  <2>1. /\ e.mon = entry.mon /\ e.token = entry.token /\ e.state = entry.state /\ e.rev = entry.rev
    BY <1>0 DEF Entry
  <2>2. e \in Entry
    BY <1>0, Setters
  <2>3. \/ UNCHANGED <<entry, rec>>
        \/ entry.mon /\ evaluate(e, timers \ {x})
        \/ entry' = e /\ rec' = rec
    BY <1>2 DEF finishGrace
  <2> HIDE DEF e
  <2> QED
    BY <1>0, <1>1, <2>1, <2>2, <2>3, EvaluateMoves DEF Same, Still
<1>3. ASSUME Settle(x), Current(x), entry.deadline,
             \/ x.kind = "deadline"
             \/ x.kind = "confirm" /\ ~(entry.conf + 1 < idleConfirmationCount)
      PROVE  Moved \/ Still
  <2>1. Ended(entry, timers \ {x}) /\ calm = idleConfirmationCount /\ entry.mon
    BY <1>0, <1>3, SettleEffect, SettledIsCalm DEF Current
  <2> QED
    BY <1>0, <2>1, EndedMoves
<1>4. CASE x.kind = "confirm" /\ confirmIdle(x)
  <2>1. entry.timer => entry.deadline /\ entry.input = "inferred"
    BY DEF IInv, CandidateShape
  <2>2. \/ UNCHANGED <<entry, rec>>
        \/ entry' = [entry EXCEPT !.conf = @ + 1] /\ rec' = rec
        \/ /\ Settle(x) /\ Current(x) /\ entry.timer
           /\ ~(entry.input = "inferred" /\ entry.conf + 1 < idleConfirmationCount)
    BY <1>4 DEF confirmIdle
  <2>3. CASE entry' = [entry EXCEPT !.conf = @ + 1] /\ rec' = rec
    BY <1>0, <2>3 DEF Entry, Same, Still
  <2> QED
    BY <1>1, <1>3, <1>4, <2>1, <2>2, <2>3
<1>5. CASE x.kind = "deadline" /\ finishIdleDeadline(x)
  BY <1>1, <1>3, <1>5 DEF finishIdleDeadline
<1> QED
  BY <1>2, <1>4, <1>5 DEF Run

\* Every step does one of these to the entry, or makes or deletes the record.
LEMMA StepMoves ==
    ASSUME TypeOK, IInv, [Next]_vars
    PROVE  Moved \/ Still \/ Anew \/ Lost \/ (Create /\ entry' = entry /\ nextToken' = nextToken)
<1>1. CASE Lifecycle
  <2>1. CASE StartFails \/ CleanupDelete
    BY <2>1 DEF StartFails, CleanupDelete, TypeOK, Same, Still
  <2>2. CASE Start
    BY <2>2, StartEffect DEF Start, Anew
  <2>3. CASE CleanupStop \/ Close
    BY <2>3 DEF CleanupStop, Close, Stop, Lost
  <2> QED
    BY <1>1, <2>1, <2>2, <2>3 DEF Lifecycle, Create
<1>2. CASE PaneClosedDelete
  BY <1>2 DEF PaneClosedDelete, TypeOK, Same, Still
<1>3. ASSUME NEW g \in 1..MaxGeneration, Observation(g)
      PROVE  Moved \/ Still \/ Anew \/ Lost
  <2>1. CASE PaneOpened(g)
    BY <2>1, PaneOpenedEffect DEF PaneOpened, Anew
  <2>2. CASE PaneClosed(g)
    BY <2>2 DEF PaneClosed, Stop, Lost
  <2>3. CASE PaneError(g)
    <3>1. nextToken' = nextToken + 1
      BY <2>3 DEF PaneError
    <3> QED
      BY <2>3, <3>1, PaneErrorEffect DEF Anew
  <2>4. ASSUME NEW d \in Detection, PaneOutput(g, d) \/ PaneMetadata(g, d)
        PROVE  Moved \/ Still
    <3>1. entry.hasInput \in BOOLEAN
      BY Fields DEF TypeOK
    <3> QED
      BY <2>4, <3>1, ObservedMoves DEF PaneOutput, PaneMetadata
  <2> QED
    BY <1>3, <2>1, <2>2, <2>3, <2>4 DEF Observation
<1>4. ASSUME NEW x \in timers, Fire(x)
      PROVE  Still
  BY <1>4 DEF Fire, Same, Still
<1>5. CASE UNCHANGED vars
  BY <1>5 DEF vars, Same, Still
<1> QED
  BY <1>1, <1>2, <1>3, <1>4, <1>5, RunMoves DEF Next

\* No working agent is declared idle on inference before the confirmation delays
\* have passed, whatever callbacks of earlier candidates are still to come.
THEOREM ConfirmedIdle == Spec => IdleIsConfirmed
<1>1. TypeOK /\ IInv /\ [Next]_vars =>
        [rec.state = "working" /\ rec'.state = "idle" /\ entry'.input = "inferred"
            => calm = idleConfirmationCount]_vars
  <2> SUFFICES ASSUME TypeOK, IInv, [Next]_vars, rec.state = "working", rec'.state = "idle",
                      entry'.input = "inferred"
               PROVE  calm = idleConfirmationCount
    OBVIOUS
  <2>1. CASE Moved
    BY <2>1 DEF Moved
  <2>2. CASE Still \/ Anew \/ Lost
    BY <2>2 DEF Still, Anew, Lost
  <2>3. CASE Create
    BY <2>3 DEF Create
  <2> QED
    BY <2>1, <2>2, <2>3, StepMoves
<1> QED
  BY <1>1, Invariance, PTL DEF Spec, IdleIsConfirmed

\* The monitor keeps what MonitorEpochs promises its readers.
THEOREM EpochsHold == Spec => ImplementsEpochs
<1>1. Init => Epochs!Init
  BY DEF Init, NoEntry, Epochs!Init
<1>2. TypeOK /\ IInv /\ [Next]_vars
        => [Epochs!Next]_<<entry.token, entry.rev, nextToken,
                           entry.mon /\ entry.state = "working">>
  <2> SUFFICES ASSUME TypeOK, IInv, [Next]_vars
               PROVE  [Epochs!Next]_<<entry.token, entry.rev, nextToken,
                                      entry.mon /\ entry.state = "working">>
    OBVIOUS
  <2>0. nextToken \in Nat /\ entry.token \in Nat /\ entry.rev \in Nat
    BY Fields DEF TypeOK
  <2>1. CASE Moved
    BY <2>0, <2>1 DEF Moved, Same, Epochs!Next, Epochs!Work, Epochs!Rest
  <2>2. CASE Still
    BY <2>2 DEF Still, Same
  <2>3. CASE Anew
    BY <2>0, <2>3 DEF Anew, Epochs!Next, Epochs!Begin
  <2>4. CASE Lost
    BY <2>4 DEF Lost, NoEntry, Epochs!Next, Epochs!Lose
  <2>5. CASE entry' = entry /\ nextToken' = nextToken
    BY <2>5
  <2> QED
    BY <2>1, <2>2, <2>3, <2>4, <2>5, StepMoves
<1> QED
  BY <1>1, <1>2, Invariance, PTL DEF Spec, ImplementsEpochs, Epochs!Spec, Epochs!vars

=============================================================================
