----------------------------- MODULE AgentFocus -----------------------------
(***************************************************************************)
(* Moving the focus from agent to agent (internal/codingagent/service.go:  *)
(* FocusAgent, FocusNextAgent, FocusPreviousAgent and the choice of        *)
(* adjacentAgentRecord).  The service remembers the agent focused last and *)
(* the latest time at which it has seen an agent become idle; agents come, *)
(* go and change state between two requests.                               *)
(***************************************************************************)
EXTENDS Integers, FiniteSets, SequencesExt

CONSTANTS
    Count,      \* agents, numbered in the order of creation
    MaxClock    \* bound: state changes

ASSUME FocusAssumption == Count \in Nat \ {0} /\ MaxClock \in Nat

VARIABLES
    record,    \* the store: [there, idle, pinned, changed] of each agent
    changes,   \* time of the last state change
    last,      \* lastFocusedID, 0 if none
    seenIdle   \* lastSeenIdleStateChangedAt

focusVars == <<record, changes, last, seenIdle>>

Numbers == 1 .. Count
Filters == [idleOnly : BOOLEAN, pin : {"any", "pinned", "unpinned"}]

FocusInit ==
    /\ record = [a \in Numbers |-> [there |-> TRUE, idle |-> FALSE, pinned |-> FALSE, changed |-> 0]]
    /\ changes = 0
    /\ last = 0
    /\ seenIdle = 0

-----------------------------------------------------------------------------
Eligible(filter) ==
    {a \in Numbers :
       /\ record[a].there
       /\ filter.idleOnly => record[a].idle
       /\ filter.pin = "pinned" => record[a].pinned
       /\ filter.pin = "unpinned" => ~record[a].pinned}

\* The order of store.List, or the agents idle most recently first.
Before(filter, a, b) ==
    IF filter.idleOnly /\ record[a].changed # record[b].changed
    THEN record[a].changed > record[b].changed
    ELSE a < b

\* The eligible agents in that order: the n-th has n - 1 before it.
Ordered(filter) ==
    [n \in 1 .. Cardinality(Eligible(filter)) |->
       CHOOSE a \in Eligible(filter) : Cardinality({b \in Eligible(filter) : Before(filter, b, a)}) = n - 1]

\* Slip: the last agent has no successor.
AdjacentWithoutWrap(seq, at, step) == IF at + step \in DOMAIN seq THEN seq[at + step] ELSE seq[at]

\* The neighbour on a ring.
Adjacent(seq, at, step) == seq[((at - 1 + step + Len(seq)) % Len(seq)) + 1]

\* An agent that became idle since the last idle one was seen comes first.
JumpsToNewest(filter, seq, seen) == filter.idleOnly /\ record[seq[1]].changed > seen

\* adjacentAgentRecord, for a cursor and a time; 0 if nobody is eligible.
adjacentAgentRecord(filter, step, current, seen) ==
    LET seq == Ordered(filter)
    IN  IF seq = <<>> THEN 0
        ELSE IF JumpsToNewest(filter, seq, seen) THEN seq[1]
        ELSE IF current \in ToSet(seq)
             THEN Adjacent(seq, CHOOSE i \in DOMAIN seq : seq[i] = current, step)
             ELSE IF step < 0 THEN seq[Len(seq)] ELSE seq[1]

SeenAfter(filter, a, seen) ==
    IF filter.idleOnly /\ record[a].changed > seen THEN record[a].changed ELSE seen

\* focusAdjacentAgent; focusing may fail, and then nothing is remembered.
FocusAdjacent(filter, step) ==
    LET a == adjacentAgentRecord(filter, step, last, seenIdle)
    IN  /\ a # 0
        /\ \/ last' = a /\ seenIdle' = SeenAfter(filter, a, seenIdle)
           \/ UNCHANGED <<last, seenIdle>>
        /\ UNCHANGED <<record, changes>>

FocusAgent(a) ==
    /\ record[a].there
    /\ last' = a
    /\ UNCHANGED <<record, changes, seenIdle>>

SetPinned(a) ==
    /\ record[a].there
    /\ record' = [record EXCEPT ![a].pinned = ~@]
    /\ UNCHANGED <<changes, last, seenIdle>>

AgentChanges(a) ==
    /\ record[a].there /\ changes < MaxClock
    /\ changes' = changes + 1
    /\ record' = [record EXCEPT ![a].idle = ~@, ![a].changed = changes + 1]
    /\ UNCHANGED <<last, seenIdle>>

AgentLeaves(a) ==
    /\ record[a].there
    /\ record' = [record EXCEPT ![a].there = FALSE]
    /\ UNCHANGED <<changes, last, seenIdle>>

FocusNext ==
    \/ \E filter \in Filters, step \in {-1, 1} : FocusAdjacent(filter, step)
    \/ \E a \in Numbers : FocusAgent(a) \/ SetPinned(a) \/ AgentChanges(a) \/ AgentLeaves(a)

-----------------------------------------------------------------------------
(* Properties.                                                             *)

\* Pressing a key n times, while nobody changes state.
Presses(filter, step) ==
    LET press[n \in 0 .. Count] ==
          IF n = 0 THEN [at |-> last, seen |-> seenIdle]
          ELSE LET a == adjacentAgentRecord(filter, step, press[n - 1].at, press[n - 1].seen)
               IN  [at |-> a, seen |-> SeenAfter(filter, a, press[n - 1].seen)]
    IN  press

\* From any cursor, as many presses as there are agents visit every eligible one,
\* forwards and backwards, also when some have become idle in the meantime.
EveryAgentVisited ==
    \A filter \in Filters, step \in {-1, 1} :
       LET press == Presses(filter, step)
           n == Cardinality(Eligible(filter))
       IN  {press[i].at : i \in 1 .. n} = Eligible(filter)

\* Once nobody is newly idle, going forwards and back returns to the same agent.
PreviousUndoesNext ==
    \A filter \in Filters :
       LET next == adjacentAgentRecord(filter, 1, last, seenIdle)
       IN  last \in Eligible(filter) /\ ~JumpsToNewest(filter, Ordered(filter), seenIdle) =>
              adjacentAgentRecord(filter, -1, next, seenIdle) = last

\* The keys for next and previous go round a ring of the eligible agents.
FocusGoesRound == EveryAgentVisited /\ PreviousUndoesNext
=============================================================================
