------------------------ MODULE TicketManagerProofs ------------------------
(***************************************************************************)
(* Proofs about TicketManager for every set of tickets, every number of    *)
(* slots and every value of its bounds.                                    *)
(***************************************************************************)
EXTENDS TicketManager, SequenceTheorems, NaturalsInduction, WellFoundedInduction, TLAPS

-----------------------------------------------------------------------------
(* The inductive invariant                                                 *)

PassOp  == {"retry", "connect", "snapshot", "fill", "stop"}
InnerOp == Op \ PassOp

\* Some slot works on the ticket.
Held(t) == \E s \in Slots : slot[s].state # "empty" /\ slot[s].ticket = t

\* No create is about to register a worker.
Settled(t) == t \in strays \/ (call[t] \in {"running", "made"} => rec[t] # "none")

\* Nothing of the ticket runs either.
Quiescent(t) == Settled(t) /\ (t \in strays \/ ~live[t])

\* Only a registered, not terminal pane runs.
PaneOK(t) == live[t] => rec[t] \in {"active", "error"}

\* What a pass in mode m still has to look at, and a call inside one.
PassItem(m) ==
    [op: {"retry", "snapshot", "fill"}, s: Slots] \cup [op: {"connect"}, s: {0}]
    \cup [op: IF m = "stopping" THEN {"stop"} ELSE {}, s: Slots]
InnerItem == [op: InnerOp, s: Slots]

\* Inside a pass there is one call at a time; what follows are whole slots.
PassShape ==
    /\ todo \in Seq(PassItem(mode) \cup InnerItem)
    /\ todo # <<>> => mode # "anchor" /\ Tail(todo) \in Seq(PassItem(mode))

\* What the manager awaits is the answer for the slot it is at.
ReplyShape ==
    /\ waiting # 0 => \E s \in Slots : (At("await", s) \/ At("reawait", s)) /\ waiting = T(s)
    /\ reply \in {"ok", "safe"} => waiting # 0
    /\ waiting # 0 /\ reply = "ok" => call[waiting] = "ok"
    /\ waiting # 0 /\ reply = "safe"
          => call[waiting] = "none" /\ (waiting \in strays \/ ~live[waiting])

\* The slot of the call at hand is in use.
HeadInUse == \A s \in Slots, op \in InnerOp : At(op, s) => slot[s].state # "empty"

\* How the fields of a slot in use relate to each other and to the call at hand.
SlotShape(s) ==
    /\ slot[s].ticket \in Tickets
    /\ slot[s].creationUncertain => slot[s].state = "cleanup_failed" /\ ~slot[s].paneCreated
    /\ slot[s].state \in {"working", "completing", "closing"}
          => slot[s].paneCreated /\ ~slot[s].creationUncertain
    /\ slot[s].state = "closing" => slot[s].done
    /\ At("prepare", s) \/ At("await", s) \/ At("requeue", s)
          => slot[s].state = "starting" /\ ~slot[s].paneCreated /\ ~slot[s].creationUncertain
    /\ At("verify", s) \/ At("exists", s) => slot[s].state = "working"
    /\ At("complete", s) => slot[s].state = "completing"
    /\ At("close", s) => slot[s].state = "closing"
    /\ At("cleanup", s) => slot[s].state = "cleanup_failed"
    /\ At("absent", s) => /\ slot[s].done \/ slot[s].state = "cleanup_failed" \/ mode = "stopping"
                          /\ ~slot[s].creationUncertain
    /\ At("putback", s) => ~slot[s].creationUncertain
    /\ At("recreate", s) \/ At("reawait", s) \/ At("reinspect", s) => slot[s].creationUncertain

\* What the daemon may do for the ticket of a slot: anything while the outcome of a
\* create is open, nothing new once it is known; and without a pane nothing runs.
SlotKnows(s) ==
    /\ ~slot[s].creationUncertain /\ ~At("await", s) => Settled(T(s))
    /\ ~slot[s].creationUncertain /\ ~slot[s].paneCreated /\ ~At("await", s) => Quiescent(T(s))
    /\ At("putback", s) => Quiescent(T(s))

SlotOK(s) == slot[s].state # "empty" => SlotShape(s) /\ SlotKnows(s)

\* A ticket that nobody holds is at rest.
ReleasedIsQuiescent == \A t \in Tickets : Held(t) \/ Quiescent(t)

IInv ==
    /\ TypeOK /\ PassShape /\ HeadInUse /\ ReplyShape
    /\ \A t \in Tickets : PaneOK(t)
    /\ \A s \in Slots : SlotOK(s)
    /\ ReleasedIsQuiescent /\ OneSlotPerTicket

\* The manager's tickets are in progress.
OwnedIsInProgress == \A t \in Tickets : owner[t] = "manager" => status[t] = "in_progress"

\* A marker on its way is earned.
MarkersAreEarned == \A t \in Tickets : OnItsWay(t) => earned[t]

-----------------------------------------------------------------------------
(* The pass                                                                *)

LEMMA TodoTyped ==
    ASSUME NEW m, NEW q \in Seq(PassItem(m) \cup InnerItem), ManagerAssumption
    PROVE  q \in Seq([op: Op, s: 0..MaxWorkers])
<1>1. PassItem(m) \cup InnerItem \subseteq [op: Op, s: 0..MaxWorkers]
  BY DEF PassItem, InnerItem, InnerOp, PassOp, Op, Slots, ManagerAssumption
<1> QED
  BY <1>1, SeqMonotonic

\* A pass item is not a call inside a pass.
LEMMA PassIsNotInner ==
    ASSUME NEW m, NEW i \in PassItem(m)
    PROVE  i.op \notin InnerOp
BY DEF PassItem, InnerOp, PassOp

\* After the pass has gone on to its next slot no call is at hand.
LEMMA Returned ==
    ASSUME PassShape, mode' = mode, todo # <<>>, Return
    PROVE  PassShape' /\ \A op \in InnerOp, s \in Slots : ~At(op, s)'
<1> DEFINE I == PassItem(mode)  J == PassItem(mode) \cup InnerItem  tl == Tail(todo)
<1>1. tl \in Seq(I) /\ mode # "anchor"
  BY DEF PassShape
<1>2. tl \in Seq(J)
  BY <1>1, SeqMonotonic
<1>3. tl # <<>> => Tail(tl) \in Seq(I)
  BY <1>1, HeadTailProperties
<1>4. PassItem(mode)' = I /\ InnerItem' = InnerItem /\ todo' = tl
  BY DEF PassItem, InnerItem, Return
<1>5. PassShape'
  BY <1>1, <1>2, <1>3, <1>4 DEF PassShape
<1>6. ASSUME NEW op \in InnerOp, NEW s \in Slots, At(op, s)' PROVE FALSE
  <2>1. tl # <<>> /\ tl[1] = [op |-> op, s |-> s]
    BY <1>4, <1>6 DEF At
  <2>2. Len(tl) \in Nat \ {0}
    BY <1>1, <2>1, EmptySeq
  <2>3. tl[1] \in I
    <3> HIDE DEF tl, I
    <3> QED
      BY <1>1, <2>2, ElementOfSeq
  <2>4. tl[1].op \notin InnerOp /\ tl[1].op = op
    BY <2>1, <2>3, PassIsNotInner
  <2> QED
    BY <2>4, <1>6
<1> QED
  BY <1>5, <1>6

LEMMA Ended ==
    ASSUME EndPass
    PROVE  PassShape' /\ \A op, s : ~At(op, s)'
BY EmptySeq DEF PassShape, EndPass, At

\* After a call has led to another one, that one is at hand and no other.
LEMMA Went ==
    ASSUME PassShape, mode' = mode, todo # <<>>, NEW op, NEW s \in Slots,
           [op |-> op, s |-> s] \in PassItem(mode) \cup InnerItem,
           \/ Goto(op, s)
           \/ todo' = <<[op |-> op, s |-> s]>>
    PROVE  PassShape' /\ \A o, r : At(o, r)' <=> o = op /\ r = s
<1> DEFINE I == PassItem(mode)  J == PassItem(mode) \cup InnerItem  tl == Tail(todo)
           h == [op |-> op, s |-> s]  hd == <<h>>
<1>1. tl \in Seq(I) /\ tl \in Seq(J)
  BY SeqMonotonic DEF PassShape
<1>2. hd \in Seq(J) /\ Len(hd) = 1 /\ hd[1] = h
  OBVIOUS
<1>3. PassItem(mode)' = I /\ InnerItem' = InnerItem /\ mode # "anchor"
  BY DEF PassItem, InnerItem, PassShape
<1>4. \A o, r : [op |-> o, s |-> r] = h <=> o = op /\ r = s
  OBVIOUS
<1>5. SUFFICES todo' # <<>> /\ todo'[1] = h /\ todo' \in Seq(J) /\ Tail(todo') \in Seq(I)
  BY <1>3, <1>4 DEF PassShape, At
<1>6. CASE todo' = hd
  <2>1. Tail(hd) = <<>>
    OBVIOUS
  <2> QED
    BY <1>2, <1>6, <2>1, EmptySeq
<1>7. CASE Goto(op, s)
  <2>1. todo' = hd \o tl
    BY <1>7 DEF Goto
  <2> HIDE DEF I, J, tl, hd, h
  <2>2. /\ hd \o tl \in Seq(J)
        /\ Len(hd \o tl) = Len(hd) + Len(tl)
        /\ \A i \in 1 .. Len(hd) + Len(tl) :
              (hd \o tl)[i] = IF i <= Len(hd) THEN hd[i] ELSE tl[i - Len(hd)]
    BY <1>1, <1>2, ConcatProperties, Zenon
  <2> DEFINE c == hd \o tl
  <2>3. c \in Seq(J) /\ Len(c) = 1 + Len(tl) /\ Len(tl) \in Nat
    BY <2>2, <1>2, <1>1, LenProperties
  <2>4. \A i \in 1 .. 1 + Len(tl) : c[i] = IF i <= 1 THEN h ELSE tl[i - 1]
    BY <2>2, <1>2
  <2>5. todo' = c
    BY <2>1
  <2> HIDE DEF c
  <2>6. c # <<>> /\ c[1] = h
    BY <2>3, <2>4, EmptySeq
  <2>7. Tail(c) = tl
    <3>1. Tail(c) \in Seq(J) /\ Len(Tail(c)) = Len(tl)
      BY <2>3, <2>6, HeadTailProperties
    <3>2. \A i \in 1 .. Len(Tail(c)) : Tail(c)[i] = c[i + 1]
      BY <2>3, <2>6, HeadTailProperties
    <3>3. \A i \in 1 .. Len(tl) : Tail(c)[i] = tl[i]
      BY <3>1, <3>2, <2>3, <2>4
    <3> QED
      BY <3>1, <3>3, <1>1, SeqEqual
  <2> QED
    BY <2>3, <2>5, <2>6, <2>7, <1>1
<1> QED
  BY <1>6, <1>7

\* The passes that the loop starts.
LEMMA PassTyped ==
    ASSUME NEW op, NEW m, [op: {op}, s: Slots] \subseteq PassItem(m), ManagerAssumption
    PROVE  Pass(op) \in Seq(PassItem(m))
<1>1. \A s \in Slots : [op |-> op, s |-> s] \in PassItem(m)
  OBVIOUS
<1>2. Pass(op) \in [1..MaxWorkers -> PassItem(m)]
  BY <1>1 DEF Pass, Slots
<1> QED
  BY <1>2, SeqDef DEF ManagerAssumption

\* A sequence of pass items is a pass.
LEMMA PassStarts ==
    ASSUME NEW q \in Seq(PassItem(mode')), todo' = q, mode' # "anchor"
    PROVE  PassShape' /\ \A op \in InnerOp, s \in Slots : ~At(op, s)'
<1> DEFINE I == PassItem(mode')  J == PassItem(mode') \cup InnerItem
<1>1. q \in Seq(I) /\ q \in Seq(J)
  BY SeqMonotonic
<1>2. q # <<>> => Tail(q) \in Seq(I) /\ Len(q) \in Nat \ {0}
  BY <1>1, HeadTailProperties, EmptySeq
<1>3. PassShape'
  BY <1>1, <1>2 DEF PassShape, PassItem, InnerItem
<1>4. ASSUME NEW op \in InnerOp, NEW s \in Slots, At(op, s)' PROVE FALSE
  <2>1. q # <<>> /\ q[1] = [op |-> op, s |-> s]
    BY <1>4 DEF At
  <2>2. q[1] \in I
    BY <1>1, <1>2, <2>1, ElementOfSeq
  <2>3. q[1].op \notin InnerOp /\ q[1].op = op
    BY <2>1, <2>2, PassIsNotInner
  <2> QED
    BY <2>3, <1>4
<1> QED
  BY <1>3, <1>4

\* The call at hand is one.
LEMMA OneHead ==
    ASSUME NEW op, NEW s, At(op, s)
    PROVE  todo # <<>> /\ \A o, r : At(o, r) <=> o = op /\ r = s
<1>1. \A o, r : [op |-> o, s |-> r] = [op |-> op, s |-> s] <=> o = op /\ r = s
  OBVIOUS
<1> QED
  BY <1>1 DEF At

LEMMA OldestReady ==
    ASSUME ManagerAssumption, Ready # {}
    PROVE  Oldest \in Ready
<1>1. Ready \subseteq Nat
  BY DEF Ready, ManagerAssumption
<1> DEFINE R == OpToRel(<, Nat)
<1>2. \A u, t \in Nat : u < t => <<u, t>> \in R
  BY DEF OpToRel
<1>3. IsWellFoundedOn(R, Nat)
  BY NatLessThanWellFounded
<1> HIDE DEF R
<1>4. PICK t \in Ready : \A u \in Ready : ~(<<u, t>> \in R)
  BY <1>1, <1>3, WFMin
<1>5. \A u \in Ready : ~(u < t)
  BY <1>1, <1>2, <1>4, Zenon
<1>6. \A u \in Ready : t <= u
  BY <1>1, <1>5
<1> QED
  BY <1>6 DEF Oldest

-----------------------------------------------------------------------------
(* Types                                                                   *)

\* What ClosePane and SnapshotOutput may answer.
LEMMA CloseOutcome ==
    ASSUME NEW t, NEW o \in ClosePane(t)
    PROVE  \/ o.rec = rec[t] /\ o.live = live[t] /\ o.ok = FALSE
           \/ rec[t] # "none" /\ o.rec = FailedClose(rec[t]) /\ o.live = live[t] /\ o.ok = FALSE
           \/ rec[t] # "none" /\ live[t] /\ o.rec = "gone" /\ o.live = FALSE
<1>1. CASE o = Unreachable(t)
  BY <1>1 DEF Unreachable
<1>2. CASE rec[t] # "none" /\ o = [rec |-> FailedClose(rec[t]), live |-> live[t], ok |-> FALSE]
  BY <1>2
<1>3. CASE rec[t] # "none" /\ live[t] /\ o \in [rec: {"gone"}, live: {FALSE}, ok: BOOLEAN]
  BY <1>3
<1> QED
  BY <1>1, <1>2, <1>3, Zenon DEF ClosePane

LEMMA SnapshotOutcome ==
    ASSUME NEW t, NEW o \in SnapshotOutput(t)
    PROVE  \/ o.rec = rec[t] /\ o.seen = "error"
           \/ rec[t] = "none" /\ o.rec = "none" /\ o.seen = "notfound"
           \/ rec[t] # "none" /\ o.rec = FailedSnapshot(rec[t]) /\ o.seen = "error"
           \/ /\ rec[t] # "none" /\ live[t] /\ o.rec = rec[t]
              /\ o.seen = IF printed[t] /\ rec[t] = "active" THEN "marker" ELSE "plain"
<1>1. CASE o = [rec |-> rec[t], seen |-> "error"]
  BY <1>1
<1>2. CASE rec[t] = "none" /\ o = [rec |-> "none", seen |-> "notfound"]
  BY <1>2
<1>3. CASE rec[t] # "none" /\ o = [rec |-> FailedSnapshot(rec[t]), seen |-> "error"]
  BY <1>3
<1>4. CASE /\ rec[t] # "none" /\ live[t]
           /\ o = [rec |-> rec[t],
                   seen |-> IF printed[t] /\ rec[t] = "active" THEN "marker" ELSE "plain"]
  BY <1>4
<1> QED
  BY <1>1, <1>2, <1>3, <1>4, Zenon DEF SnapshotOutput

LEMMA AnswersTyped ==
    ASSUME PaneTypeOK, NEW t \in Tickets
    PROVE  /\ \A o \in ClosePane(t) : o.rec \in RecState /\ o.live \in BOOLEAN
           /\ \A o \in SnapshotOutput(t) : o.rec \in RecState
<1>1. rec[t] \in RecState /\ live[t] \in BOOLEAN
  BY DEF PaneTypeOK
<1>2. FailedClose(rec[t]) \in RecState /\ FailedSnapshot(rec[t]) \in RecState
  BY <1>1 DEF FailedClose, FailedSnapshot, RecState
<1> QED
  BY <1>1, <1>2, CloseOutcome, SnapshotOutcome DEF RecState

\* Everything but the pass keeps its type in a step of the daemon.
LEMMA DaemonTyped ==
    ASSUME PaneTypeOK, NEW t \in Tickets, NEW w, DaemonStep(t, w) \/ Interference(t, w)
    PROVE  PaneTypeOK'
<1> USE DEF PaneTypeOK, CallState, RecState
<1>1. CASE resolveCreatePaneTarget(t)
  BY <1>1 DEF resolveCreatePaneTarget, finishCreatePane
<1>2. CASE BackendFails(t)
  BY <1>2 DEF BackendFails, finishCreatePane
<1>3. CASE createBackendPane(t)
  BY <1>3 DEF createBackendPane
<1>4. CASE createPaneOnce(t)
  BY <1>4 DEF createPaneOnce, finishCreatePane
<1>5. CASE WorkerExits(t)
  BY <1>5 DEF WorkerExits
<1>6. CASE handlePaneClosed(t, w)
  BY <1>6 DEF handlePaneClosed, Removes
<1>7. CASE reconcileRecord(t)
  BY <1>7 DEF reconcileRecord
<1>8. CASE Cleanup(t, w)
  BY <1>8 DEF Cleanup, Removes
<1>9. CASE PaneFails(t)
  BY <1>9 DEF PaneFails, FailedSnapshot
<1> QED
  BY <1>1, <1>2, <1>3, <1>4, <1>5, <1>6, <1>7, <1>8, <1>9
  DEF DaemonStep, CreatePane, Interference

\* A slot remains one when the fields that say what is known of its worker change.
LEMMA SlotFields ==
    ASSUME NEW sl \in Slot
    PROVE  /\ [sl EXCEPT !.creationUncertain = FALSE, !.paneCreated = TRUE] \in Slot
           /\ [sl EXCEPT !.state = "cleanup_failed", !.creationUncertain = TRUE] \in Slot
<1>1. PICK no, yes \in BOOLEAN : no = FALSE /\ yes = TRUE
  OBVIOUS
<1>2. [sl EXCEPT !.creationUncertain = no] \in Slot
  BY DEF Slot
<1>3. PICK sl2 : sl2 = [sl EXCEPT !.creationUncertain = no]
  OBVIOUS
<1>4. [sl2 EXCEPT !.paneCreated = yes] \in Slot
  BY <1>2, <1>3 DEF Slot
<1>5. [sl EXCEPT !.creationUncertain = no, !.paneCreated = yes] = [sl2 EXCEPT !.paneCreated = yes]
  BY <1>2, <1>3 DEF Slot
<1>6. [sl EXCEPT !.state = "cleanup_failed", !.creationUncertain = yes] \in Slot
  BY DEF Slot, SlotState
<1> QED
  BY <1>1, <1>4, <1>5, <1>6, Zenon

\* The ticket of a slot in use is a ticket.
TicketsHeld == \A s \in Slots : slot[s].state # "empty" => T(s) \in Tickets

\* So does every slot keep its type in a step of the manager.
LEMMA SlotTyped ==
    ASSUME TypeOK, ManagerAssumption, NEW s \in Slots, SlotStep(s),
           TicketsHeld, HeadInUse, PassShape'
    PROVE  TypeOK'
<1>0. todo' \in Seq([op: Op, s: 0..MaxWorkers])
  BY TodoTyped DEF PassShape, PassItem, InnerItem
<1>t. /\ status \in [Tickets -> Status] /\ slot \in [Slots -> Slot]
      /\ owner \in [Tickets -> {"none", "manager", "user", "elsewhere"}]
      /\ rec \in [Tickets -> RecState] /\ live \in [Tickets -> BOOLEAN]
      /\ printed \in [Tickets -> BOOLEAN] /\ call \in [Tickets -> CallState]
  BY DEF TypeOK, PaneTypeOK
<1>e. EmptySlot \in Slot
  BY DEF EmptySlot, Slot, SlotState
<1>u. ASSUME UNCHANGED <<mode, stream, events, ops, earned>>,
             status' \in [Tickets -> Status], slot' \in [Slots -> Slot],
             owner' \in [Tickets -> {"none", "manager", "user", "elsewhere"}], PaneTypeOK'
      PROVE  TypeOK'
  BY <1>0, <1>u DEF TypeOK
<1>p. UNCHANGED paneVars => PaneTypeOK'
  BY DEF TypeOK, PaneTypeOK, paneVars
<1>v. ASSUME UNCHANGED <<call, waiting, reply, strays>>, rec' \in [Tickets -> RecState],
             live' \in [Tickets -> BOOLEAN], printed' \in [Tickets -> BOOLEAN]
      PROVE  PaneTypeOK'
  BY <1>v DEF TypeOK, PaneTypeOK
<1>w. \A op : At(op, s) /\ op \in InnerOp => T(s) \in Tickets
  BY DEF TicketsHeld, HeadInUse
<1>i. {"prepare", "await", "requeue", "verify", "exists", "complete", "close", "absent",
       "cleanup", "putback", "recreate", "reawait", "reinspect"} \subseteq InnerOp
  BY DEF InnerOp, Op, PassOp
<1>c. Closed(s) => slot' \in [Slots -> Slot]
  <2> DEFINE b == mode = "stopping"
  <2>1. b \in BOOLEAN
    OBVIOUS
  <2> HIDE DEF b
  <2>2. [slot[s] EXCEPT !.paneCreated = b] \in Slot
    BY <2>1, <1>t DEF Slot
  <2>3. Closed(s) => \/ slot' = [slot EXCEPT ![s] = EmptySlot]
                     \/ slot' = [slot EXCEPT ![s].paneCreated = b]
    BY DEF Closed, Release, b
  <2> QED
    BY <2>2, <2>3, <1>e, <1>t
<1>f. Found(s) => slot' \in [Slots -> Slot]
  <2>1. [slot[s] EXCEPT !.creationUncertain = FALSE, !.paneCreated = TRUE] \in Slot
    <3>1. slot[s] \in Slot
      BY <1>t
    <3> QED
      BY <3>1, SlotFields, Zenon
  <2> QED
    BY <2>1, <1>t DEF Found
<1>1. CASE Skip(s) \/ NothingToClaim(s) \/ PrepareFails(s)
  BY <1>1, <1>u, <1>p, <1>t DEF Skip, NothingToClaim, PrepareFails
<1>2. CASE Claim(s)
  <2>1. Oldest \in Tickets
    BY <1>2, OldestReady DEF Claim, Ready
  <2>2. [EmptySlot EXCEPT !.state = "starting", !.ticket = Oldest] \in Slot
    BY <2>1 DEF EmptySlot, Slot, SlotState
  <2>3. slot' \in [Slots -> Slot]
    BY <1>2, <1>t, <2>2 DEF Claim
  <2>4. status' \in [Tickets -> Status] /\ owner' \in [Tickets -> {"none", "manager", "user", "elsewhere"}]
    BY <1>2, <1>t, <2>1 DEF Claim, Status
  <2> QED
    BY <1>2, <2>3, <2>4, <1>u, <1>p DEF Claim
<1>3. CASE SendCreate(s)
  <2>1. T(s) \in Tickets
    BY <1>3, <1>w, <1>i DEF SendCreate
  <2>2. PaneTypeOK'
    BY <1>3, <2>1 DEF SendCreate, TypeOK, PaneTypeOK, beginCreatePane, CallState
  <2> QED
    BY <1>3, <2>2, <1>u, <1>t DEF SendCreate
<1>4. CASE CreateReturns(s)
  <2>1. slot' \in [Slots -> Slot]
    BY <1>4, <1>e, <1>t DEF CreateReturns, Slot, SlotState
  <2>2. PaneTypeOK'
    BY <1>4 DEF CreateReturns, Answer, TypeOK, PaneTypeOK
  <2> QED
    BY <1>4, <2>1, <2>2, <1>u, <1>t DEF CreateReturns
<1>5. CASE requeueWithoutPane(s)
  <2>1. slot' \in [Slots -> Slot]
    BY <1>5, <1>e, <1>t DEF requeueWithoutPane, Release, Slot, SlotState
  <2>2. status' \in [Tickets -> Status] /\ owner' \in [Tickets -> {"none", "manager", "user", "elsewhere"}]
    BY <1>5, <1>t DEF requeueWithoutPane, Requeue, ticketVars, Status
  <2> QED
    BY <1>5, <2>1, <2>2, <1>u, <1>p DEF requeueWithoutPane
<1>6. CASE workerExists(s)
  <2>1. slot' \in [Slots -> Slot]
    BY <1>6, <1>e, <1>t DEF workerExists, completeSlot, Slot, SlotState
  <2> QED
    BY <1>6, <2>1, <1>u, <1>p, <1>t DEF workerExists
<1>7. CASE CompletionSnapshot(s)
  <2>1. T(s) \in Tickets
    BY <1>7, <1>w, <1>i DEF CompletionSnapshot
  <2>2. slot' \in [Slots -> Slot]
    <3>1. \/ UNCHANGED slot
          \/ slot' = [slot EXCEPT ![s].state = "completing"]
      BY <1>7 DEF CompletionSnapshot, completeSlot
    <3> QED
      BY <3>1, <1>t DEF Slot, SlotState
  <2>3. PaneTypeOK'
    <3>1. PICK o \in SnapshotOutput(T(s)) : rec' = [rec EXCEPT ![T(s)] = o.rec]
      BY <1>7 DEF CompletionSnapshot
    <3>2. o.rec \in RecState
      BY <2>1, AnswersTyped DEF TypeOK
    <3> QED
      BY <1>7, <3>1, <3>2, <1>t, <1>v DEF CompletionSnapshot
  <2> QED
    BY <1>7, <2>2, <2>3, <1>u, <1>t DEF CompletionSnapshot
<1>8. CASE recoverSnapshot(s)
  <2>1. T(s) \in Tickets
    BY <1>8 DEF recoverSnapshot, TicketsHeld
  <2>2. slot' \in [Slots -> Slot]
    BY <1>8, <1>e, <1>t DEF recoverSnapshot, completeSlot, Slot, SlotState
  <2>3. PaneTypeOK'
    BY <1>8, <2>1, <1>t, <1>v, AnswersTyped DEF recoverSnapshot, TypeOK
  <2> QED
    BY <1>8, <2>2, <2>3, <1>u, <1>t DEF recoverSnapshot
<1>9. CASE retryComplete(s)
  <2>1. slot' \in [Slots -> Slot]
    BY <1>9, <1>e, <1>t DEF retryComplete, Slot, SlotState
  <2>2. status' \in [Tickets -> Status] /\ owner' \in [Tickets -> {"none", "manager", "user", "elsewhere"}]
    BY <1>9, <1>t DEF retryComplete, ticketVars, Status
  <2> QED
    BY <1>9, <2>1, <2>2, <1>u, <1>p DEF retryComplete
<1>10. CASE close(s)
  <2>1. T(s) \in Tickets
    BY <1>10, <1>w, <1>i DEF close, WantsClose, Cleaning, TicketsHeld
  <2>2. slot' \in [Slots -> Slot]
    BY <1>10, <1>c, <1>t DEF close
  <2>3. PaneTypeOK'
    <3>1. PICK o \in ClosePane(T(s)) :
              /\ rec' = [rec EXCEPT ![T(s)] = o.rec]
              /\ live' = [live EXCEPT ![T(s)] = o.live]
              /\ printed' = [printed EXCEPT ![T(s)] = @ /\ o.live]
      BY <1>10 DEF close
    <3>2. o.rec \in RecState /\ o.live \in BOOLEAN
      BY <2>1, AnswersTyped DEF TypeOK
    <3>3. rec' \in [Tickets -> RecState] /\ live' \in [Tickets -> BOOLEAN]
      BY <3>1, <3>2, <1>t
    <3>4. printed' \in [Tickets -> BOOLEAN]
      BY <3>1, <1>t
    <3> QED
      BY <1>10, <3>3, <3>4, <1>v DEF close
  <2> QED
    BY <1>10, <2>2, <2>3, <1>u, <1>t DEF close
<1>11. CASE orAbsent(s)
  <2>1. slot' \in [Slots -> Slot]
    BY <1>11, <1>c, <1>t DEF orAbsent
  <2> QED
    BY <1>11, <2>1, <1>u, <1>p, <1>t DEF orAbsent
<1>12. CASE PutBack(s)
  <2>1. slot' \in [Slots -> Slot]
    BY <1>12, <1>e, <1>t DEF PutBack, Release, Slot, SlotState
  <2>2. status' \in [Tickets -> Status] /\ owner' \in [Tickets -> {"none", "manager", "user", "elsewhere"}]
    BY <1>12, <1>t DEF PutBack, Requeue, ticketVars, Status
  <2> QED
    BY <1>12, <2>1, <2>2, <1>u, <1>p DEF PutBack
<1>13. CASE Inspect(s)
  <2>1. slot' \in [Slots -> Slot]
    BY <1>13, <1>f, <1>t DEF Inspect
  <2> QED
    BY <1>13, <2>1, <1>u, <1>p, <1>t DEF Inspect
<1>14. CASE RecreateReturns(s)
  <2>1. slot' \in [Slots -> Slot]
    <3>1. [slot EXCEPT ![s].creationUncertain = FALSE] \in [Slots -> Slot]
      <4>1. PICK no \in BOOLEAN : no = FALSE
        OBVIOUS
      <4>2. [slot EXCEPT ![s].creationUncertain = no] \in [Slots -> Slot]
        BY <1>t DEF Slot
      <4> QED
        BY <4>1, <4>2, Zenon
    <3> QED
      BY <1>14, <1>f, <1>t, <3>1 DEF RecreateReturns
  <2>2. PaneTypeOK'
    BY <1>14 DEF RecreateReturns, Answer, TypeOK, PaneTypeOK
  <2> QED
    BY <1>14, <2>1, <2>2, <1>u, <1>t DEF RecreateReturns
<1>15. CASE Reinspect(s)
  <2>1. slot' \in [Slots -> Slot]
    BY <1>15, <1>f, <1>t DEF Reinspect
  <2> QED
    BY <1>15, <2>1, <1>u, <1>p, <1>t DEF Reinspect
<1> QED
  BY <1>1, <1>2, <1>3, <1>4, <1>5, <1>6, <1>7, <1>8, <1>9, <1>10, <1>11, <1>12,
     <1>13, <1>14, <1>15 DEF SlotStep

-----------------------------------------------------------------------------
(* What a step has to keep                                                 *)

LEMMA IsTicketsHeld == IInv => TicketsHeld
BY DEF IInv, SlotOK, SlotShape, TicketsHeld, T

\* While the manager does not await a CreatePane nothing is awaited.
LEMMA NotAwaiting ==
    ASSUME ReplyShape, \A s \in Slots : ~At("await", s) /\ ~At("reawait", s)
    PROVE  waiting = 0 /\ reply \notin {"ok", "safe"}
BY DEF ReplyShape

\* Steps that leave the slots, the panes and the call at hand alone.
LEMMA Stays ==
    ASSUME IInv, TypeOK', UNCHANGED <<slot, call, rec, live, waiting, reply, strays, todo>>,
           mode' = mode \/ (mode = "run" /\ mode' = "interrupted")
    PROVE  IInv'
<1>1. \A op, s : At(op, s)' <=> At(op, s)
  BY DEF At
<1>2. PassShape'
  BY DEF IInv, PassShape, PassItem, InnerItem
<1>3. HeadInUse' /\ ReplyShape'
  BY <1>1 DEF IInv, HeadInUse, ReplyShape, T
<1>4. \A t \in Tickets : PaneOK(t)'
  BY DEF IInv, PaneOK
<1>5. ASSUME NEW s \in Slots PROVE SlotOK(s)'
  BY <1>1 DEF IInv, SlotOK, SlotShape, SlotKnows, Settled, Quiescent, T
<1>6. ReleasedIsQuiescent' /\ OneSlotPerTicket'
  BY DEF IInv, ReleasedIsQuiescent, Held, Settled, Quiescent, OneSlotPerTicket
<1> QED
  BY <1>2, <1>3, <1>4, <1>5, <1>6 DEF IInv

\* Steps of the pass from one slot to another, with no call at hand.
LEMMA Passes ==
    ASSUME IInv, TypeOK', PassShape', UNCHANGED <<slot, call, rec, live, waiting, reply, strays>>,
           \A op \in InnerOp, s \in Slots : ~At(op, s) /\ ~At(op, s)'
    PROVE  IInv'
<1>1. \A s \in Slots : 
        /\ ~At("prepare", s)' /\ ~At("await", s)' /\ ~At("requeue", s)' /\ ~At("verify", s)'
        /\ ~At("exists", s)' /\ ~At("complete", s)' /\ ~At("close", s)' /\ ~At("cleanup", s)'
        /\ ~At("absent", s)' /\ ~At("putback", s)' /\ ~At("recreate", s)' /\ ~At("reawait", s)'
        /\ ~At("reinspect", s)' /\ ~At("await", s) /\ ~At("reawait", s)
  BY DEF InnerOp, Op, PassOp
<1>2. HeadInUse'
  BY DEF HeadInUse
<1>3. ReplyShape'
  BY <1>1, NotAwaiting DEF IInv, ReplyShape
<1>4. \A t \in Tickets : PaneOK(t)'
  BY DEF IInv, PaneOK
<1>5. ASSUME NEW s \in Slots PROVE SlotOK(s)'
  <2>1. SlotShape(s) => SlotShape(s)'
    BY <1>1 DEF SlotShape
  <2>2. SlotKnows(s) => SlotKnows(s)'
    BY <1>1 DEF SlotKnows, Settled, Quiescent, T
  <2> QED
    BY <2>1, <2>2 DEF IInv, SlotOK
<1>6. ReleasedIsQuiescent' /\ OneSlotPerTicket'
  BY DEF IInv, ReleasedIsQuiescent, Held, Settled, Quiescent, OneSlotPerTicket
<1> QED
  BY <1>2, <1>3, <1>4, <1>5, <1>6 DEF IInv

\* Steps for the slot at hand: the others keep their tickets, and nothing that
\* concerns these tickets changes.
LEMMA Moves ==
    ASSUME IInv, TypeOK', PassShape', NEW s \in Slots, slot[s].state # "empty",
           NEW tk \in Tickets, T(s) = tk,
           \A r \in Slots \ {s} : slot'[r] = slot[r],
           \A op \in InnerOp, r \in Slots \ {s} : ~At(op, r) /\ ~At(op, r)',
           \A t \in Tickets \ {tk} : /\ call'[t] = call[t]
                                     /\ rec'[t] = rec[t] /\ live'[t] = live[t],
           strays' = strays,
           slot'[s].state # "empty" => slot'[s].ticket = tk /\ SlotOK(s)',
           slot'[s].state = "empty" => Quiescent(tk)' /\ \A op \in InnerOp : ~At(op, s)',
           PaneOK(tk)', ReplyShape'
    PROVE  IInv'
<1>1. HeadInUse'
  BY DEF HeadInUse, IInv
<1>2. ASSUME NEW t \in Tickets PROVE PaneOK(t)'
  <2>1. CASE t = tk
    BY <2>1
  <2>2. CASE t # tk
    BY <2>2 DEF IInv, PaneOK
  <2> QED
    BY <2>1, <2>2
<1>3. ASSUME NEW r \in Slots \ {s} PROVE SlotOK(r)'
  <2>1. SUFFICES ASSUME slot[r].state # "empty" PROVE SlotShape(r)' /\ SlotKnows(r)'
    BY DEF SlotOK
  <2>2. /\ ~At("prepare", r)' /\ ~At("await", r)' /\ ~At("requeue", r)' /\ ~At("verify", r)'
        /\ ~At("exists", r)' /\ ~At("complete", r)' /\ ~At("close", r)' /\ ~At("cleanup", r)'
        /\ ~At("absent", r)' /\ ~At("putback", r)' /\ ~At("recreate", r)' /\ ~At("reawait", r)'
        /\ ~At("reinspect", r)' /\ ~At("await", r)
    BY DEF InnerOp, Op, PassOp
  <2>3. SlotShape(r) /\ SlotKnows(r)
    BY <2>1 DEF IInv, SlotOK
  <2>4. T(r) \in Tickets \ {tk} /\ T(r)' = T(r)
    BY <2>1, IsTicketsHeld DEF IInv, OneSlotPerTicket, T, TicketsHeld
  <2>5. SlotShape(r)'
    BY <2>2, <2>3 DEF SlotShape
  <2>6. SlotKnows(r)'
    <3>1. /\ Settled(T(r)) => Settled(T(r))'
          /\ Quiescent(T(r)) => Quiescent(T(r))'
      BY <2>4 DEF Settled, Quiescent
    <3> QED
      BY <2>2, <2>3, <3>1 DEF SlotKnows
  <2> QED
    BY <2>5, <2>6
<1>4. \A r \in Slots : SlotOK(r)'
  BY <1>3 DEF SlotOK
<1>5. ReleasedIsQuiescent'
  <2>1. SUFFICES ASSUME NEW t \in Tickets, ~Held(t)' PROVE Quiescent(t)'
    BY DEF ReleasedIsQuiescent, Quiescent
  <2>2. CASE t = tk
    BY <2>1, <2>2 DEF Held
  <2>3. CASE t # tk
    <3>1. ~Held(t)
      BY <2>1, <2>3 DEF Held, T
    <3>2. Quiescent(t)
      BY <3>1 DEF IInv, ReleasedIsQuiescent, Quiescent
    <3> QED
      BY <3>2, <2>3 DEF Settled, Quiescent
  <2> QED
    BY <2>2, <2>3
<1>6. OneSlotPerTicket'
  BY DEF IInv, OneSlotPerTicket, T
<1> QED
  BY <1>1, <1>2, <1>4, <1>5, <1>6 DEF IInv

-----------------------------------------------------------------------------
(* The daemon, the users and the loop                                      *)

\* What the daemon does for a ticket keeps what is known of it, if nobody wants to know
\* what becomes of a create.
LEMMA DaemonKeeps ==
    ASSUME TypeOK, NEW t \in Tickets, PaneOK(t), NEW w \in BOOLEAN,
           DaemonStep(t, w) \/ Interference(t, w)
    PROVE  /\ PaneOK(t)'
           /\ ~w /\ Settled(t) => Settled(t)'
           /\ ~w /\ Quiescent(t) => Quiescent(t)'
           /\ \A u \in Tickets \ {t} : /\ call'[u] = call[u]
                                       /\ rec'[u] = rec[u] /\ live'[u] = live[u]
                                       /\ u \in strays' <=> u \in strays
           /\ waiting' = waiting
           /\ waiting # t => reply' = reply
           /\ \/ /\ reply' = reply
                 /\ call[t] = "ok" => call'[t] = "ok"
                 /\ call[t] = "none" => call'[t] = "none" /\ (live'[t] => live[t])
                 /\ t \in strays => t \in strays'
              \/ reply' = "ok" /\ call'[t] = "ok"
              \/ reply' = "safe" /\ call'[t] = "none" /\ (t \in strays' \/ ~live'[t])
              \/ reply' = "unsafe"
<1>1. /\ rec \in [Tickets -> RecState] /\ live \in [Tickets -> BOOLEAN]
      /\ call \in [Tickets -> CallState] /\ waiting \in Tickets \cup {0}
  BY DEF TypeOK, PaneTypeOK
<1> USE DEF PaneOK, Quiescent, Settled
<1>2. CASE resolveCreatePaneTarget(t)
  BY <1>1, <1>2 DEF resolveCreatePaneTarget, finishCreatePane
<1>3. CASE BackendFails(t)
  BY <1>1, <1>3 DEF BackendFails, finishCreatePane
<1>4. CASE createBackendPane(t)
  BY <1>1, <1>4 DEF createBackendPane
<1>5. CASE createPaneOnce(t)
  BY <1>1, <1>5 DEF createPaneOnce, finishCreatePane
<1>6. CASE WorkerExits(t)
  BY <1>1, <1>6 DEF WorkerExits
<1>7. CASE handlePaneClosed(t, w)
  BY <1>1, <1>7 DEF handlePaneClosed, Removes
<1>8. CASE reconcileRecord(t)
  BY <1>1, <1>8 DEF reconcileRecord
<1>9. CASE Cleanup(t, w)
  BY <1>1, <1>9 DEF Cleanup, Removes
<1>10. CASE PaneFails(t)
  BY <1>1, <1>10 DEF PaneFails, FailedSnapshot
<1> QED
  BY <1>2, <1>3, <1>4, <1>5, <1>6, <1>7, <1>8, <1>9, <1>10
  DEF DaemonStep, CreatePane, Interference

LEMMA DaemonInv ==
    ASSUME IInv, ManagerAssumption, NEW t \in Tickets, Daemon(t) \/ Others(t)
    PROVE  IInv'
<1>1. /\ UNCHANGED <<status, slot, mode, todo, stream, events, owner, earned>>
      /\ DaemonStep(t, Wanted(t)) \/ Interference(t, Wanted(t))
  BY DEF Daemon, Others
<1>2. TypeOK /\ PaneOK(t) /\ Wanted(t) \in BOOLEAN
  BY DEF IInv, Wanted
<1>3. TypeOK'
  <2>1. PaneTypeOK'
    BY <1>1, <1>2, DaemonTyped DEF TypeOK
  <2>2. ops' \in 0..MaxOps
    BY <1>2 DEF TypeOK, ManagerAssumption, Daemon, Others
  <2> QED
    BY <1>1, <1>2, <2>1, <2>2 DEF TypeOK
<1>4. \A op, s : At(op, s)' <=> At(op, s)
  BY <1>1 DEF At
<1>5. \A s : T(s)' = T(s)
  BY <1>1 DEF T
<1>6. PassShape' /\ HeadInUse' /\ OneSlotPerTicket'
  BY <1>1, <1>4 DEF IInv, PassShape, PassItem, InnerItem, HeadInUse, OneSlotPerTicket
<1>7. ASSUME NEW u \in Tickets
      PROVE  /\ PaneOK(u)'
             /\ ~Wanted(u) /\ Settled(u) => Settled(u)'
             /\ ~Wanted(u) /\ Quiescent(u) => Quiescent(u)'
  <2>1. CASE u = t
    BY <1>1, <1>2, <2>1, DaemonKeeps
  <2>2. CASE u # t
    <3>1. /\ call'[u] = call[u] /\ rec'[u] = rec[u] /\ live'[u] = live[u]
          /\ u \in strays' <=> u \in strays
      BY <1>1, <1>2, <2>2, DaemonKeeps
    <3>2. PaneOK(u)
      BY DEF IInv
    <3> QED
      BY <3>1, <3>2 DEF PaneOK, Settled, Quiescent
  <2> QED
    BY <2>1, <2>2
<1>8. ASSUME NEW s \in Slots PROVE SlotOK(s)'
  <2>1. SUFFICES ASSUME slot[s].state # "empty" PROVE SlotShape(s)' /\ SlotKnows(s)'
    BY <1>1 DEF SlotOK
  <2>2. SlotShape(s) /\ SlotKnows(s)
    BY <2>1 DEF IInv, SlotOK
  <2>3. SlotShape(s)'
    BY <2>2, <1>1, <1>4 DEF SlotShape
  <2>4. PICK u \in Tickets : u = T(s)
    BY <2>1, IsTicketsHeld DEF TicketsHeld
  <2>5. ~slot[s].creationUncertain /\ ~At("await", s) => ~Wanted(u)
    BY <2>1, <2>4 DEF IInv, OneSlotPerTicket, Wanted, T
  <2>6. At("putback", s) => ~slot[s].creationUncertain /\ ~At("await", s)
    BY <2>2, OneHead DEF SlotShape
  <2>7. T(s)' = u /\ T(s) = u
    BY <2>4, <1>5
  <2>8. /\ ~slot[s].creationUncertain /\ ~At("await", s) => Settled(u)'
        /\ ~slot[s].creationUncertain /\ ~slot[s].paneCreated /\ ~At("await", s) => Quiescent(u)'
        /\ At("putback", s) => Quiescent(u)'
    BY <2>2, <2>5, <2>6, <2>7, <1>7 DEF SlotKnows
  <2>9. SlotKnows(s)'
    BY <2>7, <2>8, <1>1, <1>4 DEF SlotKnows, Settled, Quiescent
  <2> QED
    BY <2>3, <2>9
<1>9. ReleasedIsQuiescent'
  <2> SUFFICES ASSUME NEW u \in Tickets, ~Held(u)' PROVE Quiescent(u)'
    BY DEF ReleasedIsQuiescent
  <2>1. ~Held(u) /\ ~Wanted(u)
    BY <1>1 DEF Held, Wanted
  <2>2. Quiescent(u)
    BY <2>1 DEF IInv, ReleasedIsQuiescent
  <2> QED
    BY <1>7, <2>1, <2>2
<1>10. ReplyShape'
  <2>1. waiting' = waiting
    BY <1>1, <1>2, DaemonKeeps
  <2>2. CASE waiting # t
    <3>1. /\ reply' = reply
          /\ waiting # 0 => /\ call'[waiting] = call[waiting] /\ live'[waiting] = live[waiting]
                            /\ waiting \in strays' <=> waiting \in strays
      <4>1. waiting \in Tickets \cup {0}
        BY <1>2 DEF TypeOK, PaneTypeOK
      <4>2. reply' = reply
        BY <1>1, <1>2, <2>2, DaemonKeeps
      <4>3. \A u \in Tickets \ {t} : /\ call'[u] = call[u] /\ live'[u] = live[u]
                                     /\ u \in strays' <=> u \in strays
        BY <1>1, <1>2, DaemonKeeps
      <4> QED
        BY <4>1, <4>2, <4>3, <2>2
    <3> QED
      BY <2>1, <3>1, <1>4, <1>5 DEF IInv, ReplyShape
  <2>3. CASE waiting = t
    <3>1. t # 0
      BY DEF ManagerAssumption
    <3>2. \/ /\ reply' = reply
             /\ call[t] = "ok" => call'[t] = "ok"
             /\ call[t] = "none" => call'[t] = "none" /\ (live'[t] => live[t])
             /\ t \in strays => t \in strays'
          \/ reply' = "ok" /\ call'[t] = "ok"
          \/ reply' = "safe" /\ call'[t] = "none" /\ (t \in strays' \/ ~live'[t])
          \/ reply' = "unsafe"
      BY <1>1, <1>2, DaemonKeeps
    <3>3. ReplyShape
      BY DEF IInv
    <3> QED
      BY <2>1, <2>3, <3>1, <3>2, <3>3, <1>4, <1>5 DEF ReplyShape
  <2> QED
    BY <2>2, <2>3
<1> QED
  BY <1>3, <1>6, <1>7, <1>8, <1>9, <1>10 DEF IInv

LEMMA UserInv ==
    ASSUME IInv, ManagerAssumption,
           \/ UserNext
           \/ \E t \in Tickets : \/ Add(t) \/ WorkerPrints(t)
                                 \/ \E a \in UserActions : Transition(t, a)
    PROVE  IInv'
<1>0. TypeOK
  BY DEF IInv
<1>1. CASE UserNext
  <2>1. Oldest \in Tickets
    BY <1>1, OldestReady DEF UserNext, Ready
  <2>2. TypeOK'
    BY <1>0, <1>1, <2>1 DEF UserNext, TypeOK, PaneTypeOK, paneVars, Status, ManagerAssumption
  <2> QED
    BY <1>1, <2>2, Stays DEF UserNext, paneVars
<1>2. ASSUME NEW t \in Tickets, Add(t) PROVE IInv'
  <2>1. TypeOK'
    BY <1>0, <1>2 DEF Add, TypeOK, PaneTypeOK, paneVars, Status, ManagerAssumption
  <2> QED
    BY <1>2, <2>1, Stays DEF Add, paneVars
<1>3. ASSUME NEW t \in Tickets, WorkerPrints(t) PROVE IInv'
  <2>1. events' \in [Tickets -> 0..MaxEvents]
    BY <1>0, <1>3 DEF WorkerPrints, TypeOK, ManagerAssumption
  <2>2. printed' \in [Tickets -> BOOLEAN] /\ earned' \in [Tickets -> BOOLEAN]
    BY <1>0, <1>3 DEF WorkerPrints, TypeOK, PaneTypeOK
  <2>3. TypeOK'
    BY <1>0, <1>3, <2>1, <2>2 DEF WorkerPrints, TypeOK, PaneTypeOK
  <2> QED
    BY <1>3, <2>3, Stays DEF WorkerPrints
<1>4. ASSUME NEW t \in Tickets, NEW a \in UserActions, Transition(t, a) PROVE IInv'
  <2>1. a \in {"done", "cancel", "reopen"}
    BY <1>4 DEF Transition, ManagerAssumption
  <2>2. allowedTransitions[a].to \in Status
    BY <2>1 DEF allowedTransitions, Status
  <2>3. status' \in [Tickets -> Status] /\ owner' \in [Tickets -> {"none", "manager", "user", "elsewhere"}]
    BY <1>0, <1>4, <2>2 DEF Transition, TypeOK
  <2>4. earned' \in [Tickets -> BOOLEAN] /\ ops' \in 0..MaxOps
    BY <1>0, <1>4 DEF Transition, TypeOK, ManagerAssumption
  <2>5. TypeOK'
    BY <1>0, <1>4, <2>3, <2>4 DEF Transition, TypeOK, PaneTypeOK, paneVars
  <2> QED
    BY <1>4, <2>5, Stays DEF Transition, paneVars
<1> QED
  BY <1>1, <1>2, <1>3, <1>4

\* An idle loop, and one that looks at a whole slot, makes no call.
LEMMA NoCall ==
    ASSUME todo = <<>> \/ \E op, s : At(op, s) /\ op \notin InnerOp
    PROVE  \A op \in InnerOp, s \in Slots : ~At(op, s)
<1>1. CASE todo = <<>>
  BY <1>1 DEF At
<1>2. ASSUME NEW op, NEW s, At(op, s), op \notin InnerOp
      PROVE  \A o \in InnerOp, r \in Slots : ~At(o, r)
  BY <1>2, OneHead
<1> QED
  BY <1>1, <1>2

\* Where the loop begins or ends a pass no call is at hand, before and after.
LEMMA LoopPasses ==
    ASSUME PassShape, ManagerAssumption, Start \/ Tick \/ connectStream \/ shutdown \/ Exit
    PROVE  /\ PassShape'
           /\ \A op \in InnerOp, s \in Slots : ~At(op, s) /\ ~At(op, s)'
<1>p. ASSUME NEW m PROVE /\ Pass("fill") \in Seq(PassItem(m))
                         /\ Pass("retry") \in Seq(PassItem(m))
                         /\ Pass("snapshot") \in Seq(PassItem(m))
                         /\ m = "stopping" => Pass("stop") \in Seq(PassItem(m))
                         /\ <<[op |-> "connect", s |-> 0]>> \in Seq(PassItem(m))
  <2>1. /\ [op: {"fill"}, s: Slots] \subseteq PassItem(m)
        /\ [op: {"retry"}, s: Slots] \subseteq PassItem(m)
        /\ [op: {"snapshot"}, s: Slots] \subseteq PassItem(m)
        /\ m = "stopping" => [op: {"stop"}, s: Slots] \subseteq PassItem(m)
        /\ [op |-> "connect", s |-> 0] \in PassItem(m)
    BY DEF PassItem
  <2>2. Pass("fill") \in Seq(PassItem(m)) /\ Pass("retry") \in Seq(PassItem(m))
    BY <2>1, PassTyped
  <2>3. Pass("snapshot") \in Seq(PassItem(m))
    BY <2>1, PassTyped
  <2>4. m = "stopping" => Pass("stop") \in Seq(PassItem(m))
    BY <2>1, PassTyped
  <2>5. <<[op |-> "connect", s |-> 0]>> \in Seq(PassItem(m))
    BY <2>1
  <2> QED
    BY <2>2, <2>3, <2>4, <2>5
<1>1. CASE Start
  <2>0. todo = <<>>
    BY <1>1 DEF Start, PassShape
  <2>1. CASE mode' = "run" /\ todo' = Pass("fill")
    BY <2>0, <2>1, <1>p, PassStarts, NoCall
  <2>2. CASE UNCHANGED todo
    <3>1. EndPass
      BY <2>0, <2>2 DEF EndPass
    <3> QED
      BY <2>0, <3>1, Ended, NoCall
  <2> QED
    BY <1>1, <2>1, <2>2 DEF Start
<1>2. CASE Tick
  <2>0. todo = <<>> /\ mode' = "run" /\ mode = "run"
    BY <1>2 DEF Tick, Idle
  <2>1. todo' \in Seq(PassItem(mode'))
    <3> DEFINE a == Pass("retry")  b == <<[op |-> "connect", s |-> 0]>>
               c == Pass("snapshot")  d == Pass("fill")  I == PassItem(mode')
    <3>1. a \in Seq(I) /\ b \in Seq(I) /\ c \in Seq(I) /\ d \in Seq(I)
      BY <1>p
    <3>2. todo' = a \o b \o c \o d
      BY <1>2 DEF Tick
    <3> HIDE DEF a, b, c, d, I
    <3>3. a \o b \in Seq(I)
      BY <3>1, ConcatProperties, Zenon
    <3>4. a \o b \o c \in Seq(I)
      BY <3>1, <3>3, ConcatProperties, Zenon
    <3>5. a \o b \o c \o d \in Seq(I)
      BY <3>1, <3>4, ConcatProperties, Zenon
    <3> QED
      BY <3>2, <3>5 DEF I
  <2> QED
    BY <2>0, <2>1, PassStarts, NoCall
<1>3. CASE connectStream
  <2>0. At("connect", 0) /\ "connect" \notin InnerOp /\ todo # <<>> /\ mode' = mode
    BY <1>3 DEF connectStream, At, InnerOp, PassOp
  <2> QED
    BY <1>3, <2>0, Returned, Ended, NoCall DEF connectStream
<1>4. CASE shutdown
  <2>0. todo = <<>> /\ mode' = "stopping" /\ todo' = Pass("stop")
    BY <1>4 DEF shutdown
  <2> QED
    BY <2>0, <1>p, PassStarts, NoCall
<1>5. CASE Exit
  <2>0. todo = <<>> /\ EndPass
    BY <1>5 DEF Exit, EndPass
  <2> QED
    BY <2>0, Ended, NoCall
<1> QED
  BY <1>1, <1>2, <1>3, <1>4, <1>5

\* Steps of the loop itself.
LEMMA LoopInv ==
    ASSUME IInv, ManagerAssumption,
           \/ Start \/ Tick \/ connectStream \/ disconnectStream
           \/ Interrupt \/ shutdown \/ Exit
    PROVE  IInv'
<1>0. /\ TypeOK /\ PassShape /\ PaneTypeOK
      /\ stream \in BOOLEAN /\ events \in [Tickets -> 0..MaxEvents]
  BY DEF IInv, TypeOK
<1>e. [t \in Tickets |-> 0] \in [Tickets -> 0..MaxEvents]
  BY DEF ManagerAssumption
<1>1. CASE Start \/ Tick \/ connectStream \/ shutdown \/ Exit
  <2>1. PassShape' /\ \A op \in InnerOp, s \in Slots : ~At(op, s) /\ ~At(op, s)'
    BY <1>0, <1>1, LoopPasses
  <2>2. /\ UNCHANGED <<status, slot, ops, owner, earned, paneVars>>
        /\ mode' \in {"anchor", "run", "interrupted", "stopping", "stopped"}
        /\ stream' \in BOOLEAN /\ events' \in [Tickets -> 0..MaxEvents]
    BY <1>0, <1>1, <1>e DEF Start, Tick, connectStream, shutdown, Exit, TypeOK
  <2>3. todo' \in Seq([op: Op, s: 0..MaxWorkers])
    BY <2>1, TodoTyped DEF PassShape, PassItem, InnerItem
  <2>4. TypeOK'
    BY <1>0, <2>2, <2>3 DEF TypeOK, PaneTypeOK, paneVars
  <2> QED
    BY <2>1, <2>2, <2>4, Passes DEF paneVars
<1>2. CASE disconnectStream
  <2>1. TypeOK'
    BY <1>0, <1>2, <1>e DEF disconnectStream, TypeOK, PaneTypeOK, paneVars
  <2> QED
    BY <1>2, <2>1, Stays DEF disconnectStream, paneVars
<1>3. CASE Interrupt
  <2>1. TypeOK'
    BY <1>0, <1>3 DEF Interrupt, TypeOK, PaneTypeOK, paneVars
  <2> QED
    BY <1>3, <2>1, Stays DEF Interrupt, paneVars
<1> QED
  BY <1>1, <1>2, <1>3

-----------------------------------------------------------------------------
(* The steps of a slot                                                     *)

\* What is known when the pass looks at a slot in use.
LEMMA Here ==
    ASSUME IInv, NEW s \in Slots, NEW op, At(op, s), op \in InnerOp \/ slot[s].state # "empty"
    PROVE  /\ slot[s].state # "empty" /\ T(s) \in Tickets /\ SlotShape(s) /\ SlotKnows(s)
           /\ PaneOK(T(s)) /\ todo # <<>> /\ PassShape /\ TypeOK /\ slot \in [Slots -> Slot]
           /\ \A o, r : At(o, r) <=> o = op /\ r = s
           /\ op \notin {"await", "reawait"} => waiting = 0 /\ reply \notin {"ok", "safe"}
<1>1. slot[s].state # "empty"
  BY DEF IInv, HeadInUse
<1>2. SlotShape(s) /\ SlotKnows(s) /\ T(s) \in Tickets
  BY <1>1 DEF IInv, SlotOK, SlotShape, T
<1>3. todo # <<>> /\ \A o, r : At(o, r) <=> o = op /\ r = s
  BY OneHead
<1>4. op \notin {"await", "reawait"} => waiting = 0 /\ reply \notin {"ok", "safe"}
  BY <1>3, NotAwaiting DEF IInv
<1> QED
  BY <1>1, <1>2, <1>3, <1>4 DEF IInv, TypeOK

\* A step that asks for nothing awaits nothing.
LEMMA NoReply ==
    ASSUME waiting' = 0, reply' \notin {"ok", "safe"}
    PROVE  ReplyShape'
BY DEF ReplyShape

\* SlotShape and SlotKnows of a slot sl with ticket tk, when op is next for it.
Fits(sl, op, m) ==
    /\ sl.creationUncertain => sl.state = "cleanup_failed" /\ ~sl.paneCreated
    /\ sl.state \in {"working", "completing", "closing"}
          => sl.paneCreated /\ ~sl.creationUncertain
    /\ sl.state = "closing" => sl.done
    /\ op \in {"prepare", "await", "requeue"}
          => sl.state = "starting" /\ ~sl.paneCreated /\ ~sl.creationUncertain
    /\ op \in {"verify", "exists"} => sl.state = "working"
    /\ op = "complete" => sl.state = "completing"
    /\ op = "close" => sl.state = "closing"
    /\ op = "cleanup" => sl.state = "cleanup_failed"
    /\ op = "absent" => /\ sl.done \/ sl.state = "cleanup_failed" \/ m = "stopping"
                        /\ ~sl.creationUncertain
    /\ op = "putback" => ~sl.creationUncertain
    /\ op \in {"recreate", "reawait", "reinspect"} => sl.creationUncertain

Knows(sl, op, tk) ==
    /\ ~sl.creationUncertain /\ op # "await" => Settled(tk)
    /\ (~sl.creationUncertain /\ ~sl.paneCreated /\ op # "await") \/ op = "putback"
          => Quiescent(tk)

\* A step of the slot at hand: the slot becomes sl, and the call op2 is next, or
\* none when op2 is not one.
LEMMA Turns ==
    ASSUME IInv, TypeOK', PassShape', mode' = mode, NEW s \in Slots, slot[s].state # "empty",
           \A op \in InnerOp, r \in Slots : At(op, r) => r = s,
           NEW sl \in Slot, slot' = [slot EXCEPT ![s] = sl],
           sl.ticket = T(s), sl.state # "empty",
           NEW op2, \A op \in InnerOp, r \in Slots : At(op, r)' <=> op = op2 /\ r = s,
           NEW tk \in Tickets, tk = T(s),
           \A t \in Tickets \ {tk} : /\ call'[t] = call[t]
                                     /\ rec'[t] = rec[t] /\ live'[t] = live[t],
           strays' = strays,
           PaneOK(tk)', ReplyShape',
           Fits(sl, op2, mode), Knows(sl, op2, tk)'
    PROVE  IInv'
<1>1. slot \in [Slots -> Slot]
  BY DEF IInv, TypeOK
<1>2. slot'[s] = sl /\ \A r \in Slots \ {s} : slot'[r] = slot[r]
  BY <1>1
<1>3. \A op \in InnerOp, r \in Slots \ {s} : ~At(op, r) /\ ~At(op, r)'
  OBVIOUS
<1>4. \A op \in {"prepare", "await", "requeue", "verify", "exists", "complete", "close", "absent",
                 "cleanup", "putback", "recreate", "reawait", "reinspect"} : At(op, s)' <=> op = op2
  BY DEF InnerOp, Op, PassOp
<1>5. SlotShape(s)'
  BY <1>2, <1>4 DEF SlotShape, Fits, T
<1>6. SlotKnows(s)'
  <2>1. T(s)' = tk
    BY <1>2 DEF T
  <2>2. (At("await", s)' <=> op2 = "await") /\ (At("putback", s)' <=> op2 = "putback")
    BY <1>4
  <2> QED
    BY <1>2, <2>1, <2>2 DEF SlotKnows, Knows, Settled, Quiescent
<1> QED
  BY <1>2, <1>3, <1>5, <1>6, Moves DEF SlotOK

\* A step of the slot at hand that frees it.
LEMMA Frees ==
    ASSUME IInv, TypeOK', PassShape', NEW s \in Slots, slot[s].state # "empty",
           \A op \in InnerOp, r \in Slots : At(op, r) => r = s,
           slot' = [slot EXCEPT ![s] = EmptySlot],
           \A op \in InnerOp, r \in Slots : ~At(op, r)',
           NEW tk \in Tickets, tk = T(s),
           \A t \in Tickets \ {tk} : /\ call'[t] = call[t]
                                     /\ rec'[t] = rec[t] /\ live'[t] = live[t],
           strays' = strays,
           PaneOK(tk)', ReplyShape', Quiescent(tk)'
    PROVE  IInv'
<1>1. slot \in [Slots -> Slot]
  BY DEF IInv, TypeOK
<1>2. slot'[s] = EmptySlot /\ \A r \in Slots \ {s} : slot'[r] = slot[r]
  BY <1>1
<1>3. slot'[s].state = "empty"
  BY <1>2 DEF EmptySlot
<1>4. \A op \in InnerOp, r \in Slots \ {s} : ~At(op, r) /\ ~At(op, r)'
  OBVIOUS
<1> QED
  BY <1>2, <1>3, <1>4, Moves

\* The operators of the calls inside a pass.
LEMMA InnerOps ==
    InnerOp = {"prepare", "await", "requeue", "verify", "exists", "complete", "close", "absent",
               "cleanup", "putback", "recreate", "reawait", "reinspect"}
BY DEF InnerOp, Op, PassOp

LEMMA InnerGoto ==
    ASSUME NEW op \in InnerOp, NEW s \in Slots
    PROVE  [op |-> op, s |-> s] \in PassItem(mode) \cup InnerItem
BY DEF InnerItem

\* The call op2 is the next one for the slot s, or, when it is not a call, none is.
NextCall(op2, s) ==
    \/ op2 \in InnerOp /\ (Goto(op2, s) \/ todo' = <<[op |-> op2, s |-> s]>>)
    \/ op2 = "stop" /\ mode = "stopping" /\ Goto(op2, s)
    \/ op2 = "none" /\ (Return \/ EndPass)

LEMMA Calls ==
    ASSUME PassShape, mode' = mode, todo # <<>>, NEW s \in Slots, NEW op2, NextCall(op2, s)
    PROVE  PassShape' /\ \A op \in InnerOp, r \in Slots : At(op, r)' <=> op = op2 /\ r = s
<1>1. CASE op2 \in InnerOp
  <2>1. [op |-> op2, s |-> s] \in PassItem(mode) \cup InnerItem
    BY <1>1, InnerGoto
  <2>2. Goto(op2, s) \/ todo' = <<[op |-> op2, s |-> s]>>
    BY <1>1, InnerOps DEF NextCall
  <2> QED
    BY <2>1, <2>2, Went
<1>2. CASE op2 = "stop" /\ mode = "stopping" /\ Goto(op2, s)
  <2>1. [op |-> op2, s |-> s] \in PassItem(mode) \cup InnerItem
    BY <1>2 DEF PassItem
  <2> QED
    BY <1>2, <2>1, Went
<1>3. CASE op2 = "none" /\ (Return \/ EndPass)
  <2>1. op2 \notin InnerOp
    BY <1>3, InnerOps
  <2> QED
    BY <1>3, <2>1, Returned, Ended
<1> QED
  BY <1>1, <1>2, <1>3 DEF NextCall

\* The manager makes no strays.
LEMMA SlotKeepsStrays ==
    ASSUME NEW s, SlotStep(s)
    PROVE  strays' = strays
BY DEF SlotStep, Skip, NothingToClaim, Claim, PrepareFails, SendCreate, CreateReturns, Answer,
       requeueWithoutPane, workerExists, CompletionSnapshot, recoverSnapshot, retryComplete,
       close, orAbsent, PutBack, Inspect, RecreateReturns, Reinspect, paneVars

\* A step of the slot s after which it is sl and op2 is next.
LEMMA TurnsTo ==
    ASSUME IInv, ManagerAssumption, NEW s \in Slots, NEW op, At(op, s), slot[s].state # "empty",
           SlotStep(s), mode' = mode,
           NEW op2, NextCall(op2, s),
           NEW sl \in Slot, slot' = [slot EXCEPT ![s] = sl], sl.ticket = T(s), sl.state # "empty",
           NEW tk \in Tickets, tk = T(s),
           \A t \in Tickets \ {tk} : /\ call'[t] = call[t]
                                     /\ rec'[t] = rec[t] /\ live'[t] = live[t],
           PaneOK(tk)', ReplyShape', Fits(sl, op2, mode), Knows(sl, op2, tk)'
    PROVE  IInv'
<1>1. PassShape /\ TypeOK /\ todo # <<>> /\ \A o, r : At(o, r) <=> o = op /\ r = s
  BY Here
<1>2. PassShape' /\ \A o \in InnerOp, r \in Slots : At(o, r)' <=> o = op2 /\ r = s
  BY <1>1, Calls
<1>3. TypeOK'
  BY <1>1, <1>2, SlotTyped, IsTicketsHeld DEF IInv
<1>4. \A o \in InnerOp, r \in Slots : At(o, r) => r = s
  BY <1>1
<1>5. strays' = strays
  BY SlotKeepsStrays
<1> QED
  BY <1>2, <1>3, <1>4, <1>5, Turns

\* A step of the slot s that frees it.
LEMMA FreesTo ==
    ASSUME IInv, ManagerAssumption, NEW s \in Slots, NEW op, At(op, s), slot[s].state # "empty",
           SlotStep(s), mode' = mode, Release(s), Return \/ EndPass,
           NEW tk \in Tickets, tk = T(s),
           \A t \in Tickets \ {tk} : /\ call'[t] = call[t]
                                     /\ rec'[t] = rec[t] /\ live'[t] = live[t],
           PaneOK(tk)', ReplyShape', Quiescent(tk)'
    PROVE  IInv'
<1>1. PassShape /\ TypeOK /\ todo # <<>> /\ \A o, r : At(o, r) <=> o = op /\ r = s
  BY Here
<1>2. PassShape' /\ \A o \in InnerOp, r \in Slots : ~At(o, r)'
  BY <1>1, Returned, Ended
<1>3. TypeOK'
  BY <1>1, <1>2, SlotTyped, IsTicketsHeld DEF IInv
<1>4. \A o \in InnerOp, r \in Slots : At(o, r) => r = s
  BY <1>1
<1>5. strays' = strays
  BY SlotKeepsStrays
<1> QED
  BY <1>2, <1>3, <1>4, <1>5, Frees DEF Release

\* A step that leaves the slot as it is, and may lose a pane.
LEMMA KeepsTo ==
    ASSUME IInv, ManagerAssumption, NEW s \in Slots, NEW op, At(op, s), slot[s].state # "empty",
           op \notin {"await", "reawait"},
           SlotStep(s), mode' = mode, UNCHANGED <<slot, call, waiting, reply, strays>>,
           NEW op2, NextCall(op2, s), Fits(slot[s], op2, mode), op2 \notin {"await", "putback"},
           NEW tk \in Tickets, tk = T(s),
           \A t \in Tickets \ {tk} : rec'[t] = rec[t] /\ live'[t] = live[t],
           PaneOK(tk)', Settled(tk) => Settled(tk)', Quiescent(tk) => Quiescent(tk)'
    PROVE  IInv'
<1>1. /\ SlotShape(s) /\ SlotKnows(s) /\ slot \in [Slots -> Slot]
      /\ \A o, r : At(o, r) <=> o = op /\ r = s
      /\ waiting = 0 /\ reply \notin {"ok", "safe"}
  BY Here
<1>2. ReplyShape'
  BY <1>1, NoReply
<1>3. ~At("await", s)
  BY <1>1
<1>4. Knows(slot[s], "none", tk)
  BY <1>1, <1>3 DEF SlotKnows, Knows
<1>5. PICK sl \in Slot : sl = slot[s]
  BY <1>1
<1>6. Knows(sl, op2, tk)'
  BY <1>4, <1>5 DEF Knows
<1>7. slot' = [slot EXCEPT ![s] = sl] /\ sl.ticket = T(s) /\ sl.state # "empty"
  BY <1>1, <1>5 DEF T
<1>8. Fits(sl, op2, mode)
  BY <1>5
<1>9. \A t \in Tickets \ {tk} : call'[t] = call[t] /\ rec'[t] = rec[t] /\ live'[t] = live[t]
  OBVIOUS
<1> QED
  BY <1>2, <1>6, <1>7, <1>8, <1>9, TurnsTo

\* The shape of a slot survives the end of a call.
LEMMA FitsNone ==
    ASSUME NEW s \in Slots, SlotShape(s)
    PROVE  Fits(slot[s], "none", mode)
BY DEF SlotShape, Fits

\* A call that comes to nothing.
LEMMA GivesUp ==
    ASSUME IInv, ManagerAssumption, NEW s \in Slots, NEW op, At(op, s), slot[s].state # "empty",
           op \notin {"await", "reawait"},
           SlotStep(s), mode' = mode, UNCHANGED <<slot, call, rec, live, waiting, reply, strays>>,
           Return \/ EndPass
    PROVE  IInv'
<1>1. SlotShape(s) /\ T(s) \in Tickets /\ PaneOK(T(s))
  BY Here
<1>2. PICK tk \in Tickets : tk = T(s)
  BY <1>1
<1>3. PaneOK(tk)' /\ (Settled(tk) => Settled(tk)') /\ (Quiescent(tk) => Quiescent(tk)')
  BY <1>1, <1>2 DEF PaneOK, Settled, Quiescent
<1>4. PICK op2 : op2 = "none"
  OBVIOUS
<1>5. NextCall(op2, s) /\ Fits(slot[s], op2, mode) /\ op2 \notin {"await", "putback"}
  BY <1>1, <1>4, FitsNone DEF NextCall
<1> QED
  BY <1>2, <1>3, <1>5, KeepsTo

\* Skip, and a pass that has nothing to claim.
LEMMA SkipInv ==
    ASSUME IInv, ManagerAssumption, NEW s \in Slots, Skip(s) \/ NothingToClaim(s)
    PROVE  IInv'
<1>1. PICK op : At(op, s) /\ op \notin InnerOp
  BY InnerOps DEF Skip, NothingToClaim
<1>2. /\ UNCHANGED <<slot, call, rec, live, waiting, reply, strays>> /\ mode' = mode
      /\ Return \/ EndPass
  BY DEF Skip, NothingToClaim, paneVars
<1>3. todo # <<>> /\ \A o \in InnerOp, r \in Slots : ~At(o, r)
  BY <1>1, NoCall DEF At
<1>4. PassShape' /\ \A o \in InnerOp, r \in Slots : ~At(o, r)'
  BY <1>2, <1>3, Returned, Ended DEF IInv
<1>5. TypeOK'
  BY <1>4, SlotTyped, IsTicketsHeld DEF IInv, SlotStep
<1> QED
  BY <1>2, <1>3, <1>4, <1>5, Passes

LEMMA PrepareFailsInv ==
    ASSUME IInv, ManagerAssumption, NEW s \in Slots, PrepareFails(s)
    PROVE  IInv'
<1>1. At("prepare", s) /\ "prepare" \in InnerOp
  BY InnerOps DEF PrepareFails
<1>2. SlotShape(s) /\ T(s) \in Tickets /\ PaneOK(T(s)) /\ slot[s].state # "empty"
  BY <1>1, Here
<1>3. PICK tk \in Tickets : tk = T(s)
  BY <1>2
<1>4. /\ UNCHANGED <<slot, call, rec, live, waiting, reply, strays>> /\ mode' = mode
      /\ NextCall("requeue", s)
  BY InnerOps DEF PrepareFails, paneVars, NextCall
<1>5. PaneOK(tk)' /\ (Settled(tk) => Settled(tk)') /\ (Quiescent(tk) => Quiescent(tk)')
  BY <1>2, <1>3, <1>4 DEF PaneOK, Settled, Quiescent
<1>6. Fits(slot[s], "requeue", mode)
  BY <1>1, <1>2 DEF SlotShape, Fits
<1>7. SlotStep(s)
  BY DEF SlotStep
<1> QED
  BY <1>1, <1>2, <1>3, <1>4, <1>5, <1>6, <1>7, KeepsTo

\* A CreatePane that is sent, for the first time or again.
LEMMA SendCreateInv ==
    ASSUME IInv, ManagerAssumption, NEW s \in Slots, SendCreate(s)
    PROVE  IInv'
<1>1. PICK op \in {"prepare", "recreate"} : At(op, s)
  BY DEF SendCreate
<1>2. /\ SlotShape(s) /\ SlotKnows(s) /\ T(s) \in Tickets /\ PaneOK(T(s))
      /\ slot[s].state # "empty" /\ slot \in [Slots -> Slot] /\ TypeOK /\ PassShape /\ todo # <<>>
      /\ \A o, r : At(o, r) <=> o = op /\ r = s
  BY <1>1, InnerOps, Here
<1>3. PICK tk \in Tickets : tk = T(s)
  BY <1>2
<1>4. PICK op2 \in {"await", "reawait"} : /\ op2 = "await" <=> op = "prepare"
                                          /\ NextCall(op2, s)
  <2>1. CASE op = "prepare"
    <3>1. NextCall("await", s)
      BY <1>1, <2>1, InnerOps DEF SendCreate, NextCall
    <3> QED
      BY <2>1, <3>1
  <2>2. CASE op = "recreate"
    <3>1. ~At("prepare", s) /\ NextCall("reawait", s)
      BY <1>1, <1>2, <2>2, InnerOps DEF SendCreate, NextCall
    <3> QED
      BY <2>2, <3>1
  <2> QED
    BY <2>1, <2>2
<1>5. UNCHANGED <<slot, mode, rec, live, strays>>
  BY DEF SendCreate
<1>6. /\ call \in [Tickets -> CallState] /\ rec \in [Tickets -> RecState]
      /\ tk # 0 /\ T(s)' = tk
  BY <1>2, <1>3, <1>5 DEF TypeOK, PaneTypeOK, ManagerAssumption, T
<1>7. PICK sl \in Slot : sl = slot[s]
  BY <1>2
<1>9. \A t \in Tickets \ {tk} : call'[t] = call[t] /\ rec'[t] = rec[t] /\ live'[t] = live[t]
  BY <1>3, <1>5, <1>6 DEF SendCreate, beginCreatePane
<1>10. PaneOK(tk)'
  BY <1>2, <1>3, <1>5 DEF PaneOK
<1>11. PassShape' /\ \A o \in InnerOp, r \in Slots : At(o, r)' <=> o = op2 /\ r = s
  BY <1>2, <1>4, <1>5, Calls
<1>12. ReplyShape'
  <2>1. CASE waiting' = 0 /\ reply' = "unsafe"
    BY <2>1, NoReply
  <2>2. CASE beginCreatePane(T(s))
    <3>1. waiting' = tk /\ (reply' = "ok" => call'[tk] = "ok") /\ reply' # "safe"
      BY <2>2, <1>3 DEF beginCreatePane
    <3>2. At("await", s)' \/ At("reawait", s)'
      BY <1>4, <1>11, InnerOps
    <3> QED
      BY <3>1, <3>2, <1>6 DEF ReplyShape
  <2> QED
    BY <2>1, <2>2 DEF SendCreate
<1>13. Fits(sl, op2, mode)
  BY <1>1, <1>2, <1>4, <1>7 DEF SlotShape, Fits
<1>14. Knows(sl, op2, tk)'
  <2>1. op2 = "await" \/ sl.creationUncertain
    BY <1>1, <1>2, <1>4, <1>7 DEF SlotShape
  <2> QED
    BY <2>1, <1>4 DEF Knows
<1>15. slot' = [slot EXCEPT ![s] = sl] /\ sl.ticket = T(s) /\ sl.state # "empty"
  BY <1>2, <1>5, <1>7 DEF T
<1>16. SlotStep(s)
  BY DEF SlotStep
<1> QED
  BY <1>1, <1>2, <1>3, <1>4, <1>5, <1>9, <1>10, <1>12, <1>13, <1>14, <1>15, <1>16, TurnsTo

\* What the response to a CreatePane says about the ticket's pane.
LEMMA AnswerSays ==
    ASSUME IInv, ManagerAssumption, NEW s \in Slots, At("await", s) \/ At("reawait", s),
           NEW tk \in Tickets, tk = T(s), NEW r, Answer(r)
    PROVE  /\ r = "ok" => Settled(tk)'
           /\ r = "safe" => Settled(tk)' /\ Quiescent(tk)'
           /\ \A t \in Tickets : call'[t] = call[t] /\ rec'[t] = rec[t] /\ live'[t] = live[t]
           /\ PaneOK(tk)' /\ ReplyShape'
<1>1. PICK op \in {"await", "reawait"} : At(op, s)
  OBVIOUS
<1>2. \A o, q : At(o, q) <=> o = op /\ q = s
  BY <1>1, OneHead
<1>3. r \in {"ok", "safe"} => waiting = tk /\ tk # 0 /\ reply = r
  BY <1>2 DEF IInv, ReplyShape, Answer, ManagerAssumption
<1>4. /\ r = "ok" => call[tk] = "ok"
      /\ r = "safe" => call[tk] = "none" /\ (tk \in strays \/ ~live[tk])
  BY <1>3 DEF IInv, ReplyShape
<1>5. UNCHANGED <<call, rec, live, strays>> /\ waiting' = 0 /\ reply' = "none"
  BY DEF Answer
<1>6. PaneOK(tk)
  BY DEF IInv
<1>7. ReplyShape'
  BY <1>5, NoReply
<1> QED
  BY <1>4, <1>5, <1>6, <1>7 DEF Settled, Quiescent, PaneOK

LEMMA CreateReturnsInv ==
    ASSUME IInv, ManagerAssumption, NEW s \in Slots, CreateReturns(s)
    PROVE  IInv'
<1>1. At("await", s) /\ "await" \in InnerOp
  BY InnerOps DEF CreateReturns
<1>2. /\ SlotShape(s) /\ SlotKnows(s) /\ T(s) \in Tickets
      /\ slot[s].state # "empty" /\ slot \in [Slots -> Slot]
  BY <1>1, Here
<1>3. PICK tk \in Tickets : tk = T(s)
  BY <1>2
<1>5. slot[s].state = "starting" /\ ~slot[s].paneCreated /\ ~slot[s].creationUncertain
  BY <1>1, <1>2 DEF SlotShape
<1>6. SlotStep(s) /\ mode' = mode
  BY DEF SlotStep, CreateReturns
<1>7. CASE /\ Answer("ok") /\ Return
           /\ slot' = [slot EXCEPT ![s].state = "working", ![s].paneCreated = TRUE]
  <2>1. PICK sl : sl = [slot[s] EXCEPT !.state = "working", !.paneCreated = TRUE]
    OBVIOUS
  <2>2. sl \in Slot /\ slot' = [slot EXCEPT ![s] = sl]
    BY <1>2, <1>7, <2>1 DEF Slot, SlotState
  <2>3. sl.state = "working" /\ sl.paneCreated /\ ~sl.creationUncertain /\ sl.ticket = T(s)
    BY <1>2, <1>5, <2>1 DEF Slot, T
  <2>4. PICK op2 : op2 = "none"
    OBVIOUS
  <2>5. NextCall(op2, s) /\ Fits(sl, op2, mode)
    BY <1>7, <2>3, <2>4 DEF NextCall, Fits
  <2>6. /\ Settled(tk)' /\ PaneOK(tk)' /\ ReplyShape'
        /\ \A t \in Tickets : call'[t] = call[t] /\ rec'[t] = rec[t] /\ live'[t] = live[t]
    BY <1>1, <1>3, <1>7, AnswerSays
  <2>7. Knows(sl, op2, tk)'
    BY <2>3, <2>4, <2>6 DEF Knows, Settled
  <2> QED
    BY <1>1, <1>2, <1>3, <1>6, <2>2, <2>3, <2>5, <2>6, <2>7, TurnsTo
<1>8. CASE Answer("safe") /\ todo' = <<[op |-> "requeue", s |-> s]>> /\ UNCHANGED slot
  <2>1. PICK sl \in Slot : sl = slot[s]
    BY <1>2
  <2>2. slot' = [slot EXCEPT ![s] = sl] /\ sl.ticket = T(s) /\ sl.state # "empty"
    BY <1>2, <1>8, <2>1 DEF T
  <2>3. PICK op2 : op2 = "requeue"
    OBVIOUS
  <2>4. NextCall(op2, s) /\ Fits(sl, op2, mode)
    BY <1>5, <1>8, <2>1, <2>3, InnerOps DEF NextCall, Fits
  <2>5. /\ Settled(tk)' /\ Quiescent(tk)' /\ PaneOK(tk)' /\ ReplyShape'
        /\ \A t \in Tickets : call'[t] = call[t] /\ rec'[t] = rec[t] /\ live'[t] = live[t]
    BY <1>1, <1>3, <1>8, AnswerSays
  <2>6. Knows(sl, op2, tk)'
    BY <1>5, <2>1, <2>3, <2>5 DEF Knows, Settled, Quiescent
  <2> QED
    BY <1>1, <1>2, <1>3, <1>6, <2>2, <2>4, <2>5, <2>6, TurnsTo
<1>9. CASE /\ Answer("unsafe") /\ EndPass
           /\ slot' = [slot EXCEPT ![s].state = "cleanup_failed", ![s].creationUncertain = TRUE]
  <2>1. PICK sl : sl = [slot[s] EXCEPT !.state = "cleanup_failed", !.creationUncertain = TRUE]
    OBVIOUS
  <2>2. sl \in Slot /\ slot' = [slot EXCEPT ![s] = sl]
    <3>1. slot' = [slot EXCEPT ![s] = sl]
      BY <1>2, <1>9, <2>1
    <3>2. slot[s] \in Slot
      BY <1>2
    <3> QED
      BY <2>1, <3>1, <3>2, SlotFields, Zenon
  <2>3. sl.state = "cleanup_failed" /\ ~sl.paneCreated /\ sl.creationUncertain /\ sl.ticket = T(s)
    BY <1>2, <1>5, <2>1 DEF Slot, T
  <2>4. PICK op2 : op2 = "none"
    OBVIOUS
  <2>5. NextCall(op2, s) /\ Fits(sl, op2, mode)
    BY <1>9, <2>3, <2>4 DEF NextCall, Fits
  <2>6. /\ PaneOK(tk)' /\ ReplyShape'
        /\ \A t \in Tickets : call'[t] = call[t] /\ rec'[t] = rec[t] /\ live'[t] = live[t]
    BY <1>1, <1>3, <1>9, AnswerSays
  <2>7. Knows(sl, op2, tk)'
    BY <2>3, <2>4, <2>6 DEF Knows
  <2> QED
    <3>1. sl.ticket = T(s) /\ sl.state # "empty"
      BY <2>3
    <3>2. \A t \in Tickets \ {tk} : call'[t] = call[t] /\ rec'[t] = rec[t] /\ live'[t] = live[t]
      BY <2>6
    <3>3. PaneOK(tk)' /\ ReplyShape'
      BY <2>6
    <3> QED
      BY <1>1, <1>2, <1>3, <1>6, <2>2, <2>5, <2>7, <3>1, <3>2, <3>3, TurnsTo
<1> QED
  BY <1>7, <1>8, <1>9 DEF CreateReturns

LEMMA RequeueWithoutPaneInv ==
    ASSUME IInv, ManagerAssumption, NEW s \in Slots, requeueWithoutPane(s)
    PROVE  IInv'
<1>1. At("requeue", s) /\ "requeue" \in InnerOp
  BY InnerOps DEF requeueWithoutPane
<1>2. /\ SlotShape(s) /\ SlotKnows(s) /\ T(s) \in Tickets /\ PaneOK(T(s))
      /\ slot[s].state # "empty" /\ slot \in [Slots -> Slot]
      /\ waiting = 0 /\ reply \notin {"ok", "safe"} /\ ~At("await", s)
  BY <1>1, Here
<1>3. PICK tk \in Tickets : tk = T(s)
  BY <1>2
<1>4. slot[s].state = "starting" /\ ~slot[s].paneCreated /\ ~slot[s].creationUncertain
  BY <1>1, <1>2 DEF SlotShape
<1>5. SlotStep(s) /\ mode' = mode /\ EndPass /\ UNCHANGED <<call, rec, live, waiting, reply, strays>>
  BY DEF SlotStep, requeueWithoutPane, paneVars
<1>6. ReplyShape'
  BY <1>2, <1>5, NoReply
<1>7. PaneOK(tk)' /\ Quiescent(tk)' /\ Settled(tk)'
  BY <1>2, <1>3, <1>4, <1>5 DEF SlotKnows, PaneOK, Settled, Quiescent
<1>8. CASE Release(s)
  BY <1>1, <1>2, <1>3, <1>5, <1>6, <1>7, <1>8, FreesTo
<1>9. CASE slot' = [slot EXCEPT ![s].state = "cleanup_failed"]
  <2>1. PICK sl : sl = [slot[s] EXCEPT !.state = "cleanup_failed"]
    OBVIOUS
  <2>2. sl \in Slot /\ slot' = [slot EXCEPT ![s] = sl]
    BY <1>2, <1>9, <2>1 DEF Slot, SlotState
  <2>3. sl.state = "cleanup_failed" /\ ~sl.paneCreated /\ ~sl.creationUncertain /\ sl.ticket = T(s)
    BY <1>2, <1>4, <2>1 DEF Slot, T
  <2>4. PICK op2 : op2 = "none"
    OBVIOUS
  <2>5. NextCall(op2, s) /\ Fits(sl, op2, mode)
    BY <1>5, <2>3, <2>4 DEF NextCall, Fits
  <2>6. Knows(sl, op2, tk)'
    BY <2>3, <2>4, <1>7 DEF Knows, Settled, Quiescent
  <2> QED
    BY <1>1, <1>2, <1>3, <1>5, <1>6, <1>7, <2>2, <2>3, <2>5, <2>6, TurnsTo
<1> QED
  BY <1>8, <1>9 DEF requeueWithoutPane

\* What may become of a slot at work, and the call that is next then.
WorkOutcome ==
    {<<"working", "none">>, <<"working", "exists">>, <<"completing", "complete">>,
     <<"cleanup_failed", "cleanup">>}

LEMMA WorkingTo ==
    ASSUME IInv, ManagerAssumption, NEW s \in Slots, NEW op, At(op, s),
           op \notin {"await", "reawait"}, slot[s].state = "working", SlotStep(s),
           mode' = mode, UNCHANGED <<call, live, waiting, reply, strays>>,
           NEW st, NEW op2, <<st, op2>> \in WorkOutcome,
           slot' = [slot EXCEPT ![s].state = st], NextCall(op2, s),
           NEW tk \in Tickets, tk = T(s), \A t \in Tickets \ {tk} : rec'[t] = rec[t],
           PaneOK(tk)', Settled(tk)'
    PROVE  IInv'
<1>1. /\ SlotShape(s) /\ SlotKnows(s) /\ slot \in [Slots -> Slot]
      /\ waiting = 0 /\ reply \notin {"ok", "safe"}
  BY Here
<1>2. /\ st \in {"working", "completing", "cleanup_failed"}
      /\ op2 \in {"none", "exists", "complete", "cleanup"}
      /\ op2 = "exists" => st = "working"
      /\ op2 = "complete" => st = "completing"
      /\ op2 = "cleanup" => st = "cleanup_failed"
  BY DEF WorkOutcome
<1>3. PICK sl : sl = [slot[s] EXCEPT !.state = st]
  OBVIOUS
<1>4. sl \in Slot /\ slot' = [slot EXCEPT ![s] = sl]
  BY <1>1, <1>2, <1>3 DEF Slot, SlotState
<1>5. sl.state = st /\ sl.paneCreated /\ ~sl.creationUncertain /\ sl.ticket = T(s)
  BY <1>1, <1>3 DEF Slot, T, SlotShape
<1>6. ReplyShape'
  BY <1>1, NoReply
<1>7. Fits(sl, op2, mode)
  BY <1>2, <1>5 DEF Fits
<1>8. Knows(sl, op2, tk)'
  BY <1>2, <1>5 DEF Knows, Settled
<1>9. \A t \in Tickets \ {tk} : call'[t] = call[t] /\ rec'[t] = rec[t] /\ live'[t] = live[t]
  OBVIOUS
<1>10. sl.state # "empty"
  BY <1>2, <1>5
<1> QED
  BY <1>4, <1>5, <1>6, <1>7, <1>8, <1>9, <1>10, TurnsTo

\* The ways a call for a slot at work ends are such outcomes.
LEMMA WorkEnds ==
    ASSUME NEW s \in Slots, slot \in [Slots -> Slot], slot[s].state = "working",
           \/ UNCHANGED slot /\ Return
           \/ UNCHANGED slot /\ Goto("exists", s)
           \/ completeSlot(s)
           \/ slot' = [slot EXCEPT ![s].state = "cleanup_failed"] /\ Goto("cleanup", s)
    PROVE  \E st, op2 : /\ <<st, op2>> \in WorkOutcome
                        /\ slot' = [slot EXCEPT ![s].state = st] /\ NextCall(op2, s)
<1>1. slot = [slot EXCEPT ![s].state = "working"]
  <2>1. slot[s] = [slot[s] EXCEPT !.state = "working"]
    BY DEF Slot
  <2> QED
    BY <2>1
<1>2. /\ <<"working", "none">> \in WorkOutcome /\ <<"working", "exists">> \in WorkOutcome
      /\ <<"completing", "complete">> \in WorkOutcome
      /\ <<"cleanup_failed", "cleanup">> \in WorkOutcome
  BY DEF WorkOutcome
<1>3. {"exists", "complete", "cleanup"} \subseteq InnerOp
  BY InnerOps
<1>4. CASE UNCHANGED slot /\ Return
  <2>1. slot' = [slot EXCEPT ![s].state = "working"] /\ NextCall("none", s)
    BY <1>1, <1>4 DEF NextCall
  <2> QED
    BY <1>2, <2>1, Zenon
<1>5. CASE UNCHANGED slot /\ Goto("exists", s)
  <2>1. slot' = [slot EXCEPT ![s].state = "working"] /\ NextCall("exists", s)
    BY <1>1, <1>3, <1>5 DEF NextCall
  <2> QED
    BY <1>2, <2>1, Zenon
<1>6. CASE completeSlot(s)
  <2>1. slot' = [slot EXCEPT ![s].state = "completing"] /\ NextCall("complete", s)
    BY <1>3, <1>6 DEF NextCall, completeSlot
  <2> QED
    BY <1>2, <2>1, Zenon
<1>7. CASE slot' = [slot EXCEPT ![s].state = "cleanup_failed"] /\ Goto("cleanup", s)
  <2>1. NextCall("cleanup", s)
    BY <1>3, <1>7 DEF NextCall
  <2> QED
    BY <1>2, <1>7, <2>1, Zenon
<1> QED
  BY <1>4, <1>5, <1>6, <1>7

LEMMA WorkerExistsInv ==
    ASSUME IInv, ManagerAssumption, NEW s \in Slots, workerExists(s)
    PROVE  IInv'
<1>1. PICK op \in {"verify", "exists"} : At(op, s) /\ op \in InnerOp
  BY InnerOps DEF workerExists
<1>2. /\ SlotShape(s) /\ SlotKnows(s) /\ T(s) \in Tickets /\ PaneOK(T(s)) /\ slot \in [Slots -> Slot]
      /\ ~At("await", s)
  BY <1>1, Here
<1>3. PICK tk \in Tickets : tk = T(s)
  BY <1>2
<1>4. slot[s].state = "working" /\ op \notin {"await", "reawait"}
  BY <1>1, <1>2 DEF SlotShape
<1>5. SlotStep(s) /\ mode' = mode /\ UNCHANGED <<call, rec, live, waiting, reply, strays>>
  BY DEF SlotStep, workerExists, paneVars
<1>6. PaneOK(tk)' /\ Settled(tk)'
  BY <1>2, <1>3, <1>4, <1>5 DEF SlotShape, SlotKnows, PaneOK, Settled
<1>7. PICK st, op2 : /\ <<st, op2>> \in WorkOutcome
                     /\ slot' = [slot EXCEPT ![s].state = st] /\ NextCall(op2, s)
  BY <1>2, <1>4, WorkEnds DEF workerExists
<1> QED
  BY <1>1, <1>3, <1>4, <1>5, <1>6, <1>7, WorkingTo

\* What SnapshotOutput keeps.
LEMMA SnapshotKeeps ==
    ASSUME TypeOK, NEW tk \in Tickets, PaneOK(tk), Settled(tk), NEW o \in SnapshotOutput(tk),
           rec' = [rec EXCEPT ![tk] = o.rec], UNCHANGED <<call, live, strays>>
    PROVE  PaneOK(tk)' /\ Settled(tk)' /\ \A t \in Tickets \ {tk} : rec'[t] = rec[t]
<1>1. rec \in [Tickets -> RecState] /\ live \in [Tickets -> BOOLEAN] /\ call \in [Tickets -> CallState]
  BY DEF TypeOK, PaneTypeOK
<1>2. o.rec = rec[tk] \/ o.rec = FailedSnapshot(rec[tk])
  BY SnapshotOutcome DEF FailedSnapshot
<1>3. o.rec = rec[tk] \/ (rec[tk] = "active" /\ o.rec = "error")
        \/ (rec[tk] = "gone" /\ o.rec = "revived")
  BY <1>1, <1>2 DEF FailedSnapshot, RecState
<1> QED
  BY <1>1, <1>3 DEF PaneOK, Settled

LEMMA CompletionSnapshotInv ==
    ASSUME IInv, ManagerAssumption, NEW s \in Slots, CompletionSnapshot(s)
    PROVE  IInv'
<1>1. At("verify", s) /\ "verify" \in InnerOp
  BY InnerOps DEF CompletionSnapshot
<1>2. /\ SlotShape(s) /\ SlotKnows(s) /\ T(s) \in Tickets /\ PaneOK(T(s)) /\ slot \in [Slots -> Slot]
      /\ ~At("await", s) /\ TypeOK
  BY <1>1, Here
<1>3. PICK tk \in Tickets : tk = T(s)
  BY <1>2
<1>4. slot[s].state = "working" /\ Settled(tk)
  BY <1>1, <1>2, <1>3 DEF SlotShape, SlotKnows
<1>5. SlotStep(s) /\ mode' = mode /\ UNCHANGED <<call, live, waiting, reply, strays>>
  BY DEF SlotStep, CompletionSnapshot
<1>6. PICK o \in SnapshotOutput(tk) :
          /\ rec' = [rec EXCEPT ![tk] = o.rec]
          /\ \/ completeSlot(s) \/ (UNCHANGED slot /\ (Goto("exists", s) \/ Return))
  <2>1. PICK o \in SnapshotOutput(T(s)) :
          /\ rec' = [rec EXCEPT ![T(s)] = o.rec]
          /\ \/ o.seen \in {"notfound", "error"} /\ Goto("exists", s) /\ UNCHANGED slot
             \/ o.seen \in {"marker", "plain"} /\ Alive
                /\ IF rec[T(s)] = "active" THEN completeSlot(s) ELSE Return /\ UNCHANGED slot
    BY Zenon DEF CompletionSnapshot
  <2>2. completeSlot(s) \/ (UNCHANGED slot /\ (Goto("exists", s) \/ Return))
    BY <2>1
  <2> QED
    BY <1>3, <2>1, <2>2
<1>7. PaneOK(tk)' /\ Settled(tk)' /\ \A t \in Tickets \ {tk} : rec'[t] = rec[t]
  BY <1>2, <1>3, <1>4, <1>5, <1>6, SnapshotKeeps
<1>8. PICK st, op2 : /\ <<st, op2>> \in WorkOutcome
                     /\ slot' = [slot EXCEPT ![s].state = st] /\ NextCall(op2, s)
  BY <1>2, <1>4, <1>6, WorkEnds
<1> QED
  BY <1>1, <1>3, <1>4, <1>5, <1>7, <1>8, WorkingTo

LEMMA RecoverSnapshotInv ==
    ASSUME IInv, ManagerAssumption, NEW s \in Slots, recoverSnapshot(s)
    PROVE  IInv'
<1>1. At("snapshot", s) /\ slot[s].state = "working"
  BY DEF recoverSnapshot
<1>2. /\ SlotShape(s) /\ SlotKnows(s) /\ T(s) \in Tickets /\ PaneOK(T(s)) /\ slot \in [Slots -> Slot]
      /\ ~At("await", s) /\ TypeOK
  BY <1>1, Here
<1>3. PICK tk \in Tickets : tk = T(s)
  BY <1>2
<1>4. Settled(tk)
  BY <1>1, <1>2, <1>3 DEF SlotShape, SlotKnows
<1>5. SlotStep(s) /\ mode' = mode /\ UNCHANGED <<call, live, waiting, reply, strays>>
  BY DEF SlotStep, recoverSnapshot
<1>6. PICK o \in SnapshotOutput(tk) :
          /\ rec' = [rec EXCEPT ![tk] = o.rec]
          /\ \/ slot' = [slot EXCEPT ![s].state = "cleanup_failed"] /\ Goto("cleanup", s)
             \/ completeSlot(s) \/ (UNCHANGED slot /\ Return)
  <2>1. PICK o \in SnapshotOutput(T(s)) :
          /\ rec' = [rec EXCEPT ![T(s)] = o.rec]
          /\ CASE o.seen = "notfound" -> /\ slot' = [slot EXCEPT ![s].state = "cleanup_failed"]
                                         /\ Goto("cleanup", s)
               [] o.seen = "marker"   -> completeSlot(s)
               [] OTHER               -> Return /\ UNCHANGED slot
    BY Zenon DEF recoverSnapshot
  <2>2. \/ slot' = [slot EXCEPT ![s].state = "cleanup_failed"] /\ Goto("cleanup", s)
        \/ completeSlot(s) \/ (UNCHANGED slot /\ Return)
    BY <2>1
  <2> QED
    BY <1>3, <2>1, <2>2
<1>7. PaneOK(tk)' /\ Settled(tk)' /\ \A t \in Tickets \ {tk} : rec'[t] = rec[t]
  BY <1>2, <1>3, <1>4, <1>5, <1>6, SnapshotKeeps
<1>8. PICK st, op2 : /\ <<st, op2>> \in WorkOutcome
                     /\ slot' = [slot EXCEPT ![s].state = st] /\ NextCall(op2, s)
  BY <1>1, <1>2, <1>6, WorkEnds
<1> QED
  BY <1>1, <1>3, <1>5, <1>7, <1>8, WorkingTo

LEMMA RetryCompleteInv ==
    ASSUME IInv, ManagerAssumption, NEW s \in Slots, retryComplete(s)
    PROVE  IInv'
<1>1. PICK op \in {"complete", "retry"} :
          At(op, s) /\ (op \in InnerOp \/ slot[s].state = "completing")
  BY InnerOps DEF retryComplete
<1>2. /\ SlotShape(s) /\ SlotKnows(s) /\ T(s) \in Tickets /\ PaneOK(T(s)) /\ slot \in [Slots -> Slot]
      /\ slot[s].state # "empty" /\ ~At("await", s) /\ waiting = 0 /\ reply \notin {"ok", "safe"}
  BY <1>1, Here
<1>3. PICK tk \in Tickets : tk = T(s)
  BY <1>2
<1>4. slot[s].state = "completing"
  BY <1>1, <1>2, InnerOps DEF SlotShape
<1>5. SlotStep(s) /\ mode' = mode /\ UNCHANGED <<call, rec, live, waiting, reply, strays>>
  BY DEF SlotStep, retryComplete, paneVars
<1>6. CASE UNCHANGED slot /\ Return
  BY <1>1, <1>2, <1>5, <1>6, GivesUp
<1>7. CASE slot' = [slot EXCEPT ![s].state = "closing", ![s].done = TRUE] /\ Goto("close", s)
  <2>1. PICK sl : sl = [slot[s] EXCEPT !.state = "closing", !.done = TRUE]
    OBVIOUS
  <2>2. sl \in Slot /\ slot' = [slot EXCEPT ![s] = sl]
    BY <1>2, <1>7, <2>1 DEF Slot, SlotState
  <2>3. /\ sl.state = "closing" /\ sl.done /\ sl.paneCreated /\ ~sl.creationUncertain
        /\ sl.ticket = T(s)
    BY <1>2, <1>4, <2>1 DEF Slot, T, SlotShape
  <2>4. PICK op2 : op2 = "close"
    OBVIOUS
  <2>5. NextCall(op2, s) /\ Fits(sl, op2, mode)
    BY <1>7, <2>3, <2>4, InnerOps DEF NextCall, Fits
  <2>6. PaneOK(tk)' /\ Settled(tk)'
    BY <1>2, <1>3, <1>4, <1>5 DEF SlotKnows, SlotShape, PaneOK, Settled
  <2>7. Knows(sl, op2, tk)'
    BY <2>3, <2>4, <2>6 DEF Knows, Settled
  <2>8. ReplyShape'
    BY <1>2, <1>5, NoReply
  <2> QED
    BY <1>1, <1>2, <1>3, <1>5, <2>2, <2>3, <2>5, <2>6, <2>7, <2>8, TurnsTo
<1> QED
  BY <1>6, <1>7 DEF retryComplete

\* The pane is closed or absent.
LEMMA ClosedInv ==
    ASSUME IInv, ManagerAssumption, NEW s \in Slots, NEW op, At(op, s), slot[s].state # "empty",
           op \notin {"await", "reawait"}, SlotStep(s), mode' = mode, Closed(s),
           UNCHANGED <<call, waiting, reply, strays>>,
           NEW tk \in Tickets, tk = T(s),
           \A t \in Tickets \ {tk} : rec'[t] = rec[t] /\ live'[t] = live[t],
           PaneOK(tk)', Quiescent(tk)', ~slot[s].creationUncertain,
           slot[s].done \/ slot[s].state = "cleanup_failed" \/ mode = "stopping"
    PROVE  IInv'
<1>1. /\ SlotShape(s) /\ SlotKnows(s) /\ slot \in [Slots -> Slot]
      /\ waiting = 0 /\ reply \notin {"ok", "safe"}
  BY Here
<1>2. ReplyShape'
  BY <1>1, NoReply
<1>3. \A t \in Tickets \ {tk} : call'[t] = call[t] /\ rec'[t] = rec[t] /\ live'[t] = live[t]
  OBVIOUS
<1>4. CASE slot[s].done
  <2>1. Release(s) /\ Return
    BY <1>4 DEF Closed
  <2> QED
    BY <1>2, <1>3, <2>1, FreesTo
<1>5. CASE ~slot[s].done
  <2>1. PICK b \in BOOLEAN : b = (mode = "stopping")
    OBVIOUS
  <2>2. slot' = [slot EXCEPT ![s].paneCreated = b] /\ Goto("putback", s)
    BY <1>5, <2>1 DEF Closed
  <2>3. PICK sl : sl = [slot[s] EXCEPT !.paneCreated = b]
    OBVIOUS
  <2>4. sl \in Slot /\ slot' = [slot EXCEPT ![s] = sl]
    BY <1>1, <2>2, <2>3 DEF Slot
  <2>5. /\ sl.state = slot[s].state /\ sl.paneCreated = b /\ sl.ticket = T(s)
        /\ ~sl.creationUncertain /\ sl.done = slot[s].done
    BY <1>1, <2>3 DEF Slot, T
  <2>6. PICK op2 : op2 = "putback"
    OBVIOUS
  <2>7. NextCall(op2, s)
    BY <2>2, <2>6, InnerOps DEF NextCall
  <2>8. Fits(sl, op2, mode)
    BY <1>1, <1>5, <2>1, <2>5, <2>6 DEF Fits, SlotShape
  <2>9. Knows(sl, op2, tk)'
    BY <2>5, <2>6 DEF Knows, Settled, Quiescent
  <2> QED
    BY <1>2, <1>3, <2>4, <2>5, <2>7, <2>8, <2>9, TurnsTo
<1> QED
  BY <1>4, <1>5

\* Only a pass of shutdown stops slots.
LEMMA StopMeansStopping ==
    ASSUME PassShape, NEW s, At("stop", s)
    PROVE  mode = "stopping"
<1>1. todo # <<>> /\ todo[1] = [op |-> "stop", s |-> s]
  BY DEF At
<1>2. todo[1] \in PassItem(mode) \cup InnerItem
  <2> DEFINE J == PassItem(mode) \cup InnerItem
  <2>1. todo \in Seq(J)
    BY DEF PassShape
  <2> HIDE DEF J
  <2>2. Len(todo) \in Nat \ {0}
    BY <1>1, <2>1, EmptySeq
  <2>3. todo[1] \in J
    BY <2>1, <2>2, ElementOfSeq
  <2> QED
    BY <2>3 DEF J
<1>3. "stop" \notin InnerOp
  BY InnerOps
<1> QED
  BY <1>1, <1>2, <1>3 DEF PassItem, InnerItem

\* When a slot is to be cleaned or closed.
LEMMA CleaningHere ==
    ASSUME IInv, NEW s \in Slots, Cleaning(s)
    PROVE  /\ \E op \in {"cleanup", "retry", "stop"} : At(op, s)
           /\ slot[s].state # "empty" /\ (slot[s].state = "cleanup_failed" \/ mode = "stopping")
<1>1. CASE At("cleanup", s)
  <2>1. slot[s].state # "empty" /\ SlotShape(s)
    BY <1>1, InnerOps, Here
  <2> QED
    BY <1>1, <2>1 DEF SlotShape
<1>2. CASE At("retry", s) /\ slot[s].state = "cleanup_failed"
  BY <1>2
<1>3. CASE At("stop", s) /\ slot[s].state # "empty"
  BY <1>3, StopMeansStopping DEF IInv
<1> QED
  BY <1>1, <1>2, <1>3 DEF Cleaning

LEMMA WantsCloseHere ==
    ASSUME IInv, NEW s \in Slots, WantsClose(s)
    PROVE  /\ \E op \in {"close", "cleanup", "retry", "stop"} : At(op, s)
           /\ slot[s].state # "empty" /\ ~slot[s].creationUncertain
           /\ slot[s].done \/ slot[s].state = "cleanup_failed" \/ mode = "stopping"
<1>1. CASE At("close", s)
  <2>1. slot[s].state # "empty" /\ SlotShape(s)
    BY <1>1, InnerOps, Here
  <2> QED
    BY <1>1, <2>1 DEF SlotShape
<1>2. CASE At("retry", s) /\ slot[s].state = "closing"
  <2>1. SlotShape(s)
    BY <1>2, Here
  <2> QED
    BY <1>2, <2>1 DEF SlotShape
<1>3. CASE Cleaning(s) /\ ~slot[s].creationUncertain /\ slot[s].paneCreated
  BY <1>3, CleaningHere
<1> QED
  BY <1>1, <1>2, <1>3 DEF WantsClose

\* What ClosePane keeps, and what its success means.
LEMMA CloseKeeps ==
    ASSUME TypeOK, NEW tk \in Tickets, PaneOK(tk), NEW o \in ClosePane(tk),
           rec' = [rec EXCEPT ![tk] = o.rec], live' = [live EXCEPT ![tk] = o.live],
           call' = call, strays' = strays
    PROVE  /\ PaneOK(tk)' /\ (Settled(tk) => Settled(tk)') /\ (Quiescent(tk) => Quiescent(tk)')
           /\ o.ok => Quiescent(tk)'
           /\ \A t \in Tickets \ {tk} : rec'[t] = rec[t] /\ live'[t] = live[t]
<1>1. rec \in [Tickets -> RecState] /\ live \in [Tickets -> BOOLEAN] /\ call \in [Tickets -> CallState]
  BY DEF TypeOK, PaneTypeOK
<1>2. rec'[tk] = o.rec /\ live'[tk] = o.live
      /\ \A t \in Tickets \ {tk} : rec'[t] = rec[t] /\ live'[t] = live[t]
  BY <1>1
<1>3. CASE o.rec = rec[tk] /\ o.live = live[tk] /\ o.ok = FALSE
  BY <1>1, <1>2, <1>3 DEF PaneOK, Settled, Quiescent
<1>4. CASE rec[tk] # "none" /\ o.rec = FailedClose(rec[tk]) /\ o.live = live[tk] /\ o.ok = FALSE
  BY <1>1, <1>2, <1>4 DEF PaneOK, Settled, Quiescent, FailedClose
<1>5. CASE rec[tk] # "none" /\ live[tk] /\ o.rec = "gone" /\ o.live = FALSE
  BY <1>1, <1>2, <1>5 DEF PaneOK, Settled, Quiescent
<1> QED
  BY <1>3, <1>4, <1>5, CloseOutcome

LEMMA CloseInv ==
    ASSUME IInv, ManagerAssumption, NEW s \in Slots, close(s)
    PROVE  IInv'
<1>1. /\ \E op \in {"close", "cleanup", "retry", "stop"} : At(op, s)
      /\ slot[s].state # "empty" /\ ~slot[s].creationUncertain
      /\ slot[s].done \/ slot[s].state = "cleanup_failed" \/ mode = "stopping"
  BY WantsCloseHere DEF close
<1>2. PICK op \in {"close", "cleanup", "retry", "stop"} : At(op, s)
  BY <1>1
<1>3. /\ SlotShape(s) /\ SlotKnows(s) /\ T(s) \in Tickets /\ PaneOK(T(s)) /\ TypeOK
      /\ slot \in [Slots -> Slot] /\ ~At("await", s) /\ ~At("reawait", s)
      /\ waiting = 0 /\ reply \notin {"ok", "safe"}
  BY <1>1, <1>2, Here
<1>4. PICK tk \in Tickets : tk = T(s)
  BY <1>3
<1>5. SlotStep(s) /\ mode' = mode /\ UNCHANGED <<call, waiting, reply, strays>>
  BY DEF SlotStep, close
<1>6. PICK o \in ClosePane(tk) :
        /\ rec' = [rec EXCEPT ![tk] = o.rec]
        /\ live' = [live EXCEPT ![tk] = o.live]
        /\ \/ o.ok /\ Closed(s)
           \/ ~o.ok /\ Goto("absent", s) /\ UNCHANGED slot
  <2>1. PICK o \in ClosePane(T(s)) :
          /\ rec' = [rec EXCEPT ![T(s)] = o.rec]
          /\ live' = [live EXCEPT ![T(s)] = o.live]
          /\ \/ o.ok /\ Alive /\ Closed(s)
             \/ ~o.ok /\ Goto("absent", s) /\ UNCHANGED slot
    BY Zenon DEF close
  <2> QED
    BY <1>4, <2>1
<1>7. /\ PaneOK(tk)' /\ (Settled(tk) => Settled(tk)') /\ (Quiescent(tk) => Quiescent(tk)')
      /\ o.ok => Quiescent(tk)'
      /\ \A t \in Tickets \ {tk} : rec'[t] = rec[t] /\ live'[t] = live[t]
  BY <1>3, <1>4, <1>5, <1>6, CloseKeeps
<1>8. CASE o.ok /\ Closed(s)
  BY <1>1, <1>2, <1>4, <1>5, <1>7, <1>8, ClosedInv
<1>9. CASE Goto("absent", s) /\ UNCHANGED slot
  <2>1. PICK op2 : op2 = "absent"
    OBVIOUS
  <2>2. NextCall(op2, s)
    BY <1>9, <2>1, InnerOps DEF NextCall
  <2>3. Fits(slot[s], op2, mode)
    BY <1>1, <1>3, <2>1 DEF Fits, SlotShape
  <2>4. PICK sl \in Slot : sl = slot[s]
    BY <1>3
  <2>5. slot' = [slot EXCEPT ![s] = sl] /\ sl.ticket = T(s) /\ sl.state # "empty"
    BY <1>1, <1>3, <1>9, <2>4 DEF T
  <2>6. /\ ~sl.creationUncertain /\ Settled(tk)'
        /\ ~sl.paneCreated => Quiescent(tk)'
    BY <1>1, <1>3, <1>4, <1>7, <2>4 DEF SlotKnows
  <2>7. Knows(sl, op2, tk)'
    BY <2>1, <2>6 DEF Knows, Settled, Quiescent
  <2>8. ReplyShape'
    BY <1>3, <1>5, NoReply
  <2>9. \A t \in Tickets \ {tk} : call'[t] = call[t] /\ rec'[t] = rec[t] /\ live'[t] = live[t]
    BY <1>5, <1>7
  <2>10. Fits(sl, op2, mode)
    BY <2>3, <2>4
  <2> QED
    BY <1>1, <1>2, <1>4, <1>5, <1>7, <2>2, <2>5, <2>7, <2>8, <2>9, <2>10, TurnsTo
<1> QED
  BY <1>6, <1>8, <1>9

LEMMA OrAbsentInv ==
    ASSUME IInv, ManagerAssumption, NEW s \in Slots, orAbsent(s)
    PROVE  IInv'
<1>1. At("absent", s) /\ "absent" \in InnerOp
  BY InnerOps DEF orAbsent
<1>2. /\ SlotShape(s) /\ SlotKnows(s) /\ T(s) \in Tickets /\ PaneOK(T(s))
      /\ slot[s].state # "empty" /\ ~At("await", s)
  BY <1>1, Here
<1>3. PICK tk \in Tickets : tk = T(s)
  BY <1>2
<1>4. SlotStep(s) /\ mode' = mode /\ UNCHANGED <<call, rec, live, waiting, reply, strays>>
  BY DEF SlotStep, orAbsent, paneVars
<1>5. /\ ~slot[s].creationUncertain
      /\ slot[s].done \/ slot[s].state = "cleanup_failed" \/ mode = "stopping"
  BY <1>1, <1>2 DEF SlotShape
<1>6. PaneOK(tk)' /\ Settled(tk)
  BY <1>2, <1>3, <1>4, <1>5 DEF SlotKnows, PaneOK
<1>7. CASE ~paneConsumesCapacity(T(s)) /\ Closed(s)
  <2>1. Quiescent(tk)'
    BY <1>3, <1>4, <1>6, <1>7 DEF paneConsumesCapacity, PaneOK, Settled, Quiescent
  <2> QED
    BY <1>1, <1>2, <1>3, <1>4, <1>5, <1>6, <1>7, <2>1, ClosedInv
<1>8. CASE Return /\ UNCHANGED slot
  BY <1>1, <1>2, <1>4, <1>8, GivesUp
<1> QED
  BY <1>7, <1>8 DEF orAbsent

LEMMA PutBackInv ==
    ASSUME IInv, ManagerAssumption, NEW s \in Slots, PutBack(s)
    PROVE  IInv'
<1>1. PICK op \in {"putback", "cleanup", "retry", "stop"} :
        /\ At(op, s)
        /\ \/ op = "putback"
           \/ slot[s].state # "empty" /\ ~slot[s].creationUncertain /\ ~slot[s].paneCreated
  BY CleaningHere DEF PutBack
<1>2. /\ SlotShape(s) /\ SlotKnows(s) /\ T(s) \in Tickets /\ PaneOK(T(s))
      /\ slot[s].state # "empty" /\ ~At("await", s) /\ waiting = 0 /\ reply \notin {"ok", "safe"}
  BY <1>1, InnerOps, Here
<1>3. PICK tk \in Tickets : tk = T(s)
  BY <1>2
<1>4. /\ SlotStep(s) /\ mode' = mode /\ Return
      /\ UNCHANGED <<call, rec, live, waiting, reply, strays>>
  BY DEF SlotStep, PutBack, paneVars
<1>5. PaneOK(tk)' /\ Quiescent(tk)'
  BY <1>1, <1>2, <1>3, <1>4 DEF SlotKnows, PaneOK, Settled, Quiescent
<1>6. ReplyShape'
  BY <1>2, <1>4, NoReply
<1>7. CASE Release(s)
  BY <1>1, <1>2, <1>3, <1>4, <1>5, <1>6, <1>7, FreesTo
<1>8. CASE UNCHANGED slot
  BY <1>1, <1>2, <1>4, <1>8, GivesUp
<1> QED
  BY <1>7, <1>8 DEF PutBack

\* The outcome of a create is known: there is a record.
LEMMA FoundInv ==
    ASSUME IInv, ManagerAssumption, NEW s \in Slots, NEW op, At(op, s), slot[s].state # "empty",
           SlotStep(s), mode' = mode, Found(s), slot[s].creationUncertain,
           NEW tk \in Tickets, tk = T(s),
           \A t \in Tickets : call'[t] = call[t] /\ rec'[t] = rec[t] /\ live'[t] = live[t],
           PaneOK(tk)', ReplyShape', Settled(tk)'
    PROVE  IInv'
<1>1. SlotShape(s) /\ slot \in [Slots -> Slot]
  BY Here
<1>2. PICK sl : sl = [slot[s] EXCEPT !.creationUncertain = FALSE, !.paneCreated = TRUE]
  OBVIOUS
<1>3. sl \in Slot /\ slot' = [slot EXCEPT ![s] = sl]
  <2>1. slot' = [slot EXCEPT ![s] = sl]
    BY <1>1, <1>2 DEF Found
  <2>2. slot[s] \in Slot
    BY <1>1
  <2> QED
    BY <1>2, <2>1, <2>2, SlotFields, Zenon
<1>4. /\ sl.state = "cleanup_failed" /\ sl.paneCreated /\ ~sl.creationUncertain
      /\ sl.ticket = T(s)
  BY <1>1, <1>2 DEF Slot, T, SlotShape
<1>5. PICK op2 \in {"stop", "cleanup"} : NextCall(op2, s)
  BY InnerOps DEF Found, NextCall
<1>6. Fits(sl, op2, mode)
  BY <1>4, <1>5 DEF Fits
<1>7. Knows(sl, op2, tk)'
  BY <1>4, <1>5 DEF Knows, Settled
<1>8. sl.state # "empty" /\ sl.ticket = T(s)
  BY <1>4
<1>9. \A t \in Tickets \ {tk} : call'[t] = call[t] /\ rec'[t] = rec[t] /\ live'[t] = live[t]
  OBVIOUS
<1> QED
  BY <1>3, <1>5, <1>6, <1>7, <1>8, <1>9, TurnsTo

\* A pane that is there while a create is in doubt cannot be followed by another.
LEMMA InspectSettles ==
    ASSUME NEW tk \in Tickets, matchesWorkerPane(tk)
    PROVE  Settled(tk)
BY DEF matchesWorkerPane, Settled

LEMMA InspectInv ==
    ASSUME IInv, ManagerAssumption, NEW s \in Slots, Inspect(s) \/ Reinspect(s)
    PROVE  IInv'
<1>1. PICK op \in {"cleanup", "retry", "stop", "reinspect"} :
        At(op, s) /\ (op = "reinspect" \/ (slot[s].state # "empty" /\ slot[s].creationUncertain))
  BY CleaningHere DEF Inspect, Reinspect
<1>2. /\ SlotShape(s) /\ SlotKnows(s) /\ T(s) \in Tickets /\ PaneOK(T(s)) /\ TypeOK
      /\ slot[s].state # "empty" /\ ~At("await", s) /\ waiting = 0 /\ reply \notin {"ok", "safe"}
  BY <1>1, InnerOps, Here
<1>3. PICK tk \in Tickets : tk = T(s)
  BY <1>2
<1>4. slot[s].creationUncertain
  BY <1>1, <1>2 DEF SlotShape
<1>5. SlotStep(s) /\ mode' = mode /\ UNCHANGED <<call, rec, live, waiting, reply, strays>>
  BY DEF SlotStep, Inspect, Reinspect, paneVars
<1>6. ReplyShape'
  BY <1>2, <1>5, NoReply
<1>7. PaneOK(tk)'
  BY <1>2, <1>3, <1>4, <1>5 DEF SlotKnows, PaneOK
<1>8. CASE matchesWorkerPane(T(s)) /\ Found(s)
  <2>1. Settled(tk)
    BY <1>3, <1>8, InspectSettles
  <2>2. Settled(tk)'
    BY <1>5, <2>1 DEF Settled
  <2>3. \A t \in Tickets : call'[t] = call[t] /\ rec'[t] = rec[t] /\ live'[t] = live[t]
    BY <1>5
  <2> QED
    BY <1>1, <1>2, <1>3, <1>4, <1>5, <1>6, <1>7, <1>8, <2>2, <2>3, FoundInv
<1>9. CASE Goto("recreate", s) /\ UNCHANGED slot
  <2>1. PICK op2 : op2 = "recreate"
    OBVIOUS
  <2>2. NextCall(op2, s) /\ Fits(slot[s], op2, mode) /\ op2 \notin {"await", "putback"}
    BY <1>2, <1>4, <1>9, <2>1, InnerOps DEF NextCall, Fits, SlotShape
  <2>3. (Settled(tk) => Settled(tk)') /\ (Quiescent(tk) => Quiescent(tk)')
    BY <1>5 DEF Settled, Quiescent
  <2> QED
    BY <1>1, <1>2, <1>3, <1>5, <1>7, <1>9, <2>2, <2>3, KeepsTo
<1>10. CASE Return /\ UNCHANGED slot
  BY <1>1, <1>2, <1>5, <1>10, GivesUp
<1> QED
  BY <1>8, <1>9, <1>10 DEF Inspect, Reinspect

LEMMA RecreateReturnsInv ==
    ASSUME IInv, ManagerAssumption, NEW s \in Slots, RecreateReturns(s)
    PROVE  IInv'
<1>1. At("reawait", s) /\ "reawait" \in InnerOp
  BY InnerOps DEF RecreateReturns
<1>2. /\ SlotShape(s) /\ SlotKnows(s) /\ T(s) \in Tickets
      /\ slot[s].state # "empty" /\ slot \in [Slots -> Slot]
  BY <1>1, Here
<1>3. PICK tk \in Tickets : tk = T(s)
  BY <1>2
<1>4. slot[s].creationUncertain /\ slot[s].state = "cleanup_failed" /\ ~slot[s].paneCreated
  BY <1>1, <1>2, <1>3 DEF SlotShape
<1>5. SlotStep(s) /\ mode' = mode
  BY DEF SlotStep, RecreateReturns
<1>6. CASE Answer("ok") /\ Found(s)
  <2>1. /\ Settled(tk)' /\ PaneOK(tk)' /\ ReplyShape'
        /\ \A t \in Tickets : call'[t] = call[t] /\ rec'[t] = rec[t] /\ live'[t] = live[t]
    BY <1>1, <1>3, <1>6, AnswerSays
  <2> QED
    BY <1>1, <1>2, <1>3, <1>4, <1>5, <1>6, <2>1, FoundInv
<1>7. CASE /\ Answer("safe") /\ Goto("putback", s)
           /\ slot' = [slot EXCEPT ![s].creationUncertain = FALSE]
  <2>1. PICK sl : sl = [slot[s] EXCEPT !.creationUncertain = FALSE]
    OBVIOUS
  <2>2. sl \in Slot /\ slot' = [slot EXCEPT ![s] = sl]
    BY <1>2, <1>7, <2>1 DEF Slot
  <2>3. sl.state = "cleanup_failed" /\ ~sl.paneCreated /\ ~sl.creationUncertain /\ sl.ticket = T(s)
    BY <1>2, <1>4, <2>1 DEF Slot, T
  <2>4. PICK op2 : op2 = "putback"
    OBVIOUS
  <2>5. NextCall(op2, s) /\ Fits(sl, op2, mode)
    BY <1>7, <2>3, <2>4, InnerOps DEF NextCall, Fits
  <2>6. /\ Settled(tk)' /\ Quiescent(tk)' /\ PaneOK(tk)' /\ ReplyShape'
        /\ \A t \in Tickets : call'[t] = call[t] /\ rec'[t] = rec[t] /\ live'[t] = live[t]
    BY <1>1, <1>3, <1>7, AnswerSays
  <2>7. Knows(sl, op2, tk)'
    BY <2>3, <2>4, <2>6 DEF Knows, Settled, Quiescent
  <2> QED
    BY <1>1, <1>2, <1>3, <1>5, <2>2, <2>3, <2>5, <2>6, <2>7, TurnsTo
<1>8. CASE Answer("unsafe") /\ Goto("reinspect", s) /\ UNCHANGED slot
  <2>1. PICK sl \in Slot : sl = slot[s]
    BY <1>2
  <2>2. slot' = [slot EXCEPT ![s] = sl] /\ sl.ticket = T(s) /\ sl.state # "empty"
    BY <1>2, <1>8, <2>1 DEF T
  <2>3. PICK op2 : op2 = "reinspect"
    OBVIOUS
  <2>4. NextCall(op2, s) /\ Fits(sl, op2, mode)
    BY <1>4, <1>8, <2>1, <2>3, InnerOps DEF NextCall, Fits
  <2>5. /\ PaneOK(tk)' /\ ReplyShape'
        /\ \A t \in Tickets : call'[t] = call[t] /\ rec'[t] = rec[t] /\ live'[t] = live[t]
    BY <1>1, <1>3, <1>8, AnswerSays
  <2>6. Knows(sl, op2, tk)'
    BY <1>4, <2>1, <2>3, <2>5 DEF Knows
  <2> QED
    BY <1>1, <1>2, <1>3, <1>5, <2>2, <2>4, <2>5, <2>6, TurnsTo
<1> QED
  BY <1>6, <1>7, <1>8 DEF RecreateReturns

\* A claim: the ticket is at rest when no other slot holds it.
LEMMA ClaimInv ==
    ASSUME IInv, ManagerAssumption, NEW s \in Slots, Claim(s)
    PROVE  IInv'
<1>1. /\ At("fill", s) /\ slot[s].state = "empty" /\ Ready # {} /\ mode' = mode
      /\ UNCHANGED <<call, rec, live, waiting, reply, strays>>
  BY DEF Claim, paneVars
<1>2. PICK tk \in Tickets : tk = Oldest
  BY <1>1, OldestReady DEF Ready
<1>3. /\ PassShape /\ TypeOK /\ slot \in [Slots -> Slot] /\ todo # <<>>
      /\ \A o \in InnerOp, r \in Slots : ~At(o, r)
  <2>1. PassShape /\ TypeOK /\ slot \in [Slots -> Slot]
    BY DEF IInv, TypeOK
  <2>2. todo # <<>>
    BY <1>1 DEF At
  <2>3. "fill" \notin InnerOp
    BY InnerOps
  <2>4. \A o \in InnerOp, r \in Slots : ~At(o, r)
    BY <1>1, <2>3, NoCall
  <2> QED
    BY <2>1, <2>2, <2>4
<1>4. waiting = 0 /\ reply \notin {"ok", "safe"}
  BY <1>3, NotAwaiting, InnerOps DEF IInv
<1>5. PassShape' => TypeOK'
  BY SlotTyped, IsTicketsHeld DEF IInv, SlotStep
<1>6. CASE Return /\ UNCHANGED slot
  <2>1. PassShape' /\ \A o \in InnerOp, r \in Slots : ~At(o, r)'
    BY <1>1, <1>3, <1>6, Returned
  <2> QED
    BY <1>1, <1>3, <1>5, <1>6, <2>1, Passes
<1>7. CASE /\ ~ticketAssignedElsewhere(s, Oldest) /\ Goto("prepare", s)
           /\ slot' = [slot EXCEPT ![s] = [EmptySlot EXCEPT !.state = "starting", !.ticket = Oldest]]
  <2>1. PICK sl : sl = [EmptySlot EXCEPT !.state = "starting", !.ticket = tk]
    OBVIOUS
  <2>2. /\ sl.state = "starting" /\ sl.ticket = tk /\ ~sl.paneCreated
        /\ ~sl.creationUncertain /\ ~sl.done
    BY <2>1 DEF EmptySlot
  <2>3. slot'[s] = sl /\ \A r \in Slots \ {s} : slot'[r] = slot[r]
    BY <1>2, <1>3, <1>7, <2>1
  <2>4. NextCall("prepare", s)
    BY <1>7, InnerOps DEF NextCall
  <2>5. PassShape' /\ \A o \in InnerOp, r \in Slots : At(o, r)' <=> o = "prepare" /\ r = s
    BY <1>1, <1>3, <2>4, Calls
  <2>6. TypeOK'
    BY <1>5, <2>5
  <2>7. HeadInUse'
    BY <2>2, <2>3, <2>5 DEF HeadInUse
  <2>8. ReplyShape'
    BY <1>1, <1>4, NoReply
  <2>9. \A t \in Tickets : PaneOK(t)'
    BY <1>1 DEF IInv, PaneOK
  <2>10. ~Held(tk)
    BY <1>1, <1>2, <1>7 DEF Held, ticketAssignedElsewhere
  <2>11. Quiescent(tk)
    BY <2>10 DEF IInv, ReleasedIsQuiescent, Quiescent
  <2>12. \A o \in {"await", "requeue", "verify", "exists", "complete", "close", "absent",
                   "cleanup", "putback", "recreate", "reawait", "reinspect"}, r \in Slots : ~At(o, r)'
    BY <2>5, InnerOps
  <2>13. SlotOK(s)'
    <3>1. SlotShape(s)'
      BY <2>2, <2>3, <2>12 DEF SlotShape
    <3>2. T(s)' = tk /\ Quiescent(tk)' /\ Settled(tk)'
      BY <1>1, <2>2, <2>3, <2>11 DEF T, Settled, Quiescent
    <3>3. SlotKnows(s)'
      BY <2>2, <2>3, <2>12, <3>2 DEF SlotKnows, Settled, Quiescent
    <3> QED
      BY <3>1, <3>3 DEF SlotOK
  <2>14. ASSUME NEW r \in Slots \ {s} PROVE SlotOK(r)'
    <3>1. SUFFICES ASSUME slot[r].state # "empty" PROVE SlotShape(r)' /\ SlotKnows(r)'
      BY <2>3 DEF SlotOK
    <3>2. SlotShape(r) /\ SlotKnows(r)
      BY <3>1 DEF IInv, SlotOK
    <3>3. ~At("prepare", r)' /\ ~At("await", r)
      BY <1>3, <2>5, InnerOps
    <3>4. SlotShape(r)'
      BY <2>3, <2>12, <3>2, <3>3 DEF SlotShape
    <3>5. SlotKnows(r)'
      BY <1>1, <2>3, <2>12, <3>2, <3>3 DEF SlotKnows, T, Settled, Quiescent
    <3> QED
      BY <3>4, <3>5
  <2>15. ReleasedIsQuiescent'
    <3>1. SUFFICES ASSUME NEW t \in Tickets, ~Held(t)' PROVE Quiescent(t)'
      BY DEF ReleasedIsQuiescent, Quiescent
    <3>2. ~Held(t)
      BY <3>1, <1>1, <2>3 DEF Held
    <3> QED
      BY <3>2, <1>1 DEF IInv, ReleasedIsQuiescent, Settled, Quiescent
  <2>16. OneSlotPerTicket'
    BY <2>2, <2>3, <2>10 DEF IInv, OneSlotPerTicket, Held
  <2> QED
    BY <2>5, <2>6, <2>7, <2>8, <2>9, <2>13, <2>14, <2>15, <2>16 DEF IInv
<1> QED
  BY <1>6, <1>7 DEF Claim

LEMMA HandleEventInv ==
    ASSUME IInv, ManagerAssumption, NEW t \in Tickets, handleEvent(t)
    PROVE  IInv'
<1>1. /\ todo = <<>> /\ mode = "run" /\ UNCHANGED <<slot, mode, call, rec, live, waiting, reply, strays>>
      /\ TypeOK /\ PassShape /\ slot \in [Slots -> Slot]
  BY DEF handleEvent, Idle, paneVars, IInv, TypeOK
<1>2. \A o \in InnerOp, r \in Slots : ~At(o, r)
  BY <1>1, NoCall
<1>3. events' \in [Tickets -> 0..MaxEvents]
  BY <1>1 DEF handleEvent, TypeOK, ManagerAssumption
<1>4. PassShape' => TypeOK'
  <2>1. PassShape' => todo' \in Seq([op: Op, s: 0..MaxWorkers])
    BY TodoTyped DEF PassShape, PassItem, InnerItem
  <2> QED
    BY <1>1, <1>3, <2>1 DEF handleEvent, TypeOK, PaneTypeOK, paneVars
<1>5. CASE UNCHANGED todo
  <2>1. PassShape'
    BY <1>1, <1>5 DEF PassShape, PassItem, InnerItem
  <2> QED
    BY <1>1, <1>4, <1>5, <2>1, Stays
<1>6. ASSUME NEW s \in Slots, slot[s].state = "working", todo' = <<[op |-> "verify", s |-> s]>>
      PROVE  IInv'
  <2>1. PICK op2 : op2 = "verify"
    OBVIOUS
  <2>2. [op |-> op2, s |-> s] \in PassItem(mode) \cup InnerItem
    BY <2>1, InnerOps, InnerGoto
  <2>3. PassShape' /\ \A o \in InnerOp, r \in Slots : At(o, r)' <=> o = op2 /\ r = s
    <3> DEFINE h == [op |-> op2, s |-> s]  hd == <<h>>  J == PassItem(mode) \cup InnerItem
    <3>1. hd \in Seq(J) /\ Tail(hd) = <<>> /\ hd # <<>> /\ hd[1] = h
      BY <2>2
    <3>2. todo' = hd /\ PassItem(mode)' = PassItem(mode) /\ InnerItem' = InnerItem
      BY <1>1, <1>6, <2>1 DEF PassItem, InnerItem
    <3>3. \A o, r : [op |-> o, s |-> r] = h <=> o = op2 /\ r = s
      OBVIOUS
    <3>4. PassShape'
      BY <1>1, <3>1, <3>2, EmptySeq DEF PassShape
    <3> QED
      BY <3>1, <3>2, <3>3, <3>4 DEF At
  <2>4. TypeOK'
    BY <1>4, <2>3
  <2>5. SlotShape(s) /\ SlotKnows(s)
    BY <1>6 DEF IInv, SlotOK
  <2>6. PICK tk \in Tickets : tk = T(s)
    BY <2>5 DEF SlotShape, T
  <2>7. PICK sl \in Slot : sl = slot[s]
    BY <1>1
  <2>8. slot' = [slot EXCEPT ![s] = sl] /\ sl.ticket = T(s) /\ sl.state # "empty"
    BY <1>1, <1>6, <2>7 DEF T
  <2>9. Fits(sl, op2, mode)
    BY <1>6, <2>1, <2>5, <2>7 DEF Fits, SlotShape
  <2>10. ~At("await", s)
    BY <1>2, InnerOps
  <2>11. PaneOK(tk)' /\ Settled(tk)' /\ sl.paneCreated /\ ~sl.creationUncertain
    BY <1>1, <1>6, <2>5, <2>6, <2>7, <2>10 DEF IInv, SlotShape, SlotKnows, PaneOK, Settled
  <2>12. Knows(sl, op2, tk)'
    BY <2>1, <2>11 DEF Knows, Settled
  <2>13. waiting = 0 /\ reply \notin {"ok", "safe"}
    BY <1>2, NotAwaiting, InnerOps DEF IInv
  <2>14. ReplyShape'
    BY <1>1, <2>13, NoReply
  <2>15. \A u \in Tickets \ {tk} : call'[u] = call[u] /\ rec'[u] = rec[u] /\ live'[u] = live[u]
    BY <1>1
  <2>16. /\ \A o \in InnerOp, r \in Slots : At(o, r) => r = s
         /\ slot[s].state # "empty" /\ mode' = mode
    BY <1>1, <1>2, <1>6
  <2> QED
    BY <1>1, <2>3, <2>4, <2>6, <2>8, <2>9, <2>11, <2>12, <2>14, <2>15, <2>16, Turns
<1> QED
  BY <1>5, <1>6 DEF handleEvent

-----------------------------------------------------------------------------
(* The theorems                                                            *)

LEMMA InitInv ==
    ASSUME Init, ManagerAssumption
    PROVE  IInv
<1>1. TypeOK
  <2>1. EmptySlot \in Slot
    BY DEF EmptySlot, Slot, SlotState
  <2>2. todo = <<>> /\ todo \in Seq([op: Op, s: 0..MaxWorkers])
    BY EmptySeq DEF Init
  <2>3. PaneTypeOK
    BY DEF Init, PaneInit, PaneTypeOK, CallState, RecState
  <2>4. 0 \in 0..MaxEvents /\ 0 \in 0..MaxOps
    BY DEF ManagerAssumption
  <2> QED
    BY <2>1, <2>2, <2>3, <2>4 DEF Init, TypeOK, Status
<1>2. PassShape /\ \A op, s : ~At(op, s)
  BY EmptySeq DEF Init, PassShape, At
<1>3. HeadInUse /\ ReplyShape
  BY <1>2 DEF Init, PaneInit, HeadInUse, ReplyShape
<1>4. \A t \in Tickets : PaneOK(t) /\ Quiescent(t)
  BY DEF Init, PaneInit, PaneOK, Settled, Quiescent
<1>5. \A s \in Slots : slot[s].state = "empty"
  BY DEF Init, EmptySlot
<1> QED
  BY <1>1, <1>2, <1>3, <1>4, <1>5 DEF IInv, SlotOK, ReleasedIsQuiescent, Quiescent, OneSlotPerTicket

LEMMA SlotStepInv ==
    ASSUME IInv, ManagerAssumption, NEW s \in Slots, SlotStep(s)
    PROVE  IInv'
BY SkipInv, ClaimInv, PrepareFailsInv, SendCreateInv, CreateReturnsInv, RequeueWithoutPaneInv,
   WorkerExistsInv, CompletionSnapshotInv, RecoverSnapshotInv, RetryCompleteInv, CloseInv,
   OrAbsentInv, PutBackInv, InspectInv, RecreateReturnsInv DEF SlotStep

LEMMA NextInv ==
    ASSUME IInv, ManagerAssumption, [Next]_vars
    PROVE  IInv'
<1>1. CASE UNCHANGED vars
  <2>1. TypeOK'
    BY <1>1 DEF IInv, TypeOK, PaneTypeOK, vars, paneVars
  <2> QED
    BY <1>1, <2>1, Stays DEF vars, paneVars
<1>2. CASE Start \/ Tick \/ disconnectStream \/ Interrupt \/ connectStream \/ shutdown \/ Exit
  BY <1>2, LoopInv
<1>3. CASE \E s \in Slots : SlotStep(s)
  BY <1>3, SlotStepInv
<1>4. CASE UserNext \/ \E t \in Tickets : \/ Add(t) \/ WorkerPrints(t)
                                          \/ \E a \in UserActions : Transition(t, a)
  BY <1>4, UserInv
<1>5. CASE \E t \in Tickets : handleEvent(t)
  BY <1>5, HandleEventInv
<1>6. CASE \E t \in Tickets : Daemon(t) \/ Others(t)
  BY <1>6, DaemonInv
<1> QED
  BY <1>1, <1>2, <1>3, <1>4, <1>5, <1>6 DEF Next, ManagerStep

\* The invariant holds in every state the manager, the daemon, the workers and the
\* users can reach.
THEOREM Inductive == Spec => []IInv
<1>1. Init => IInv
  BY InitInv, ManagerAssumption
<1>2. IInv /\ [Next]_vars => IInv'
  BY NextInv, ManagerAssumption
<1> QED
  BY <1>1, <1>2, PTL DEF Spec

\* Every variable keeps its type: in particular no slot is left in a state that no
\* branch of the loop knows.
THEOREM TypeCorrect == Spec => []TypeOK
<1>1. IInv => TypeOK
  BY DEF IInv
<1> QED
  BY <1>1, Inductive, PTL

\* However creates, closes and inspections fail, time out or are answered late, a
\* registered worker that runs is held by exactly one slot.
THEOREM OneSlotEach == Spec => []EachWorkerHasOneSlot
<1>1. IInv => EachWorkerHasOneSlot
  <2>1. SUFFICES ASSUME IInv, NEW t \in Tickets \ strays, rec[t] # "none", live[t]
                 PROVE  \E s \in Slots : slot[s].state # "empty" /\ slot[s].ticket = t
    BY DEF EachWorkerHasOneSlot, WorkersAreHeld, IInv
  <2>2. ~Quiescent(t)
    BY <2>1 DEF Quiescent
  <2>3. Held(t)
    BY <2>1, <2>2 DEF IInv, ReleasedIsQuiescent
  <2> QED
    BY <2>3 DEF Held
<1> QED
  BY <1>1, Inductive, PTL

-----------------------------------------------------------------------------
(* Tickets, users and the manager                                          *)

\* The manager puts the ticket of slot s back, or reports it done.
PutsBack(s) ==
    /\ slot[s].state # "empty" /\ Quiescent(T(s)) /\ Requeue(T(s)) /\ Release(s)
Reports(s) ==
    /\ slot[s].state = "completing" /\ status[T(s)] \in {"in_progress", "done"}
    /\ status' = [status EXCEPT ![T(s)] = "done"]
    /\ owner' = [owner EXCEPT ![T(s)] = "none"]
    /\ slot' = [slot EXCEPT ![s].state = "closing", ![s].done = TRUE]

\* Who may change the status of a ticket.
LEMMA StatusChanges ==
    ASSUME IInv, [Next]_vars
    PROVE  \/ UNCHANGED ticketVars
           \/ \E t \in Tickets : Add(t)
           \/ \E t \in Tickets, a \in UserActions : Transition(t, a)
           \/ UserNext
           \/ \E s \in Slots : Claim(s)
           \/ \E s \in Slots : ops' = ops /\ (PutsBack(s) \/ Reports(s))
<1>1. CASE UNCHANGED vars
  BY <1>1 DEF vars, ticketVars
<1>2. CASE Start \/ Tick \/ disconnectStream \/ Interrupt \/ connectStream \/ shutdown \/ Exit
  BY <1>2 DEF Start, Tick, disconnectStream, Interrupt, connectStream, shutdown, Exit, ticketVars
<1>3. ASSUME NEW s \in Slots, SlotStep(s)
      PROVE  UNCHANGED ticketVars \/ Claim(s) \/ (ops' = ops /\ (PutsBack(s) \/ Reports(s)))
  <2>1. CASE Skip(s) \/ NothingToClaim(s) \/ PrepareFails(s) \/ SendCreate(s) \/ CreateReturns(s)
    BY <2>1 DEF Skip, NothingToClaim, PrepareFails, SendCreate, CreateReturns, ticketVars
  <2>2. CASE requeueWithoutPane(s)
    <3>1. At("requeue", s) /\ "requeue" \in InnerOp /\ ops' = ops
      BY <2>2, InnerOps DEF requeueWithoutPane
    <3>2. slot[s].state # "empty" /\ SlotShape(s) /\ SlotKnows(s) /\ ~At("await", s)
      BY <3>1, Here
    <3>3. Quiescent(T(s))
      BY <3>1, <3>2 DEF SlotShape, SlotKnows
    <3> QED
      BY <2>2, <3>1, <3>2, <3>3 DEF requeueWithoutPane, PutsBack
  <2>3. CASE workerExists(s) \/ CompletionSnapshot(s) \/ recoverSnapshot(s)
    BY <2>3 DEF workerExists, CompletionSnapshot, recoverSnapshot, ticketVars
  <2>4. CASE retryComplete(s)
    <3>1. PICK op \in {"complete", "retry"} :
              At(op, s) /\ (op \in InnerOp \/ slot[s].state = "completing")
      BY <2>4, InnerOps DEF retryComplete
    <3>2. SlotShape(s)
      BY <3>1, Here
    <3>3. slot[s].state = "completing"
      BY <3>1, <3>2, InnerOps DEF SlotShape
    <3> QED
      BY <2>4, <3>3 DEF retryComplete, Reports
  <2>5. CASE close(s) \/ orAbsent(s) \/ Inspect(s) \/ RecreateReturns(s) \/ Reinspect(s)
    BY <2>5 DEF close, orAbsent, Inspect, RecreateReturns, Reinspect, ticketVars
  <2>6. CASE PutBack(s)
    <3>1. PICK op \in {"putback", "cleanup", "retry", "stop"} :
            /\ At(op, s)
            /\ \/ op = "putback"
               \/ slot[s].state # "empty" /\ ~slot[s].creationUncertain /\ ~slot[s].paneCreated
      BY <2>6, CleaningHere DEF PutBack
    <3>2. SlotKnows(s) /\ slot[s].state # "empty" /\ ~At("await", s)
      BY <3>1, InnerOps, Here
    <3>3. Quiescent(T(s))
      BY <3>1, <3>2 DEF SlotKnows
    <3> QED
      BY <2>6, <3>2, <3>3 DEF PutBack, PutsBack
  <2> QED
    BY <1>3, <2>1, <2>2, <2>3, <2>4, <2>5, <2>6 DEF SlotStep
<1>4. CASE \E t \in Tickets : handleEvent(t) \/ WorkerPrints(t) \/ Daemon(t) \/ Others(t)
  BY <1>4 DEF handleEvent, WorkerPrints, Daemon, Others, ticketVars
<1> QED
  BY <1>1, <1>2, <1>3, <1>4 DEF Next, ManagerStep

\* The manager's tickets are in progress: whoever moves one on takes it away.
LEMMA OwnedStep ==
    ASSUME IInv, OwnedIsInProgress, ManagerAssumption, [Next]_vars
    PROVE  OwnedIsInProgress'
<1>0. status \in [Tickets -> Status] /\ owner \in [Tickets -> {"none", "manager", "user", "elsewhere"}]
  BY DEF IInv, TypeOK
<1>1. CASE UNCHANGED ticketVars
  BY <1>1 DEF ticketVars, OwnedIsInProgress
<1>2. CASE \E t \in Tickets : Add(t)
  BY <1>0, <1>2 DEF Add, OwnedIsInProgress
<1>3. CASE \E t \in Tickets, a \in UserActions : Transition(t, a)
  BY <1>0, <1>3 DEF Transition, OwnedIsInProgress
<1>4. CASE UserNext
  BY <1>0, <1>4 DEF UserNext, OwnedIsInProgress
<1>5. CASE \E s \in Slots : Claim(s)
  BY <1>0, <1>5 DEF Claim, OwnedIsInProgress
<1>6. CASE \E s \in Slots : PutsBack(s) \/ Reports(s)
  BY <1>0, <1>6 DEF PutsBack, Requeue, Reports, OwnedIsInProgress
<1> QED
  BY <1>1, <1>2, <1>3, <1>4, <1>5, <1>6, StatusChanges

(* The inductive invariant together with its second layer: a ticket that the    *)
(* manager or a user took is in progress (TransitionTicket and ClaimNext write  *)
(* status and owner in one transaction, ticketworker/store.go).                 *)
THEOREM OwnedInvariant == Spec => [](IInv /\ OwnedIsInProgress)
<1>1. Init => OwnedIsInProgress
  BY DEF Init, OwnedIsInProgress
<1>2. IInv /\ OwnedIsInProgress /\ [Next]_vars => OwnedIsInProgress'
  BY OwnedStep, ManagerAssumption
<1> QED
  BY <1>1, <1>2, Inductive, PTL DEF Spec

\* The manager never gives a ticket back to the queue while a registered worker of it
\* runs, unless that is a stray, whatever users do to the ticket meanwhile and whoever
\* removes its record.
THEOREM PutBackIsSafe == Spec => RequeueAfterClose
<1>1. ASSUME IInv, OwnedIsInProgress, [Next]_vars, NEW t \in Tickets \ strays,
             owner[t] = "manager", status'[t] = "ready"
      PROVE  ~(rec[t] # "none" /\ live[t])
  <2>0. status \in [Tickets -> Status] /\ status[t] = "in_progress"
    BY <1>1 DEF IInv, TypeOK, OwnedIsInProgress
  <2>1. PICK s \in Slots : PutsBack(s) \/ Reports(s)
    <3>1. ~UNCHANGED ticketVars
      BY <1>1, <2>0 DEF ticketVars
    <3>2. ASSUME NEW u \in Tickets PROVE ~Add(u)
      BY <1>1, <2>0 DEF Add
    <3>3. ASSUME NEW u \in Tickets, NEW a \in UserActions PROVE ~Transition(u, a)
      <4>1. SUFFICES ASSUME Transition(u, a) PROVE FALSE
        OBVIOUS
      <4>2. a \in {"done", "cancel", "reopen"}
        BY <4>1, ManagerAssumption DEF Transition, ManagerAssumption
      <4> QED
        BY <1>1, <2>0, <4>1, <4>2 DEF Transition, allowedTransitions
    <3>4. ~UserNext
      BY <1>1, <2>0 DEF UserNext
    <3>5. ASSUME NEW s \in Slots PROVE ~Claim(s)
      BY <1>1, <2>0 DEF Claim
    <3> QED
      BY <1>1, <3>1, <3>2, <3>3, <3>4, <3>5, StatusChanges
  <2>2. ~Reports(s)
    BY <1>1, <2>0 DEF Reports
  <2>3. T(s) = t /\ Quiescent(t)
    BY <1>1, <2>0, <2>1, <2>2 DEF PutsBack, Requeue
  <2> QED
    BY <1>1, <2>3 DEF Quiescent
<1>2. IInv /\ OwnedIsInProgress /\ [Next]_vars
        => [\A t \in Tickets \ strays : owner[t] = "manager" /\ status'[t] = "ready"
               => ~(rec[t] # "none" /\ live[t])]_vars
  BY <1>1
<1> QED
  BY <1>2, OwnedInvariant, PTL DEF Spec, RequeueAfterClose

\* What may happen to slot s in a step: nothing, a claim, its release or progress with
\* the same ticket.
Claimed(s) ==
    /\ Claim(s) /\ slot'[s].state # "empty" /\ slot'[s].ticket = Oldest
    /\ ~slot'[s].done /\ slot'[s].state # "completing"
Freed(s) ==
    /\ slot[s].state # "empty" /\ slot'[s] = EmptySlot
    /\ slot[s].done \/ status[T(s)] # "in_progress" \/ owner'[T(s)] = "none"
Moved(s) ==
    /\ slot[s].state # "empty" /\ slot'[s].state # "empty" /\ slot'[s].ticket = T(s)
    /\ slot'[s].done = slot[s].done \/ Reports(s)
    /\ slot'[s].state = "completing"
          => slot[s].state = "completing" \/ At("verify", s) \/ At("exists", s) \/ printed[T(s)]

LEMMA SlotChanges ==
    ASSUME IInv, [Next]_vars, NEW r \in Slots
    PROVE  slot'[r] = slot[r] \/ Claimed(r) \/ Freed(r) \/ Moved(r)
<1>0. slot \in [Slots -> Slot]
  BY DEF IInv, TypeOK
<1>1. CASE UNCHANGED slot
  BY <1>1
<1>2. ASSUME NEW s \in Slots, SlotStep(s), ~UNCHANGED slot
      PROVE  slot'[r] = slot[r] \/ Claimed(r) \/ Freed(r) \/ Moved(r)
  <2>0. ASSUME NEW op \in InnerOp, At(op, s) PROVE slot[s].state # "empty" /\ SlotShape(s)
    BY <2>0, Here
  <2>1. ASSUME NEW sl, slot' = [slot EXCEPT ![s] = sl]
        PROVE  slot'[s] = sl /\ (r # s => slot'[r] = slot[r])
    BY <1>0, <2>1
  <2>2. ASSUME slot[s].state # "empty",
               \/ slot' = [slot EXCEPT ![s].state = "cleanup_failed"]
               \/ slot' = [slot EXCEPT ![s].state = "working", ![s].paneCreated = TRUE]
               \/ slot' = [slot EXCEPT ![s].state = "cleanup_failed", ![s].creationUncertain = TRUE]
               \/ slot' = [slot EXCEPT ![s].creationUncertain = FALSE]
               \/ slot' = [slot EXCEPT ![s].creationUncertain = FALSE, ![s].paneCreated = TRUE]
               \/ \E b : slot' = [slot EXCEPT ![s].paneCreated = b]
        PROVE  slot'[r] = slot[r] \/ Moved(r)
    <3>1. slot[s] \in Slot
      BY <1>0
    <3>2. /\ r # s => slot'[r] = slot[r]
          /\ slot'[s].done = slot[s].done /\ slot'[s].ticket = slot[s].ticket
          /\ slot'[s].state \in {slot[s].state, "cleanup_failed", "working"}
      BY <1>0, <2>2, <3>1 DEF Slot
    <3> QED
      BY <2>2, <3>2 DEF Moved, T
  <2>3. ASSUME slot[s].state # "empty", completeSlot(s),
               At("verify", s) \/ At("exists", s) \/ printed[T(s)]
        PROVE  slot'[r] = slot[r] \/ Moved(r)
    <3>1. /\ r # s => slot'[r] = slot[r]
          /\ slot'[s].done = slot[s].done /\ slot'[s].ticket = slot[s].ticket
          /\ slot'[s].state = "completing"
      BY <1>0, <2>3 DEF completeSlot, Slot
    <3> QED
      BY <2>3, <3>1 DEF Moved, T
  <2>4. ASSUME slot[s].state # "empty", Release(s),
               slot[s].done \/ status[T(s)] # "in_progress" \/ owner'[T(s)] = "none"
        PROVE  slot'[r] = slot[r] \/ Freed(r)
    BY <2>1, <2>4 DEF Release, Freed
  <2>5. ASSUME slot[s].state # "empty", Closed(s)
        PROVE  slot'[r] = slot[r] \/ Freed(r) \/ Moved(r)
    <3>1. CASE slot[s].done
      BY <2>4, <2>5, <3>1 DEF Closed
    <3>2. CASE ~slot[s].done
      BY <2>2, <2>5, <3>2 DEF Closed
    <3> QED
      BY <3>1, <3>2
  <2>6. ASSUME Requeue(T(s)), T(s) \in Tickets PROVE owner'[T(s)] = "none"
    BY <2>6 DEF Requeue, IInv, TypeOK
  <2>7. CASE Claim(s)
    <3>1. slot' = [slot EXCEPT ![s] = [EmptySlot EXCEPT !.state = "starting", !.ticket = Oldest]]
      BY <1>2, <2>7 DEF Claim
    <3>2. /\ slot'[s].state = "starting" /\ slot'[s].ticket = Oldest /\ ~slot'[s].done
          /\ r # s => slot'[r] = slot[r]
      BY <1>0, <3>1 DEF EmptySlot
    <3> QED
      BY <2>7, <3>2 DEF Claimed
  <2>8. CASE CreateReturns(s)
    BY <1>2, <2>0, <2>2, <2>8, InnerOps DEF CreateReturns
  <2>9. CASE requeueWithoutPane(s)
    <3>1. slot[s].state # "empty" /\ T(s) \in Tickets
      BY <2>0, <2>9, InnerOps DEF requeueWithoutPane, SlotShape, T
    <3> QED
      BY <2>2, <2>4, <2>6, <2>9, <3>1 DEF requeueWithoutPane
  <2>10. CASE workerExists(s)
    BY <1>2, <2>0, <2>3, <2>10, InnerOps DEF workerExists
  <2>11. CASE CompletionSnapshot(s)
    <3>1. slot[s].state # "empty" /\ At("verify", s)
      BY <2>0, <2>11, InnerOps DEF CompletionSnapshot
    <3>2. completeSlot(s)
      BY <1>2, <2>11 DEF CompletionSnapshot
    <3> QED
      BY <2>3, <3>1, <3>2
  <2>12. CASE recoverSnapshot(s)
    <3>1. slot[s].state # "empty"
      BY <2>12 DEF recoverSnapshot
    <3>2. PICK o \in SnapshotOutput(T(s)) :
            CASE o.seen = "notfound" -> /\ slot' = [slot EXCEPT ![s].state = "cleanup_failed"]
                                        /\ Goto("cleanup", s)
              [] o.seen = "marker"   -> completeSlot(s)
              [] OTHER               -> Return /\ UNCHANGED slot
      BY <2>12, Zenon DEF recoverSnapshot
    <3>3. \/ slot' = [slot EXCEPT ![s].state = "cleanup_failed"]
          \/ o.seen = "marker" /\ completeSlot(s)
      BY <1>2, <3>2
    <3>4. o.seen = "marker" => printed[T(s)]
      BY <3>2, SnapshotOutcome
    <3> QED
      BY <2>2, <2>3, <3>1, <3>3, <3>4
  <2>13. CASE retryComplete(s)
    <3>1. Reports(s)
      <4>1. PICK op \in {"complete", "retry"} :
                At(op, s) /\ (op \in InnerOp \/ slot[s].state = "completing")
        BY <2>13, InnerOps DEF retryComplete
      <4>2. SlotShape(s)
        BY <4>1, Here
      <4>3. slot[s].state = "completing"
        BY <4>1, <4>2, InnerOps DEF SlotShape
      <4> QED
        BY <1>2, <2>13, <4>3 DEF retryComplete, Reports
    <3>2. /\ slot'[s].state = "closing" /\ slot'[s].ticket = slot[s].ticket
          /\ r # s => slot'[r] = slot[r]
      BY <1>0, <3>1 DEF Reports, Slot
    <3>3. slot[s].state # "empty"
      BY <3>1 DEF Reports
    <3> QED
      BY <3>1, <3>2, <3>3 DEF Moved, T
  <2>14. CASE close(s)
    <3>1. slot[s].state # "empty"
      BY <2>14, WantsCloseHere DEF close
    <3>2. Closed(s)
      BY <1>2, <2>14 DEF close
    <3> QED
      BY <2>5, <3>1, <3>2
  <2>15. CASE orAbsent(s)
    BY <1>2, <2>0, <2>5, <2>15, InnerOps DEF orAbsent
  <2>16. CASE PutBack(s)
    <3>1. slot[s].state # "empty"
      BY <2>0, <2>16, InnerOps, CleaningHere DEF PutBack
    <3>2. T(s) \in Tickets
      BY <3>1, IsTicketsHeld DEF TicketsHeld
    <3> QED
      BY <1>2, <2>4, <2>6, <2>16, <3>1, <3>2 DEF PutBack
  <2>17. CASE Inspect(s) \/ Reinspect(s)
    <3>1. slot[s].state # "empty"
      BY <2>0, <2>17, InnerOps, CleaningHere DEF Inspect, Reinspect
    <3>2. Found(s)
      BY <1>2, <2>17 DEF Inspect, Reinspect
    <3> QED
      BY <2>2, <3>1, <3>2 DEF Found
  <2>18. CASE RecreateReturns(s)
    <3>1. slot[s].state # "empty"
      BY <2>0, <2>18, InnerOps DEF RecreateReturns
    <3>2. Found(s) \/ slot' = [slot EXCEPT ![s].creationUncertain = FALSE]
      BY <1>2, <2>18 DEF RecreateReturns
    <3> QED
      BY <2>2, <3>1, <3>2 DEF Found
  <2>19. CASE Skip(s) \/ NothingToClaim(s) \/ PrepareFails(s) \/ SendCreate(s)
    BY <1>2, <2>19 DEF Skip, NothingToClaim, PrepareFails, SendCreate
  <2> QED
    BY <1>2, <2>7, <2>8, <2>9, <2>10, <2>11, <2>12, <2>13, <2>14, <2>15, <2>16, <2>17,
       <2>18, <2>19 DEF SlotStep
<1>3. \/ UNCHANGED slot
      \/ \E s \in Slots : SlotStep(s)
  <2>1. CASE UNCHANGED vars
    BY <2>1 DEF vars
  <2>2. CASE Start \/ Tick \/ disconnectStream \/ Interrupt \/ connectStream \/ shutdown \/ Exit
    BY <2>2 DEF Start, Tick, disconnectStream, Interrupt, connectStream, shutdown, Exit
  <2>3. CASE UserNext
    BY <2>3 DEF UserNext
  <2>4. CASE \E t \in Tickets : \/ Add(t) \/ handleEvent(t) \/ WorkerPrints(t)
                                \/ Daemon(t) \/ Others(t)
    BY <2>4 DEF Add, handleEvent, WorkerPrints, Daemon, Others
  <2>5. CASE \E t \in Tickets, a \in UserActions : Transition(t, a)
    BY <2>5 DEF Transition
  <2> QED
    BY <2>1, <2>2, <2>3, <2>4, <2>5 DEF Next, ManagerStep
<1> QED
  BY <1>1, <1>2, <1>3

\* A ticket becomes the manager's by a claim, which puts it in a slot; the slot lets it
\* go when it is done, given up by a user or back in the queue.
LEMMA OwnerStep ==
    ASSUME IInv, OwnedIsInProgress, InProgressIsOwned, [Next]_vars
    PROVE  InProgressIsOwned'
<1> DEFINE Has(s, t) == slot[s].state # "empty" /\ slot[s].ticket = t /\ ~slot[s].done
<1> SUFFICES ASSUME NEW t \in Tickets, owner'[t] = "manager" PROVE \E s \in Slots : Has(s, t)'
  BY DEF InProgressIsOwned
<1>0. owner \in [Tickets -> {"none", "manager", "user", "elsewhere"}] /\ slot \in [Slots -> Slot]
  BY DEF IInv, TypeOK
<1>1. CASE owner[t] = "manager"
  <2>1. PICK s \in Slots : Has(s, t)
    BY <1>1 DEF InProgressIsOwned
  <2>2. CASE slot'[s] = slot[s]
    BY <2>1, <2>2
  <2>3. CASE Claimed(s)
    BY <2>1, <2>3 DEF Claimed, Claim
  <2>4. CASE Freed(s)
    <3>1. T(s) = t /\ owner'[t] # "none" /\ ~slot[s].done
      BY <2>1 DEF T
    <3>2. status[t] = "in_progress"
      BY <1>1 DEF OwnedIsInProgress
    <3> QED
      BY <2>4, <3>1, <3>2 DEF Freed
  <2>5. CASE Moved(s)
    <3>1. T(s) = t
      BY <2>1 DEF T
    <3>2. ~Reports(s)
      BY <1>0, <3>1 DEF Reports
    <3> QED
      BY <2>1, <2>5, <3>1, <3>2 DEF Moved
  <2> QED
    BY <2>2, <2>3, <2>4, <2>5, SlotChanges
<1>2. CASE owner[t] # "manager"
  <2>1. PICK s \in Slots : Claim(s)
    <3>1. ~UNCHANGED ticketVars
      BY <1>2 DEF ticketVars
    <3>2. ~\E u \in Tickets : Add(u)
      BY <1>2 DEF Add
    <3>3. ~\E u \in Tickets, a \in UserActions : Transition(u, a)
      BY <1>0, <1>2 DEF Transition
    <3>4. ~UserNext
      BY <1>0, <1>2 DEF UserNext
    <3>5. ~\E s \in Slots : PutsBack(s) \/ Reports(s)
      BY <1>0, <1>2 DEF PutsBack, Requeue, Reports
    <3> QED
      BY <3>1, <3>2, <3>3, <3>4, <3>5, StatusChanges
  <2>2. t = Oldest
    BY <1>0, <1>2, <2>1 DEF Claim
  <2>3. ~ticketAssignedElsewhere(s, Oldest)
    BY <1>0, <2>1, <2>2 DEF Claim
  <2>4. slot'[s] = [EmptySlot EXCEPT !.state = "starting", !.ticket = Oldest]
    BY <1>0, <2>1, <2>3 DEF Claim
  <2>5. slot'[s].state = "starting" /\ slot'[s].ticket = t /\ ~slot'[s].done
    BY <2>2, <2>4 DEF EmptySlot
  <2> QED
    BY <2>5
<1> QED
  BY <1>1, <1>2

\* A ticket that the manager has claimed for a slot and that is still in progress is in
\* a slot that has not completed it: it is not forgotten when a create, a close or a
\* store operation fails, nor when users decide about it, reopen it or claim it again.
THEOREM ClaimsAreOwned == Spec => []InProgressIsOwned
<1>1. Init => InProgressIsOwned
  BY DEF Init, InProgressIsOwned
<1>2. IInv /\ OwnedIsInProgress /\ InProgressIsOwned /\ [Next]_vars => InProgressIsOwned'
  BY OwnerStep
<1> QED
  BY <1>1, <1>2, OwnedInvariant, PTL DEF Spec

\* The call that a step of a slot leads to; only CompletionSnapshot asks on.
LEMMA StepCalls ==
    ASSUME NEW s \in Slots, SlotStep(s), ~CompletionSnapshot(s)
    PROVE  /\ mode' = mode /\ UNCHANGED <<events, earned>>
           /\ \E op2 \in {"none", "stop"} \cup (InnerOp \ {"verify", "exists"}) : NextCall(op2, s)
<1>0. {"prepare", "await", "requeue", "complete", "close", "absent", "cleanup", "putback",
       "recreate", "reawait", "reinspect"} \subseteq InnerOp \ {"verify", "exists"}
  BY InnerOps
<1> DEFINE C == \E op2 \in {"none", "stop"} \cup (InnerOp \ {"verify", "exists"}) : NextCall(op2, s)
           K == InnerOp \ {"verify", "exists"}
<1>1. Return \/ EndPass => C
  <2>1. Return \/ EndPass => NextCall("none", s)
    BY DEF NextCall
  <2> QED
    BY <2>1, Zenon
<1>2. ASSUME NEW op2 \in K, Goto(op2, s) \/ todo' = <<[op |-> op2, s |-> s]>> PROVE C
  BY <1>2 DEF NextCall
<1>3. Found(s) => C
  <2>1. Found(s) => NextCall("stop", s) \/ NextCall("cleanup", s)
    BY <1>0 DEF Found, NextCall
  <2> QED
    BY <1>0, <2>1
<1>4. completeSlot(s) => C
  BY <1>0, <1>2 DEF completeSlot
<1>5. Closed(s) => C
  BY <1>0, <1>1, <1>2 DEF Closed
<1> HIDE DEF C, K
<1>6. {"prepare", "await", "requeue", "complete", "close", "absent", "cleanup", "putback",
       "recreate", "reawait", "reinspect"} \subseteq K
  BY <1>0 DEF K
<1>7. CASE Skip(s) \/ NothingToClaim(s) \/ requeueWithoutPane(s) \/ PutBack(s)
  <2>1. Return \/ EndPass
    BY <1>7 DEF Skip, NothingToClaim, requeueWithoutPane, PutBack
  <2> QED
    BY <1>1, <1>7, <2>1 DEF Skip, NothingToClaim, requeueWithoutPane, PutBack, C
<1>8. CASE Claim(s)
  <2>1. Return \/ Goto("prepare", s)
    BY <1>8 DEF Claim
  <2>2. mode' = mode /\ UNCHANGED <<events, earned>>
    BY <1>8 DEF Claim
  <2> QED
    BY <1>1, <1>2, <1>6, <2>1, <2>2 DEF C
<1>9. CASE PrepareFails(s)
  <2>1. mode' = mode /\ UNCHANGED <<events, earned>> /\ todo' = <<[op |-> "requeue", s |-> s]>>
    BY <1>9 DEF PrepareFails
  <2> QED
    BY <1>2, <1>6, <2>1 DEF C
<1>10. CASE SendCreate(s)
  <2>1. mode' = mode /\ UNCHANGED <<events, earned>> /\ (Goto("await", s) \/ Goto("reawait", s))
    BY <1>10 DEF SendCreate
  <2> QED
    BY <1>2, <1>6, <2>1 DEF C
<1>11. CASE CreateReturns(s)
  <2>1. /\ mode' = mode /\ UNCHANGED <<events, earned>>
        /\ Return \/ EndPass \/ todo' = <<[op |-> "requeue", s |-> s]>>
    BY <1>11 DEF CreateReturns
  <2> QED
    BY <1>1, <1>2, <1>6, <2>1 DEF C
<1>12. CASE workerExists(s)
  BY <1>1, <1>4, <1>12 DEF workerExists, C
<1>13. CASE recoverSnapshot(s)
  <2>1. mode' = mode /\ UNCHANGED <<events, earned>>
    BY <1>13 DEF recoverSnapshot
  <2>2. Goto("cleanup", s) \/ completeSlot(s) \/ Return
    BY <1>13 DEF recoverSnapshot
  <2> QED
    BY <1>1, <1>2, <1>4, <1>6, <2>1, <2>2 DEF C
<1>14. CASE retryComplete(s)
  <2>1. mode' = mode /\ UNCHANGED <<events, earned>> /\ (Goto("close", s) \/ Return)
    BY <1>14 DEF retryComplete
  <2> QED
    BY <1>1, <1>2, <1>6, <2>1 DEF C
<1>15. CASE close(s)
  <2>1. mode' = mode /\ UNCHANGED <<events, earned>> /\ (Goto("absent", s) \/ Closed(s))
    BY <1>15 DEF close
  <2> QED
    BY <1>2, <1>5, <1>6, <2>1 DEF C
<1>16. CASE orAbsent(s)
  <2>1. mode' = mode /\ UNCHANGED <<events, earned>> /\ (Return \/ Closed(s))
    BY <1>16 DEF orAbsent
  <2> QED
    BY <1>1, <1>5, <2>1 DEF C
<1>17. CASE Inspect(s) \/ Reinspect(s)
  <2>1. /\ mode' = mode /\ UNCHANGED <<events, earned>>
        /\ Return \/ Found(s) \/ Goto("recreate", s)
    BY <1>17 DEF Inspect, Reinspect
  <2> QED
    BY <1>1, <1>2, <1>3, <1>6, <2>1 DEF C
<1>18. CASE RecreateReturns(s)
  <2>1. /\ mode' = mode /\ UNCHANGED <<events, earned>>
        /\ Found(s) \/ Goto("putback", s) \/ Goto("reinspect", s)
    BY <1>18 DEF RecreateReturns
  <2> QED
    BY <1>2, <1>3, <1>6, <2>1 DEF C
<1> QED
  BY <1>7, <1>8, <1>9, <1>10, <1>11, <1>12, <1>13, <1>14, <1>15, <1>16, <1>17, <1>18
     DEF SlotStep

\* The manager verifies a marker that an event has brought.
Verifies(s) == At("verify", s) \/ At("exists", s)

LEMMA VerifyChanges ==
    ASSUME IInv, [Next]_vars, ManagerAssumption, NEW r \in Slots, Verifies(r)'
    PROVE  Verifies(r) \/ (slot[r].state = "working" /\ events[T(r)] > 0)
<1>1. CASE UNCHANGED todo
  BY <1>1 DEF Verifies, At
<1>2. ASSUME NEW s \in Slots, SlotStep(s) PROVE Verifies(r)
  <2>0. todo # <<>> /\ PassShape
    BY <1>2 DEF SlotStep, Skip, NothingToClaim, Claim, PrepareFails, SendCreate, CreateReturns,
       requeueWithoutPane, workerExists, CompletionSnapshot, recoverSnapshot, retryComplete, close,
       orAbsent, PutBack, Inspect, RecreateReturns, Reinspect, WantsClose, Cleaning, At, IInv
  <2>1. CASE ~CompletionSnapshot(s)
    <3>1. mode' = mode
      BY <1>2, <2>1, StepCalls
    <3>2. PICK op2 \in {"none", "stop"} \cup (InnerOp \ {"verify", "exists"}) : NextCall(op2, s)
      BY <1>2, <2>1, StepCalls
    <3>3. \A op \in InnerOp, q \in Slots : At(op, q)' <=> op = op2 /\ q = s
      BY <2>0, <3>1, <3>2, Calls
    <3>4. ~Verifies(r)'
      BY <3>2, <3>3, InnerOps DEF Verifies
    <3> QED
      BY <3>4
  <2>2. CASE CompletionSnapshot(s)
    <3>1. At("verify", s) /\ mode' = mode
      BY <2>2 DEF CompletionSnapshot
    <3>2. NextCall("exists", s) \/ NextCall("complete", s) \/ NextCall("none", s)
      <4>1. Goto("exists", s) \/ completeSlot(s) \/ Return
        BY <2>2 DEF CompletionSnapshot
      <4> QED
        BY <4>1, InnerOps DEF NextCall, completeSlot
    <3>3. PICK op2 : NextCall(op2, s)
      BY <3>2
    <3>4. \A op \in InnerOp, q \in Slots : At(op, q)' <=> op = op2 /\ q = s
      BY <2>0, <3>1, <3>3, Calls
    <3>5. r = s
      BY <3>4, InnerOps DEF Verifies
    <3> QED
      BY <3>1, <3>5 DEF Verifies
  <2> QED
    BY <2>1, <2>2
<1>3. ASSUME NEW t \in Tickets, handleEvent(t)
      PROVE  Verifies(r) \/ (slot[r].state = "working" /\ events[T(r)] > 0)
  <2>1. CASE UNCHANGED todo
    BY <1>1, <2>1
  <2>2. ASSUME NEW s \in Slots, slot[s].state = "working", T(s) = t,
               todo' = <<[op |-> "verify", s |-> s]>>
        PROVE  slot[r].state = "working" /\ events[T(r)] > 0
    <3>1. r = s
      BY <2>2 DEF Verifies, At
    <3> QED
      BY <1>3, <2>2, <3>1 DEF handleEvent
  <2> QED
    BY <1>3, <2>1, <2>2 DEF handleEvent
<1>4. CASE Start \/ Tick \/ connectStream \/ shutdown \/ Exit
  <2>1. \A op \in InnerOp, s \in Slots : ~At(op, s)'
    BY <1>4, LoopPasses DEF IInv
  <2> QED
    BY <2>1, InnerOps DEF Verifies
<1>5. CASE disconnectStream \/ Interrupt \/ UserNext \/ UNCHANGED vars
  BY <1>1, <1>5 DEF disconnectStream, Interrupt, UserNext, vars
<1>6. CASE \E t \in Tickets : \/ Add(t) \/ WorkerPrints(t) \/ Daemon(t) \/ Others(t)
                              \/ \E a \in UserActions : Transition(t, a)
  BY <1>1, <1>6 DEF Add, WorkerPrints, Daemon, Others, Transition
<1> QED
  BY <1>2, <1>3, <1>4, <1>5, <1>6 DEF Next, ManagerStep

\* A marker comes to a screen, and an event to the stream, only when a worker prints.
LEMMA MarksChange ==
    ASSUME IInv, [Next]_vars, NEW t \in Tickets
    PROVE  /\ printed'[t] => printed[t] \/ WorkerPrints(t)
           /\ events'[t] > 0 => events[t] > 0 \/ WorkerPrints(t)
<1>0. /\ events \in [Tickets -> 0..MaxEvents] /\ printed \in [Tickets -> BOOLEAN]
      /\ MaxEvents \in Nat
  BY ManagerAssumption DEF IInv, TypeOK, PaneTypeOK, ManagerAssumption
<1>1. CASE UNCHANGED <<events, printed>>
  BY <1>1
<1>2. CASE disconnectStream \/ shutdown
  BY <1>2 DEF disconnectStream, shutdown, paneVars
<1>3. ASSUME NEW u \in Tickets, handleEvent(u)
      PROVE  /\ printed'[t] => printed[t]
             /\ events'[t] > 0 => events[t] > 0
  <2>1. UNCHANGED printed /\ events[u] > 0 /\ events' = [events EXCEPT ![u] = @ - 1]
    BY <1>3 DEF handleEvent, paneVars
  <2>2. events[u] \in Nat /\ events[t] \in Nat
    BY <1>0
  <2> QED
    BY <1>0, <2>1, <2>2
<1>4. ASSUME NEW u \in Tickets, WorkerPrints(u)
      PROVE  /\ printed'[t] => printed[t] \/ WorkerPrints(t)
             /\ events'[t] > 0 => events[t] > 0 \/ WorkerPrints(t)
  <2>1. CASE u = t
    BY <1>4, <2>1
  <2>2. CASE u # t
    BY <1>0, <1>4, <2>2 DEF WorkerPrints
  <2> QED
    BY <2>1, <2>2
<1>5. ASSUME NEW u \in Tickets, Daemon(u) \/ Others(u)
      PROVE  UNCHANGED events /\ (printed'[t] => printed[t])
  BY <1>0, <1>5 DEF Daemon, Others, Interference, Cleanup, PaneFails, DaemonStep, CreatePane, resolveCreatePaneTarget, BackendFails,
     createBackendPane, createPaneOnce, WorkerExits, handlePaneClosed, reconcileRecord
<1>6. ASSUME NEW s \in Slots, SlotStep(s) PROVE UNCHANGED events /\ (printed'[t] => printed[t])
  <2>1. CASE close(s)
    BY <1>0, <2>1 DEF close
  <2>2. CASE Skip(s) \/ NothingToClaim(s) \/ Claim(s) \/ PrepareFails(s) \/ SendCreate(s)
             \/ CreateReturns(s) \/ requeueWithoutPane(s) \/ workerExists(s)
    BY <2>2 DEF Skip, NothingToClaim, Claim, PrepareFails, SendCreate, CreateReturns, Answer,
       requeueWithoutPane, workerExists, paneVars
  <2>3. CASE CompletionSnapshot(s) \/ recoverSnapshot(s) \/ retryComplete(s) \/ orAbsent(s)
             \/ PutBack(s) \/ Inspect(s) \/ RecreateReturns(s) \/ Reinspect(s)
    BY <2>3 DEF CompletionSnapshot, recoverSnapshot, retryComplete, orAbsent, PutBack, Inspect,
       RecreateReturns, Answer, Reinspect, paneVars
  <2> QED
    BY <1>6, <2>1, <2>2, <2>3 DEF SlotStep
<1>7. CASE Start \/ Tick \/ connectStream \/ Interrupt \/ Exit \/ UserNext \/ UNCHANGED vars
  BY <1>7 DEF Start, Tick, connectStream, Interrupt, Exit, UserNext, vars, paneVars
<1>8. CASE \E u \in Tickets : Add(u) \/ \E a \in UserActions : Transition(u, a)
  BY <1>8 DEF Add, Transition, paneVars
<1> QED
  BY <1>2, <1>3, <1>4, <1>5, <1>6, <1>7, <1>8 DEF Next, ManagerStep

\* Only reopening takes back what a worker has earned, and not while a marker is on its way.
LEMMA EarnedKeeps ==
    ASSUME IInv, [Next]_vars, NEW t \in Tickets, earned[t], OnItsWay(t)
    PROVE  earned'[t]
<1>0. earned \in [Tickets -> BOOLEAN]
  BY DEF IInv, TypeOK
<1>1. CASE UNCHANGED earned
  BY <1>1
<1>2. CASE \E u \in Tickets : WorkerPrints(u)
  BY <1>0, <1>2 DEF WorkerPrints
<1>3. ASSUME NEW u \in Tickets, NEW a \in UserActions, Transition(u, a) PROVE earned'[t]
  BY <1>0, <1>3 DEF Transition
<1>4. ASSUME NEW s \in Slots, SlotStep(s) PROVE UNCHANGED earned
  BY <1>4, StepCalls DEF CompletionSnapshot
<1>5. CASE Start \/ Tick \/ disconnectStream \/ connectStream \/ shutdown \/ Interrupt \/ Exit
           \/ UserNext \/ UNCHANGED vars
  BY <1>5 DEF Start, Tick, disconnectStream, connectStream, shutdown, Interrupt, Exit, UserNext, vars
<1>6. CASE \E u \in Tickets : Add(u) \/ handleEvent(u) \/ Daemon(u) \/ Others(u)
  BY <1>6 DEF Add, handleEvent, Daemon, Others
<1> QED
  BY <1>1, <1>2, <1>3, <1>4, <1>5, <1>6 DEF Next, ManagerStep

\* A slot takes up a marker only from the screen, from the stream or from its own checks.
LEMMA MarkerComesFrom ==
    ASSUME IInv, [Next]_vars, ManagerAssumption, NEW s \in Slots, slot'[s].state # "empty",
           slot'[s].state = "completing" \/ Verifies(s)'
    PROVE  slot[s].state # "empty" /\ slot'[s].ticket = slot[s].ticket /\ OnItsWay(slot[s].ticket)
<1>1. ~Freed(s)
  BY DEF Freed, EmptySlot
<1>2. ~Claimed(s)
  <2>1. SUFFICES ASSUME Claim(s) PROVE ~Verifies(s)'
    BY DEF Claimed
  <2>2. SlotStep(s) /\ ~CompletionSnapshot(s) /\ todo # <<>> /\ slot[s].state = "empty"
    <3>1. At("fill", s) /\ slot[s].state = "empty" /\ SlotStep(s)
      BY <2>1 DEF Claim, SlotStep
    <3>2. \A o, r : At(o, r) <=> o = "fill" /\ r = s
      BY <3>1, OneHead
    <3> QED
      BY <3>1, <3>2 DEF CompletionSnapshot, At
  <2>3. ~Verifies(s)
    BY <2>2, InnerOps DEF IInv, HeadInUse, Verifies
  <2> QED
    BY <2>2, <2>3, VerifyChanges
<1>3. slot'[s] = slot[s] \/ Moved(s)
  BY <1>1, <1>2, SlotChanges
<1>4. slot[s].state # "empty" /\ slot'[s].ticket = slot[s].ticket
  BY <1>3 DEF Moved, T
<1>5. CASE Verifies(s) \/ slot[s].state = "completing"
  BY <1>4, <1>5 DEF OnItsWay, Verifies
<1>6. CASE printed[T(s)] \/ events[T(s)] > 0
  BY <1>4, <1>6 DEF OnItsWay, T
<1>7. CASE Verifies(s)'
  BY <1>5, <1>6, <1>7, VerifyChanges
<1>8. CASE slot'[s].state = "completing"
  BY <1>3, <1>5, <1>6, <1>8 DEF Moved, Verifies
<1> QED
  BY <1>7, <1>8

LEMMA MarkersStep ==
    ASSUME IInv, MarkersAreEarned, [Next]_vars, ManagerAssumption
    PROVE  MarkersAreEarned'
<1> SUFFICES ASSUME NEW t \in Tickets, OnItsWay(t)' PROVE earned'[t]
  BY DEF MarkersAreEarned
<1>1. OnItsWay(t) => earned'[t]
  BY EarnedKeeps DEF MarkersAreEarned
<1>2. CASE printed'[t] \/ events'[t] > 0
  <2>1. CASE printed[t] \/ events[t] > 0
    BY <1>1, <2>1 DEF OnItsWay
  <2>2. CASE WorkerPrints(t) /\ ~printed[t]
    BY <2>2 DEF WorkerPrints, IInv, TypeOK
  <2> QED
    BY <1>2, <2>1, <2>2, MarksChange
<1>3. ASSUME NEW s \in Slots, slot'[s].state # "empty", slot'[s].ticket = t,
             slot'[s].state = "completing" \/ Verifies(s)'
      PROVE  earned'[t]
  BY <1>1, <1>3, MarkerComesFrom
<1> QED
  BY <1>2, <1>3 DEF OnItsWay, Verifies

\* The manager reports a ticket done only when a worker has printed its marker since the
\* ticket was last opened, or the marker was still on its way then: no event of another
\* pane, stale event or late snapshot completes a ticket.
THEOREM DoneIsEarned == Spec => CompletionIsEarned
<1>1. Init => MarkersAreEarned
  BY DEF Init, PaneInit, EmptySlot, MarkersAreEarned, OnItsWay
<1>2. IInv /\ MarkersAreEarned /\ [Next]_vars => MarkersAreEarned'
  BY MarkersStep, ManagerAssumption
<1>3. ASSUME IInv, MarkersAreEarned, [Next]_vars, NEW t \in Tickets,
             ops' = ops, status[t] # "done", status'[t] = "done"
      PROVE  earned[t]
  <2>0. status \in [Tickets -> Status] /\ ops \in Nat
    BY <1>3, ManagerAssumption DEF IInv, TypeOK, ManagerAssumption
  <2>1. PICK s \in Slots : PutsBack(s) \/ Reports(s)
    <3>1. ~UNCHANGED ticketVars
      BY <1>3 DEF ticketVars
    <3>2. ASSUME NEW u \in Tickets PROVE ~Add(u)
      BY <1>3, <2>0 DEF Add
    <3>3. ASSUME NEW u \in Tickets, NEW a \in UserActions PROVE ~Transition(u, a)
      BY <1>3, <2>0 DEF Transition
    <3>4. ~UserNext
      BY <1>3, <2>0 DEF UserNext
    <3>5. ASSUME NEW s \in Slots PROVE ~Claim(s)
      BY <1>3, <2>0 DEF Claim
    <3> QED
      BY <1>3, <3>1, <3>2, <3>3, <3>4, <3>5, StatusChanges
  <2>2. Reports(s)
    BY <1>3, <2>0, <2>1 DEF PutsBack, Requeue
  <2>3. T(s) = t
    BY <1>3, <2>0, <2>2 DEF Reports
  <2> QED
    BY <1>3, <2>2, <2>3 DEF MarkersAreEarned, OnItsWay, Reports, T
<1>4. IInv /\ MarkersAreEarned /\ [Next]_vars
        => [\A t \in Tickets : ops' = ops /\ status[t] # "done" /\ status'[t] = "done"
               => earned[t]]_vars
  BY <1>3
<1> QED
  BY <1>1, <1>2, <1>4, Inductive, PTL DEF Spec, CompletionIsEarned

=============================================================================
