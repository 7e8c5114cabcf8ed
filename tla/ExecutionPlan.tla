---------------------------- MODULE ExecutionPlan ----------------------------
(***************************************************************************)
(* Applying an execution plan (internal/runtime/execution_plan.go): the    *)
(* first pane of each tab is created alone, the others of the tab in one   *)
(* goroutine each; the first failure cancels its siblings, and every pane  *)
(* created so far is rolled back.  Each creation (service.go CreatePane,   *)
(* pane_initialization.go) has three steps that can fail, with different   *)
(* clean-ups; zellij may have made the pane when its call fails, and a     *)
(* pane can be closed or end at any time.                                  *)
(***************************************************************************)
EXTENDS Naturals, Sequences, SequencesExt, FiniteSets

CONSTANT PlanTabs    \* the plan: a sequence of tabs, each a sequence of pane numbers

PlanPanes == UNION {ToSet(PlanTabs[t]) : t \in DOMAIN PlanTabs}

\* validateExecutionPlan: no empty plan, no empty tab, no pane twice.
ASSUME PlanAssumption ==
    /\ PlanTabs \in Seq(Seq(Nat)) /\ PlanTabs # <<>>
    /\ \A t \in DOMAIN PlanTabs : PlanTabs[t] # <<>>
    /\ IsInjective(FlattenSeq(PlanTabs))

VARIABLES
    planStage,  \* first | rest | rollback | success | failed
    tab,        \* the tab being built
    create,     \* step of each pane's CreatePane call
    zellijPane, \* zellij has the pane
    registered, \* the registry has its record
    created,    \* panes the plan knows it has created
    cancelled,  \* the context of the siblings, or of the request, has ended
    partial,    \* the answer says that clean-up was incomplete
    exited      \* panes that ended by themselves or were closed by the user

planVars == <<planStage, tab, create, zellijPane, registered, created, cancelled, partial, exited>>

PlanInit ==
    /\ planStage = "first" /\ tab = 1
    /\ create = [p \in PlanPanes |-> "none"]
    /\ zellijPane = [p \in PlanPanes |-> FALSE]
    /\ registered = [p \in PlanPanes |-> FALSE]
    /\ created = {}
    /\ cancelled = FALSE /\ partial = FALSE /\ exited = {}

-----------------------------------------------------------------------------
(* One CreatePane call.                                                    *)

Working(p) ==
    \/ planStage = "first" /\ p = PlanTabs[tab][1]
    \/ planStage = "rest" /\ p \in ToSet(Tail(PlanTabs[tab]))

\* The call fails, in zellij ("refused") or later: the siblings of a goroutine are
\* cancelled.
CreateFails(p, how) ==
    /\ create' = [create EXCEPT ![p] = how]
    /\ cancelled' = (cancelled \/ planStage = "rest")
    /\ UNCHANGED <<planStage, tab, created, exited>>

Failed(p) == create[p] \in {"refused", "failed"}

\* createBackendPane.
BackendCreates(p) ==
    /\ Working(p) /\ create[p] = "none" /\ ~cancelled
    /\ create' = [create EXCEPT ![p] = "made"]
    /\ zellijPane' = [zellijPane EXCEPT ![p] = TRUE]
    /\ UNCHANGED <<planStage, tab, registered, created, cancelled, partial, exited>>

\* It fails before anything is made or after: zellij was interrupted, or its answer is no
\* tab or pane ID, and then nothing is cleaned up; a new tab in which no pane is found
\* is closed, if that works.
BackendFails(p) ==
    /\ Working(p) /\ create[p] = "none"
    /\ CreateFails(p, "refused")
    /\ \/ UNCHANGED <<zellijPane, partial>>
       \/ zellijPane' = [zellijPane EXCEPT ![p] = TRUE] /\ UNCHANGED partial
       \/ planStage = "first" /\ zellijPane' = [zellijPane EXCEPT ![p] = TRUE] /\ partial' = TRUE
    /\ UNCHANGED registered

RegisterPane(p) ==
    /\ Working(p) /\ create[p] = "made"
    /\ registered' = [registered EXCEPT ![p] = TRUE]
    /\ create' = [create EXCEPT ![p] = "registered"]
    /\ UNCHANGED <<planStage, tab, zellijPane, created, cancelled, partial, exited>>

\* The ID or the zellij pane is taken: the new pane is closed under the context
\* of the call, which cannot work when that has ended.
RegisterFails(p) ==
    /\ Working(p) /\ create[p] = "made"
    /\ CreateFails(p, "failed")
    /\ \/ ~cancelled /\ zellijPane' = [zellijPane EXCEPT ![p] = FALSE] /\ UNCHANGED partial
       \/ partial' = TRUE /\ UNCHANGED zellijPane
    /\ UNCHANGED registered

\* The initial input, if any, was sent.
Initialized(p) ==
    /\ Working(p) /\ create[p] = "registered"
    /\ create' = [create EXCEPT ![p] = "done"]
    /\ created' = created \union {p}
    /\ UNCHANGED <<planStage, tab, zellijPane, registered, cancelled, partial, exited>>

\* cleanupCreatedPane: close the pane, then drop its record.
CloseAndForget(p) ==
    \/ /\ zellijPane' = [zellijPane EXCEPT ![p] = FALSE]
       /\ registered' = [registered EXCEPT ![p] = FALSE]
       /\ UNCHANGED partial
    \/ partial' = TRUE /\ UNCHANGED <<zellijPane, registered>>

\* Not ready in time, or the input was not taken: cleaned up under a context of
\* its own.
InitializeFails(p) ==
    /\ Working(p) /\ create[p] = "registered"
    /\ CreateFails(p, "failed")
    /\ CloseAndForget(p)

\* The client goes away.
RequestCancelled ==
    /\ planStage \in {"first", "rest"} /\ ~cancelled
    /\ cancelled' = TRUE
    /\ UNCHANGED <<planStage, tab, create, zellijPane, registered, created, partial, exited>>

\* A pane ends or the user closes it; nothing waits for the plan.
PaneExits(p) ==
    /\ zellijPane[p]
    /\ zellijPane' = [zellijPane EXCEPT ![p] = FALSE]
    /\ exited' = exited \union {p}
    /\ UNCHANGED <<planStage, tab, create, registered, created, cancelled, partial>>

\* handlePaneClosed: the record goes, whatever its status.
ClosedPaneForgotten(p) ==
    /\ p \in exited /\ registered[p]
    /\ registered' = [registered EXCEPT ![p] = FALSE]
    /\ UNCHANGED <<planStage, tab, create, zellijPane, created, cancelled, partial, exited>>

-----------------------------------------------------------------------------
(* ApplyExecutionPlan.                                                     *)

NextTab ==
    IF tab < Len(PlanTabs) THEN tab' = tab + 1 /\ planStage' = "first" ELSE planStage' = "success" /\ UNCHANGED tab

FirstDone ==
    /\ planStage = "first"
    /\ \/ create[PlanTabs[tab][1]] = "done" /\ IF Len(PlanTabs[tab]) > 1 THEN planStage' = "rest" /\ UNCHANGED tab ELSE NextTab
       \/ Failed(PlanTabs[tab][1]) /\ planStage' = "rollback" /\ UNCHANGED tab
    /\ UNCHANGED <<create, zellijPane, registered, created, cancelled, partial, exited>>

\* Slip: the siblings are not waited for once one of them has failed.
RestDoneAtFirstError ==
    LET rest == ToSet(Tail(PlanTabs[tab]))
    IN  /\ planStage = "rest"
        /\ \/ \A p \in rest : create[p] = "done"
           \/ \E p \in rest : Failed(p)
        /\ IF \E p \in rest : Failed(p) THEN planStage' = "rollback" /\ UNCHANGED tab ELSE NextTab
        /\ UNCHANGED <<create, zellijPane, registered, created, cancelled, partial, exited>>

\* Every goroutine has ended; what was created is known even if one failed.
RestDone ==
    LET rest == ToSet(Tail(PlanTabs[tab]))
    IN  /\ planStage = "rest" /\ \A p \in rest : create[p] = "done" \/ Failed(p)
        /\ IF \E p \in rest : Failed(p) THEN planStage' = "rollback" /\ UNCHANGED tab ELSE NextTab
        /\ UNCHANGED <<create, zellijPane, registered, created, cancelled, partial, exited>>

\* rollbackExecutionPlan, under a context of its own, goes on after a failure.
RollbackPane(p) ==
    /\ planStage = "rollback" /\ p \in created
    /\ created' = created \ {p}
    /\ CloseAndForget(p)
    /\ UNCHANGED <<planStage, tab, create, cancelled, exited>>

RolledBack ==
    /\ planStage = "rollback" /\ created = {}
    /\ planStage' = "failed"
    /\ UNCHANGED <<tab, create, zellijPane, registered, created, cancelled, partial, exited>>

PlanNext ==
    \/ FirstDone \/ RestDone \/ RolledBack \/ RequestCancelled
    \/ \E p \in PlanPanes :
          \/ BackendCreates(p) \/ BackendFails(p) \/ RegisterPane(p) \/ RegisterFails(p)
          \/ Initialized(p) \/ InitializeFails(p) \/ RollbackPane(p)
          \/ PaneExits(p) \/ ClosedPaneForgotten(p)

-----------------------------------------------------------------------------
(* Properties.                                                             *)

\* A plan that failed leaves no pane in the registry, whichever goroutine failed
\* first and whatever the others had reached, unless the answer says so.
FailedPlanLeavesNoRecord ==
    planStage = "failed" /\ ~partial => \A p \in PlanPanes : ~registered[p]

\* A pane is left in zellij that the registry does not know only if zellij answered the
\* call that made it with an error, or the answer says so: what zellij acknowledged is
\* closed, wherever its creation broke off.
StrayOnlyWhenRefused ==
    planStage \in {"success", "failed"} /\ ~partial =>
       \A p \in PlanPanes : zellijPane[p] /\ ~registered[p] => create[p] = "refused"

\* A plan succeeds only with every one of its panes there, but for those that ended by
\* themselves since.
SuccessHasEveryPane ==
    planStage = "success" => \A p \in PlanPanes : (zellijPane[p] /\ registered[p]) \/ p \in exited

\* A plan is applied as a whole or not at all.
PlanIsAllOrNothing == FailedPlanLeavesNoRecord /\ StrayOnlyWhenRefused /\ SuccessHasEveryPane
=============================================================================
