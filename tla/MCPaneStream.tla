---- MODULE MCPaneStream ----
EXTENDS PaneStream
Line(form, name, owner, text) == [form |-> form, name |-> name, owner |-> owner, text |-> text]
MCLines == { Line("garbage", "other", "none", Blank), Line("event", "pane_closed", "mine", Blank),
             Line("event", "pane_update", "mine", Marker), Line("event", "other", "mine", "work"),
             Line("event", "pane_update", "other", "work"), Line("event", "other", "none", Blank) }
\* Three sides of the same system: a reused pane ID, a waiter on one pane, and
\* an event stream client whose waiter has already gone.
Scenario(gen, lines, caller, client) ==
    /\ pane.gen = gen /\ printed = MaxLines - lines
    /\ \A w \in Watchers : watch[w] = caller
    /\ bus = [NewBus EXCEPT !.chan = [c \in Subscribers |->
                                        IF c \in Streams THEN [@[c] EXCEPT !.state = client] ELSE @[c]]]
Init ==
    /\ StreamInit
    /\ \/ Scenario(0, 1, "failed", "closed")
       \/ Scenario(1, 3, "idle", "closed")
       \/ Scenario(1, 1, "failed", "none")
Spec == Init /\ [][StreamNext]_vars
====
