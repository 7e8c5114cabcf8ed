--------------------------- MODULE DashboardPopups ---------------------------
(***************************************************************************)
(* The pop-ups of the agent dashboard (internal/agentdashboard): which one *)
(* the keys go to, the requests each sends, and the answers, which arrive  *)
(* in any order as messages of their own while the list is refreshed       *)
(* underneath.  Cursors and layout are left out, and so is typed text but  *)
(* for what tells one follow-up from another; the follow-up queue of the   *)
(* daemon is reduced to a version and the items added.                     *)
(***************************************************************************)
EXTENDS Integers, Sequences, FiniteSets

CONSTANTS
    RowAgents,
    FlightN,    \* bound: requests on the way at once
    SequenceN,  \* bound: requests of one follow-up pop-up
    VersionN,   \* bound: changes of the follow-up queue
    WordN       \* bound: different texts that are typed

ASSUME PopupsAssumption == RowAgents # {} /\ {FlightN, SequenceN, VersionN, WordN} \subseteq Nat

VARIABLES
    popups,      \* of every kind: the one open, or NoPopup
    flags,       \* raised among "stopping", "pinning", "focusing", "git", "editor", "worktree"
    cooling,     \* mergeCooldown
    selected,    \* the agent selected in the list, or ""
    feed,        \* followupPopup: sequence, loading, loaded, the version shown, the text typed, its
                 \* requestID, and which opening of the editor this is
    flight,      \* requests and their answers on the way
    daemon,      \* the queue of the agent whose follow-ups are open: its version, counted
                 \* from the opening, and the items added since, in order
    quitting

popupVars == <<popups, flags, cooling, selected, feed, flight, daemon, quitting>>

-----------------------------------------------------------------------------

\* Kinds in the order in which updateKey asks for them.
Kinds == <<"instruction", "followups", "worktrees", "recent", "ticket", "merge", "naming", "picker", "input", "alias">>
KindSet == {Kinds[i] : i \in DOMAIN Kinds}
NoPopup == [id |-> 0, target |-> "", mode |-> "", busy |-> FALSE]
NoFeed == [sequence |-> 0, loading |-> FALSE, loaded |-> FALSE, shown |-> 0, text |-> 0, request |-> 0, editor |-> 0]
NoFlags == {}
NoQueue == [version |-> 0, added |-> <<>>]

IsOpen(k) == popups[k].id # 0
Blocked(k) == k \in {"input", "alias"} /\ flags \intersect {"worktree", "editor"} # {}

\* updateKey: the pop-up that gets the keys.
Takes(k) ==
    /\ IsOpen(k) /\ ~Blocked(k)
    /\ \A i, j \in DOMAIN Kinds : Kinds[i] = k /\ j < i => ~IsOpen(Kinds[j])

MainScreen == /\ \A k \in KindSet : ~IsOpen(k)
              /\ flags \intersect {"worktree", "editor"} = {}

Free(busy) == flags \intersect busy = {}
Acting == {"stopping", "pinning", "focusing"}

\* What flag a request raises until it is answered.
FlagOf(of) ==
    CASE of = "stop" -> {"stopping"} [] of = "pin" -> {"pinning"} [] of = "focus" -> {"focusing"}
      [] of = "git" -> {"git"} [] of = "editor" -> {"editor"}
      [] of \in {"naming", "picker"} -> {"worktree"} [] OTHER -> {}

PopupsInit ==
    /\ popups = [k \in KindSet |-> NoPopup] /\ flags = NoFlags /\ cooling = FALSE
    /\ selected \in RowAgents \union {""}
    /\ feed = NoFeed /\ flight = {} /\ daemon = NoQueue
    /\ quitting = FALSE

\* The first number that is not in use: identities of pop-ups, and request IDs (uuid.NewString),
\* which also number the openings of the editor.
Unused(used) == CHOOSE n \in 1 .. Cardinality(used) + 1 : n \notin used /\ \A m \in 1 .. n - 1 : m \in used
NewID == Unused({popups[k].id : k \in KindSet} \union {r.id : r \in flight})
Items == {daemon.added[i] : i \in DOMAIN daemon.added}
NewRequest == Unused({i.request : i \in Items} \union {i.editor : i \in Items}
                     \union {r.request : r \in flight} \union {r.editor : r \in flight})

\* A request of the pop-up p.
Request(of, action, p) ==
    [of |-> of, action |-> action, id |-> p.id, target |-> p.target,
     sequence |-> 0, text |-> 0, request |-> 0, editor |-> 0, reply |-> "", version |-> 0]

\* Pop-up k becomes p and sends the requests, at most one.
Update(k, p, requests) ==
    /\ popups' = [popups EXCEPT ![k] = p]
    /\ flight' = flight \union requests /\ Cardinality(flight') <= FlightN
    /\ flags' = flags \union UNION {FlagOf(r.of) : r \in requests}

Opened(mode, busy) == [id |-> NewID, target |-> selected, mode |-> mode, busy |-> busy]

-----------------------------------------------------------------------------
(* Keys of the list itself.                                                *)

\* A pop-up that needs an agent and asks for nothing yet.
OpenPlain(k) ==
    /\ MainScreen /\ selected # ""
    /\ k # "instruction" => Free(Acting)
    /\ k \in {"ticket", "worktrees"} => Free({"git"})
    /\ Update(k, Opened("menu", FALSE), {})
    /\ UNCHANGED <<cooling, selected, feed, daemon, quitting>>

openInstruction == OpenPlain("instruction")
openTickets == OpenPlain("ticket")
openWorktreeMenu == OpenPlain("worktrees")
openInput == OpenPlain("input")
openAliasPicker == OpenPlain("alias")

\* openFollowups, which reads the queue at once.
OpenFollowups ==
    /\ MainScreen /\ selected # "" /\ Free(Acting \union {"git"})
    /\ LET p == Opened("list", FALSE)
       IN  Update("followups", p, {[Request("followups", "get", p) EXCEPT !.sequence = 1]})
    /\ feed' = [NoFeed EXCEPT !.sequence = 1, !.loading = TRUE]
    /\ UNCHANGED <<cooling, selected, daemon, quitting>>

\* openRecent: the directories are asked for.
OpenRecent ==
    /\ MainScreen /\ Free(Acting \union {"git", "worktree"})
    /\ LET p == Opened("directory", TRUE) IN Update("recent", p, {Request("recent", "directories", p)})
    /\ UNCHANGED <<cooling, selected, feed, daemon, quitting>>

\* openInputEditor: the editor may fail to start, and the pop-up stays.
OpenEditor ==
    /\ MainScreen /\ selected # "" /\ Free(Acting \union {"git"})
    /\ LET p == Opened("menu", FALSE)
       IN  \/ Update("input", p, {Request("editor", "edit", p)})
           \/ Update("input", p, {})
    /\ UNCHANGED <<cooling, selected, feed, daemon, quitting>>

\* openMerge, with one child or with several, from the list or from the worktree menu.
OpenMerge(from) ==
    /\ IF from = "list" THEN MainScreen ELSE Takes("worktrees") /\ ~popups["worktrees"].busy /\ popups["worktrees"].mode = "menu"
    /\ selected # "" /\ Free(Acting \union {"git"}) /\ ~cooling
    /\ LET p == Opened("choose", FALSE)
           closed == IF from = "list" THEN popups ELSE [popups EXCEPT ![from] = NoPopup]
       IN  \/ /\ popups' = [closed EXCEPT !["merge"] = p] /\ UNCHANGED flight
           \/ /\ popups' = [closed EXCEPT !["merge"] = [p EXCEPT !.busy = TRUE]]
              /\ Cardinality(flight) < FlightN /\ flight' = flight \union {Request("merge", "merge", p)}
    /\ UNCHANGED <<flags, cooling, selected, feed, daemon, quitting>>

\* Keys d, space and enter act on the selected agent at once.
ActOnSelected(of) ==
    /\ MainScreen /\ selected # ""
    /\ CASE of = "stop" -> Free(Acting) [] of = "pin" -> Free({"pinning", "stopping"}) [] of = "focus" -> Free({"focusing", "stopping"})
    /\ Cardinality(flight) < FlightN
    /\ flags' = flags \union FlagOf(of)
    /\ flight' = flight \union {Request(of, of, [NoPopup EXCEPT !.target = selected])}
    /\ UNCHANGED <<popups, cooling, selected, feed, daemon, quitting>>

\* The list moves under the pop-ups: keys, refreshes, pinning.
SelectionMoves ==
    /\ selected' \in RowAgents \union {""}
    /\ UNCHANGED <<popups, flags, cooling, feed, flight, daemon, quitting>>

CooldownEnds ==
    /\ cooling /\ cooling' = FALSE
    /\ UNCHANGED <<popups, flags, selected, feed, flight, daemon, quitting>>

-----------------------------------------------------------------------------
(* Keys of the pop-ups.                                                    *)

\* naming and picker are busy by worktreeBusy.
Idles(k) == ~popups[k].busy /\ (k \in {"naming", "picker"} => "worktree" \notin flags)

\* A busy pop-up ignores esc, but for the directory list of recent.
MayClose(k) == Idles(k) \/ (k = "recent" /\ popups[k].mode = "directory")

\* Of a message for a follow-up pop-up that is gone, only the pop-up still matters.
Outdated(r, k) == IF r.of = "followups" /\ k = "followups" THEN [Request("followups", "get", NoPopup) EXCEPT !.id = r.id] ELSE r

\* Keys esc and q of every pop-up; in an editor of the follow-up list or in the
\* custom alias they lead back.
Escape(k) ==
    /\ Takes(k) /\ MayClose(k)
    /\ \/ /\ k = "followups" /\ popups[k].mode # "list"
          /\ popups' = [popups EXCEPT ![k].mode = "list"]
          /\ feed' = [feed EXCEPT !.text = 0, !.request = 0, !.editor = 0] /\ UNCHANGED <<flight, daemon>>
       \/ /\ k = "alias" /\ popups[k].mode = "custom"
          /\ popups' = [popups EXCEPT ![k].mode = "menu"] /\ UNCHANGED <<feed, flight, daemon>>
       \/ /\ k = "followups" => popups[k].mode = "list"
          /\ k = "alias" => popups[k].mode = "menu"
          /\ popups' = [popups EXCEPT ![k] = NoPopup]
          /\ feed' = IF k = "followups" THEN NoFeed ELSE feed
          /\ daemon' = IF k = "followups" THEN NoQueue ELSE daemon
          /\ flight' = {Outdated(r, k) : r \in flight}
    /\ UNCHANGED <<flags, cooling, selected, quitting>>

\* The mode of a pop-up changes by a key without a request.
RecentTurns == {<<"recent", "listed", "kind">>, <<"recent", "kind", "listed">>}
Turns == RecentTurns \union {<<"ticket", "menu", "add">>, <<"worktrees", "menu", "send">>, <<"alias", "menu", "custom">>}

TurnTo(k, from, to) ==
    /\ Takes(k) /\ Idles(k) /\ popups[k].mode = from
    /\ Update(k, [popups[k] EXCEPT !.mode = to], {})
    /\ UNCHANGED <<cooling, selected, feed, daemon, quitting>>

\* The keys that send a request and make the pop-up wait: pop-up, mode, action, mode
\* after it.  First those of updateTicketKey with runTicket and openTicketAgentPicker.
TicketSends ==
    {<<"ticket", "menu", "config", "start">>, <<"ticket", "start", "config", "start">>, <<"ticket", "ready", "config", "start">>,
     <<"ticket", "menu", "list", "list">>, <<"ticket", "list", "list", "list">>,
     <<"ticket", "ready", "start", "ready">>, <<"ticket", "add", "add", "add">>}

\* updateWorktreeNameKey and updateWorktreeKey.
WorktreeSends == {<<"naming", "menu", "create", "menu">>, <<"picker", "menu", "selection", "menu">>}

\* updateAliasKey with saveAlias.
AliasSends == {<<"alias", "menu", "save", "menu">>, <<"alias", "custom", "save", "custom">>}

\* updateRecentKey with startRecentCmd.
RecentSends == {<<"recent", "kind", "start", "kind">>}

\* And those of the worktree menu, of merge and of input.
Sends == TicketSends \union WorktreeSends \union AliasSends \union RecentSends \union
         {<<"worktrees", "send", "shell", "send">>, <<"merge", "choose", "merge", "choose">>, <<"input", "menu", "send", "menu">>}

Submit(k, from, action, mode) ==
    /\ Takes(k) /\ Idles(k) /\ popups[k].mode = from
    /\ LET p == [popups[k] EXCEPT !.mode = mode, !.busy = k \notin {"naming", "picker"}]
       IN  Update(k, p, {Request(k, action, p)})
    /\ UNCHANGED <<cooling, selected, feed, daemon, quitting>>

\* sendMerge when the child is not idle: the pop-up closes instead.
MergeRefused ==
    /\ Takes("merge") /\ Idles("merge")
    /\ Update("merge", NoPopup, {})
    /\ UNCHANGED <<cooling, selected, feed, daemon, quitting>>

\* The menu's own ways on.  Keys a and m close the menu first, and then open the naming
\* (openWorktree) or the merge for the agent that is selected at that moment; if those have
\* nothing to open, the menu is gone all the same, as after esc.
MenuTakes == Takes("worktrees") /\ Idles("worktrees") /\ popups["worktrees"].mode = "menu"

MenuToNaming ==
    /\ MenuTakes /\ selected # "" /\ Free(Acting \union {"git", "worktree"})
    /\ popups' = [popups EXCEPT !["worktrees"] = NoPopup, !["naming"] = Opened("menu", FALSE)]
    /\ UNCHANGED <<flags, cooling, selected, feed, flight, daemon, quitting>>

\* Key g: lazygit in the directory of the agent that is selected; the menu stays.
openLazygit ==
    /\ MenuTakes /\ selected # "" /\ Free(Acting \union {"git"})
    /\ Update("worktrees", popups["worktrees"],
              {[Request("git", "git", popups["worktrees"]) EXCEPT !.target = selected]})
    /\ UNCHANGED <<cooling, selected, feed, daemon, quitting>>

\* Slip: the child of the agent that is selected, as with lazygit.
focusChildOfSelected ==
    /\ MenuTakes
    /\ Update("worktrees", [popups["worktrees"] EXCEPT !.busy = TRUE],
              {[Request("focus", "focus", popups["worktrees"]) EXCEPT !.target = selected]})
    /\ UNCHANGED <<cooling, selected, feed, daemon, quitting>>

\* Key t: the tab of a child of the agent the menu was opened on.  (Without a child nothing
\* is sent.)
focusChildWorktree ==
    /\ MenuTakes
    /\ Update("worktrees", [popups["worktrees"] EXCEPT !.busy = TRUE],
              {Request("focus", "focus", popups["worktrees"])})
    /\ UNCHANGED <<cooling, selected, feed, daemon, quitting>>

-----------------------------------------------------------------------------
(* Follow-ups.                                                             *)

\* requestFollowupRefresh, by the tick or by a key.
RefreshFollowups ==
    /\ IsOpen("followups") /\ feed.sequence < SequenceN /\ ~feed.loading /\ ~popups["followups"].busy
    /\ feed' = [feed EXCEPT !.loading = TRUE, !.sequence = @ + 1]
    /\ Update("followups", popups["followups"],
              {[Request("followups", "get", popups["followups"]) EXCEPT !.sequence = feed.sequence + 1]})
    /\ UNCHANGED <<cooling, selected, daemon, quitting>>

\* editFollowup: an editor opens, and a new item gets its request ID here.
EditFollowup(mode) ==
    /\ Takes("followups") /\ Idles("followups") /\ popups["followups"].mode = "list"
    /\ mode = "edit" => feed.loaded
    /\ LET new == IF mode = "add" THEN NewRequest ELSE 0 IN feed' = [feed EXCEPT !.text = 0, !.request = new, !.editor = new]
    /\ Update("followups", [popups["followups"] EXCEPT !.mode = mode], {})
    /\ UNCHANGED <<cooling, selected, daemon, quitting>>

\* The editor takes the key: after an error, too, the text may be changed before it is sent
\* again.  (A text of 0 is as it was when the editor opened.)
TypeText(text) ==
    /\ Takes("followups") /\ Idles("followups") /\ popups["followups"].mode # "list"
    /\ feed' = [feed EXCEPT !.text = text]
    /\ UNCHANGED <<popups, flags, cooling, selected, flight, daemon, quitting>>

\* An empty text is not sent.
Runs(action) ==
    /\ Takes("followups") /\ Idles("followups") /\ feed.sequence < SequenceN
    /\ action = popups["followups"].mode \/ (action = "change" /\ popups["followups"].mode = "list" /\ feed.loaded)
    /\ action = "add" => feed.text # 0

Mutation(action, request, sequence) ==
    Update("followups", [popups["followups"] EXCEPT !.busy = TRUE],
           {[Request("followups", action, popups["followups"]) EXCEPT
               !.sequence = sequence, !.text = feed.text, !.request = request, !.editor = feed.editor]})

\* Slip: the sequence is left to the reads.
RunInSequence(action) ==
    /\ Runs(action)
    /\ feed' = [feed EXCEPT !.loading = FALSE]
    /\ Mutation(action, feed.request, feed.sequence)
    /\ UNCHANGED <<cooling, selected, daemon, quitting>>

\* Slip: every submission gets a request ID of its own.
RunWithNewRequest(action) ==
    /\ Runs(action)
    /\ feed' = [feed EXCEPT !.loading = FALSE, !.sequence = @ + 1]
    /\ Mutation(action, NewRequest, feed.sequence + 1)
    /\ UNCHANGED <<cooling, selected, daemon, quitting>>

\* runFollowup: an add or edit, or a change of an item of the list.
RunFollowup(action) ==
    /\ Runs(action)
    /\ feed' = [feed EXCEPT !.loading = FALSE, !.sequence = @ + 1]
    /\ Mutation(action, feed.request, feed.sequence + 1)
    /\ UNCHANGED <<cooling, selected, daemon, quitting>>

\* The items of the request ID that r carries.
Repeated(r) == {i \in DOMAIN daemon.added : daemon.added[i].request = r.request}

\* Slip: a request ID is taken to say what was asked.
NeverConflicts(r) == FALSE

\* The request ID was used for another text.
Conflicts(r) == r.action = "add" /\ \E i \in Repeated(r) : daemon.added[i].text # r.text

\* The items after an add, or after an edit of item i (0 and an older item: not one of these).
ItemsAfter(r, i) ==
    CASE r.action = "add" -> Append(daemon.added, [text |-> r.text, request |-> r.request, editor |-> r.editor])
      [] r.action = "edit" /\ i # 0 /\ r.text # 0 -> [daemon.added EXCEPT ![i] = [@ EXCEPT !.text = r.text]]
      [] OTHER -> daemon.added

\* Slip: whatever arrives is added.
AppliedAgain(r, i) ==
    IF r.action = "get" THEN daemon ELSE [version |-> daemon.version + 1, added |-> ItemsAfter(r, i)]

\* The daemon's Update: a request ID that is in the queue is not added again.
Applied(r, i) ==
    IF r.action = "get" \/ (r.action = "add" /\ Repeated(r) # {}) THEN daemon
    ELSE [version |-> daemon.version + 1, added |-> ItemsAfter(r, i)]

\* The daemon applies the request, or not, and its answer may be lost; a conflict is an error.
\* (Of a pop-up that is gone the answer is ignored whatever it says.)
Serve(r, i, applies, reply) ==
    /\ r \in flight /\ r.of = "followups" /\ r.reply = "" /\ r.id = popups["followups"].id
    /\ i # 0 => r.action = "edit"
    /\ reply = "ok" => applies /\ ~Conflicts(r)
    /\ daemon' = IF applies THEN Applied(r, i) ELSE daemon
    /\ daemon'.version <= VersionN
    /\ flight' = (flight \ {r}) \union {[r EXCEPT !.reply = reply, !.version = daemon'.version]}
    /\ UNCHANGED <<popups, flags, cooling, selected, feed, quitting>>

\* The delivery controller changes the queue by itself.
QueueMoves ==
    /\ IsOpen("followups") /\ daemon.version < VersionN /\ daemon' = [daemon EXCEPT !.version = @ + 1]
    /\ UNCHANGED <<popups, flags, cooling, selected, feed, flight, quitting>>

Expected(r) == popups["followups"].id = r.id /\ feed.sequence = r.sequence

\* handleFollowupResult.
HandleFollowupResult(r) ==
    /\ r \in flight /\ r.of = "followups" /\ (r.reply # "" \/ r.id # popups["followups"].id)
    /\ flight' = flight \ {r}
    /\ LET p == popups["followups"]
           failed == r.reply = "err"
           saved == ~failed /\ r.action \in {"add", "edit"}
       IN  IF ~Expected(r) THEN UNCHANGED <<popups, feed>>
           ELSE /\ popups' = [popups EXCEPT !["followups"] =
                                [p EXCEPT !.busy = IF r.action = "get" THEN @ ELSE FALSE, !.mode = IF saved THEN "list" ELSE @]]
                /\ feed' = [feed EXCEPT !.loading = IF r.action = "get" THEN FALSE ELSE @,
                                        !.loaded = @ \/ ~failed, !.shown = IF failed THEN @ ELSE r.version,
                                        !.text = IF saved THEN 0 ELSE @, !.request = IF saved THEN 0 ELSE @,
                                        !.editor = IF saved THEN 0 ELSE @]
    /\ UNCHANGED <<flags, cooling, selected, daemon, quitting>>

-----------------------------------------------------------------------------
(* Answers of the other requests.  Those of recent and of the agent        *)
(* configuration carry their pop-up; the others take the one that is open. *)

Recognised(r) == r.action \in {"directories", "config"} \/ r.of = "recent"

Released(p) == [p EXCEPT !.busy = FALSE]

\* handleTicketResult and handleTicketAgentConfig.
AnsweredTicket(r, ok, p) ==
    CASE ~ok \/ r.action = "list" -> Released(p)
      [] ok /\ r.action = "config" -> [Released(p) EXCEPT !.mode = "ready"]
      [] OTHER -> NoPopup

\* handleRecentDirectories and handleRecentStarted.
AnsweredRecent(r, ok, p) ==
    CASE ~ok -> Released(p)
      [] ok /\ r.action = "directories" -> [Released(p) EXCEPT !.mode = "listed"]
      [] OTHER -> NoPopup

\* handleWorktreeShellResult.
AnsweredWorktrees(p) == [Released(p) EXCEPT !.mode = "result"]

\* The pop-up as its answer leaves it.
AnsweredPopup(r, ok, p) ==
    CASE r.of = "ticket" -> AnsweredTicket(r, ok, p)
      [] r.of = "recent" -> AnsweredRecent(r, ok, p)
      [] r.of = "worktrees" -> AnsweredWorktrees(p)
      [] r.of = "merge" -> NoPopup
      [] OTHER -> IF ok THEN NoPopup ELSE Released(p)

\* The five results above, and in Update those of merge, alias and input.
AnswerPopup(r, ok) ==
    /\ r \in flight /\ r.of \in {"ticket", "recent", "worktrees", "merge", "alias", "input"}
    /\ flight' = flight \ {r}
    /\ popups' = IF IsOpen(r.of) /\ (Recognised(r) => popups[r.of].id = r.id)
                 THEN [popups EXCEPT ![r.of] = AnsweredPopup(r, ok, @)] ELSE popups
    /\ cooling' = (cooling \/ r.of = "merge")
    /\ UNCHANGED <<flags, selected, feed, daemon, quitting>>

\* handleWorktreeCreated: the picker follows the name.
AnswerCreate(r, ok) ==
    /\ r \in flight /\ r.of = "naming"
    /\ flight' = flight \ {r} /\ flags' = flags \ {"worktree"}
    /\ IF ok THEN popups' = [popups EXCEPT !["naming"] = NoPopup,
                                              !["picker"] = [id |-> NewID, target |-> popups["naming"].target, mode |-> "menu", busy |-> FALSE]]
             ELSE UNCHANGED popups
    /\ UNCHANGED <<cooling, selected, feed, daemon, quitting>>

\* startWorktree: the selection arrives as a message, and starts the agent.
StartWorktree(r) ==
    /\ r \in flight /\ r.action = "selection"
    /\ IF IsOpen("picker")
       THEN flight' = (flight \ {r}) \union {[r EXCEPT !.action = "started"]} /\ flags' = flags \union {"worktree"}
       ELSE flight' = flight \ {r} /\ UNCHANGED flags
    /\ UNCHANGED <<popups, cooling, selected, feed, daemon, quitting>>

AnswerStarted(r, ok) ==
    /\ r \in flight /\ r.action = "started"
    /\ flight' = flight \ {r} /\ flags' = flags \ {"worktree"}
    /\ popups' = IF ok THEN [popups EXCEPT !["picker"] = NoPopup] ELSE popups
    /\ UNCHANGED <<cooling, selected, feed, daemon, quitting>>

\* tea.Quit: nothing of the model is left.
Gone ==
    /\ quitting' = TRUE /\ popups' = [k \in KindSet |-> NoPopup] /\ flags' = NoFlags /\ cooling' = FALSE
    /\ selected' = "" /\ feed' = NoFeed /\ flight' = {} /\ daemon' = NoQueue

\* Slip: the menu is left waiting when the tab cannot be reached.
AnswerFlagOnly(r, ok) ==
    /\ r \in flight /\ r.of \in {"stop", "pin", "focus", "git", "editor"}
    /\ IF r.of = "focus" /\ ok THEN Gone
       ELSE flight' = flight \ {r} /\ flags' = flags \ FlagOf(r.of) /\ UNCHANGED <<popups, cooling, selected, feed, daemon, quitting>>

\* Update: the results of stop, pin, focus, lazygit and the editor.
AnswerFlag(r, ok) ==
    /\ r \in flight /\ r.of \in {"stop", "pin", "focus", "git", "editor"}
    /\ IF r.of = "focus" /\ ok THEN Gone
       ELSE /\ flight' = flight \ {r} /\ flags' = flags \ FlagOf(r.of)
            /\ popups' = IF r.of = "focus" /\ IsOpen("worktrees") THEN [popups EXCEPT !["worktrees"].busy = FALSE] ELSE popups
            /\ UNCHANGED <<cooling, selected, feed, daemon, quitting>>

\* The keys that leave the program; some pop-ups do not have one.
Quit ==
    /\ MainScreen \/ \E k \in {"instruction", "followups", "ticket", "input", "alias"} : Takes(k)
    /\ Gone

-----------------------------------------------------------------------------

Keys ==
    \/ openInstruction \/ openTickets \/ openWorktreeMenu \/ openInput \/ openAliasPicker
    \/ OpenFollowups \/ OpenRecent \/ OpenEditor \/ \E from \in {"list", "worktrees"} : OpenMerge(from)
    \/ \E of \in {"stop", "pin", "focus"} : ActOnSelected(of)
    \/ \E k \in KindSet : Escape(k)
    \/ \E t \in Turns : TurnTo(t[1], t[2], t[3])
    \/ \E s \in Sends : Submit(s[1], s[2], s[3], s[4])
    \/ MergeRefused \/ MenuToNaming \/ openLazygit \/ focusChildWorktree
    \/ \E mode \in {"add", "edit"} : EditFollowup(mode)
    \/ \E text \in 1 .. WordN : TypeText(text)
    \/ \E action \in {"add", "edit", "change"} : RunFollowup(action)

Answers ==
    \/ \E r \in flight, i \in {0} \union DOMAIN daemon.added, applies \in BOOLEAN, reply \in {"ok", "err"} : Serve(r, i, applies, reply)
    \/ \E r \in flight : HandleFollowupResult(r) \/ StartWorktree(r)
    \/ \E r \in flight, ok \in BOOLEAN : AnswerPopup(r, ok) \/ AnswerCreate(r, ok) \/ AnswerStarted(r, ok) \/ AnswerFlag(r, ok)

PopupsNext ==
    /\ ~quitting
    /\ Keys \/ Answers \/ RefreshFollowups \/ SelectionMoves \/ CooldownEnds \/ QueueMoves \/ Quit

-----------------------------------------------------------------------------
(* Properties.                                                             *)

\* What waits is waited for: every pop-up that ignores keys because it is busy, and
\* every flag that keeps others from opening, has a request on the way that will
\* release it.  A pop-up that waited for nothing could only be left by killing the
\* dashboard (updateWorktreeKey and updateWorktreeMenuKey ignore even ctrl+c then).
BusyIsAwaited ==
    /\ \A k \in KindSet : popups[k].busy => \E r \in flight : r.id = popups[k].id
    /\ \A f \in flags : \E r \in flight : f \in FlagOf(r.of)
    /\ IsOpen("followups") /\ feed.loading => \E r \in flight : r.action = "get" /\ Expected(r)

\* Answers that do not name their pop-up (ticketResultMsg, mergeResultMsg,
\* inputResultMsg, aliasResultMsg, worktreeCreatedMsg, worktreeShellResultMsg) still
\* meet the one that asked, though another of its kind could have been opened.
AnswerMeetsItsPopup ==
    \A r \in flight : r.of \in KindSet \ {"followups"} /\ ~Recognised(r) => popups[r.of].id = r.id

\* A pop-up acts on the agent it was opened on, wherever refreshes have moved the
\* selection since, and so does the worktree menu when it goes to a child's tab.  Its
\* keys g, a and m are another matter: they go by the selection of the moment.
ActsOnItsTarget ==
    \A r \in flight : /\ r.of \in KindSet /\ popups[r.of].id = r.id => r.target = popups[r.of].target
                      /\ r.of = "focus" /\ r.id # 0 => r.target = popups["worktrees"].target

\* "Reads and mutations share a generation so an older read cannot undo a saved edit":
\* what the follow-up list shows never goes back to an earlier state of the queue.
NeverShowsOlder ==
    [][popups["followups"].id = popups'["followups"].id => feed.shown <= feed'.shown]_popupVars

\* Submitted again after a lost answer, changed or not, what one editor holds is in the
\* queue once: its request ID is made when the editor opens, and kept until the item is
\* known to be saved.
AddedOnce == \A i, j \in DOMAIN daemon.added : daemon.added[i].editor = daemon.added[j].editor => i = j

\* An add that is answered with success is in the queue with the text it was sent with: a
\* text that was changed after a lost answer is not taken for the one saved before.
AcknowledgedIsQueued ==
    \A r \in flight : r.of = "followups" /\ r.id = popups["followups"].id /\ r.action = "add" /\ r.reply = "ok" =>
        \E i \in DOMAIN daemon.added : daemon.added[i].editor = r.editor /\ daemon.added[i].text = r.text

\* Whatever the order of keys, refreshes and answers, an answer releases the pop-up
\* that asked, is about the agent it was opened on, and a follow-up that is submitted
\* until it is acknowledged is in the queue once, with the text acknowledged.
AnswersMeetPopups == BusyIsAwaited /\ AnswerMeetsItsPopup /\ ActsOnItsTarget /\ AddedOnce /\ AcknowledgedIsQueued
=============================================================================
