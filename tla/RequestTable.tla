---------------------------- MODULE RequestTable ----------------------------
(***************************************************************************)
(* The request table of the tab-network role                               *)
(* (cmd/agent-role/tabnetwork/tabnetwork.go).  A listener turns Chrome's   *)
(* network events into messages on a bounded channel; response bodies are  *)
(* fetched by goroutines of their own and may come in late and out of      *)
(* order; the table merges messages into rows by method and URL, forgets   *)
(* the row seen longest ago when it is full, and the screen keeps a        *)
(* selection in what its filter lets through.                              *)
(***************************************************************************)
EXTENDS Integers, Sequences, SequencesExt, FiniteSets

CONSTANTS
    Urls,
    RequestN,    \* bound: requests Chrome makes, numbered by their IDs
    RedirectN,   \* bound: redirects
    RowN,        \* maxRows
    ListHeight,  \* lines of the list
    ChannelN     \* messages the channel holds

ASSUME TableAssumption ==
    /\ RequestN \in Nat /\ RedirectN \in Nat
    /\ RowN \in Nat \ {0} /\ ListHeight \in Nat \ {0} /\ ChannelN \in Nat \ {0}

VARIABLES
    browser,   \* Chrome: state and URL of each request
    captured,  \* the listener's requests map: key of each request, or NoKey
    fetching,  \* body fetches under way
    messages,  \* the channel
    clock,
    table,     \* the request store
    screen     \* the model of the terminal program

tableVars == <<browser, captured, fetching, messages, clock, table, screen>>

RequestIDs == 1 .. RequestN
NoKey == <<"none", "">>
Key(method, url) == <<method, url>>
None == 0

NewTable == [rows |-> <<>>, index |-> [k \in {} |-> 0], seen |-> {}, ids |-> [k \in {} |-> {}]]

\* Some requests are under way when the tracker attaches.
TableInit ==
    /\ \E early \in SUBSET {1}, url \in Urls :
          browser = [r \in RequestIDs |-> IF r \in early THEN [state |-> "sent", url |-> url, redirects |-> 0]
                                                         ELSE [state |-> "new", url |-> url, redirects |-> 0]]
    /\ captured = [r \in RequestIDs |-> NoKey]
    /\ fetching = {} /\ messages = <<>> /\ clock = 0
    /\ table = NewTable
    /\ screen = [shown |-> <<>>, selected |-> 0, focused |-> NoKey, scroll |-> 0, detail |-> FALSE, filter |-> ""]

-----------------------------------------------------------------------------
(* requestStore.                                                           *)

With(f, x, v) == [y \in DOMAIN f \union {x} |-> IF y = x THEN v ELSE f[y]]
Without(f, x) == [y \in DOMAIN f \ {x} |-> f[y]]

\* Of rows seen last at the same time the one that is listed first counts as older.
IsBefore(rows, i, j) == rows[i].last < rows[j].last \/ (rows[i].last = rows[j].last /\ i < j)
Oldest(rows) == CHOOSE i \in DOMAIN rows : \A j \in DOMAIN rows : j # i => IsBefore(rows, i, j)

\* Where the row of each key is.
Places(rows) == [k \in {rows[j].key : j \in DOMAIN rows} |-> CHOOSE j \in DOMAIN rows : rows[j].key = k]

\* Slip: the IDs of a removed row stay behind.
RemoveKeepingIDs(t, i) ==
    LET rows == RemoveAt(t.rows, i)
    IN  [t EXCEPT !.rows = rows, !.index = Places(rows), !.ids = Without(@, t.rows[i].key)]

removeRowAt(t, i) ==
    LET key == t.rows[i].key
        rows == RemoveAt(t.rows, i)
    IN  [t EXCEPT !.rows = rows, !.index = Places(rows),
                  !.seen = IF key \in DOMAIN t.ids THEN @ \ t.ids[key] ELSE @,
                  !.ids = Without(@, key)]

\* One row is added at a time, so one has to go at most.
pruneRows(t) == IF Len(t.rows) > RowN THEN removeRowAt(t, Oldest(t.rows)) ELSE t

shouldIncrementCount(event, seen) == event.id \notin seen

\* A message without a URL is dropped.
Upsert(t, event) ==
    LET key == event.key
        known == key \in DOMAIN t.index
        rows == IF known THEN t.rows
                ELSE Append(t.rows, [key |-> key, count |-> 0, last |-> 0, from |-> None, failed |-> FALSE, body |-> None])
        index == IF known THEN t.index ELSE With(t.index, key, Len(rows))
        i == index[key]
        row == [rows[i] EXCEPT !.count = IF shouldIncrementCount(event, t.seen) THEN @ + 1 ELSE @,
                               !.last = event.at, !.from = event.id,
                               !.body = IF event.kind = "body" THEN event.id ELSE @,
                               !.failed = (event.kind = "failure")]
        ids == IF key \in DOMAIN t.ids THEN t.ids[key] ELSE {}
    IN  IF key = NoKey THEN t
        ELSE pruneRows([rows |-> [rows EXCEPT ![i] = row], index |-> index,
                        seen |-> t.seen \union {event.id}, ids |-> With(t.ids, key, ids \union {event.id})])

\* Rows: of the given positions, in the order of the rows' last messages.
Rows(t, kept) ==
    [n \in 1 .. Cardinality(kept) |->
       t.rows[CHOOSE i \in kept : Cardinality({j \in kept : IsBefore(t.rows, j, i)}) = n - 1]]

filteredRows(t, filter) ==
    LET kept == {i \in DOMAIN t.rows : filter = "" \/ t.rows[i].key[2] = filter}
        rows == Rows(t, kept)
    IN  [n \in DOMAIN rows |-> rows[n].key]

-----------------------------------------------------------------------------
(* The listener and the fetches, attachAndTrackTarget.                     *)

Room == Len(messages) < ChannelN
Message(kind, r, key, at) == [kind |-> kind, id |-> r, key |-> key, at |-> at]
Deliver(kind, r, key) == messages' = Append(messages, Message(kind, r, key, clock + 1)) /\ clock' = clock + 1

\* EventRequestWillBeSent; Chrome repeats it, with the same ID, for a redirect.
RequestWillBeSent(r, url) ==
    /\ browser[r].state \in {"new", "sent"} /\ Room
    /\ browser[r].state = "sent" => url # browser[r].url /\ browser[r].redirects < RedirectN
    /\ \A q \in RequestIDs : q < r => browser[q].state # "new"
    /\ browser' = [browser EXCEPT ![r] = [state |-> "sent", url |-> url,
                                           redirects |-> @.redirects + (IF @.state = "sent" THEN 1 ELSE 0)]]
    /\ captured' = [captured EXCEPT ![r] = Key("GET", url)]
    /\ Deliver("request", r, Key("GET", url))
    /\ UNCHANGED <<fetching, table, screen>>

\* EventResponseReceived; of a request not seen before only the URL is known.
ResponseReceived(r) ==
    LET key == IF captured[r] = NoKey THEN Key("-", browser[r].url) ELSE captured[r]
    IN  /\ browser[r].state = "sent" /\ Room
        /\ browser' = [browser EXCEPT ![r].state = "answered"]
        /\ captured' = [captured EXCEPT ![r] = key]
        /\ Deliver("response", r, key)
        /\ UNCHANGED <<fetching, table, screen>>

LoadingFailed(r) ==
    /\ browser[r].state \in {"sent", "answered"} /\ Room
    /\ browser' = [browser EXCEPT ![r].state = "over"]
    /\ captured' = [captured EXCEPT ![r] = NoKey]
    /\ Deliver("failure", r, captured[r])
    /\ UNCHANGED <<fetching, table, screen>>

\* EventLoadingFinished starts a goroutine, which notes the time first.
LoadingFinished(r) ==
    /\ browser[r].state = "answered"
    /\ browser' = [browser EXCEPT ![r].state = "over"]
    /\ captured' = [captured EXCEPT ![r] = NoKey]
    /\ clock' = clock + 1
    /\ fetching' = fetching \union {Message("body", r, captured[r], clock + 1)}
    /\ UNCHANGED <<messages, table, screen>>

\* The body has come (or an error in its place).
BodyFetched(m) ==
    /\ Room
    /\ fetching' = fetching \ {m}
    /\ messages' = Append(messages, m)
    /\ UNCHANGED <<browser, captured, clock, table, screen>>

-----------------------------------------------------------------------------
(* The screen, trackerModel.                                               *)

Clamp(x, low, high) == IF x < low THEN low ELSE IF x > high THEN high ELSE x

\* syncScroll: the selected line is among those listed.
syncScroll(s) ==
    LET up == IF s.selected < s.scroll THEN s.selected ELSE s.scroll
        down == IF s.selected >= up + ListHeight THEN s.selected - ListHeight + 1 ELSE up
        last == IF Len(s.shown) > ListHeight THEN Len(s.shown) - ListHeight ELSE 0
    IN  [s EXCEPT !.scroll = IF s.shown = <<>> THEN 0 ELSE IF down > last THEN last ELSE down]

\* syncFocus: remember the key of the selected line; lines count from 0.
syncFocus(s) ==
    IF s.shown = <<>> THEN [s EXCEPT !.focused = NoKey]
    ELSE LET i == Clamp(s.selected, 0, Len(s.shown) - 1)
         IN  syncScroll([s EXCEPT !.selected = i, !.focused = s.shown[i + 1]])

\* syncRows: the selection follows its key, if that is still there.
syncRows(s, t) ==
    LET shown == filteredRows(t, s.filter)
        focused == IF s.focused = NoKey /\ s.selected < Len(s.shown) THEN s.shown[s.selected + 1] ELSE s.focused
        here == [s EXCEPT !.shown = shown, !.focused = focused]
    IN  IF focused \in ToSet(shown)
        THEN syncScroll([here EXCEPT !.selected = (CHOOSE i \in DOMAIN shown : shown[i] = focused) - 1])
        ELSE syncScroll(syncFocus([here EXCEPT !.selected = Clamp(@, 0, IF shown = <<>> THEN 0 ELSE Len(shown) - 1)]))

syncRowsToBottom(s, t) ==
    LET shown == filteredRows(t, s.filter)
    IN  IF shown = <<>> THEN [s EXCEPT !.shown = shown, !.selected = 0, !.focused = NoKey, !.scroll = 0]
        ELSE syncFocus([s EXCEPT !.shown = shown, !.selected = Len(shown) - 1])

\* Update for a network event: in detail the row shown stays, in the list the
\* newest is selected; then the next message is waited for.
HandleMessage ==
    /\ messages # <<>>
    /\ messages' = Tail(messages)
    /\ table' = Upsert(table, Head(messages))
    /\ screen' = IF screen.detail THEN syncRows(screen, table') ELSE syncRowsToBottom(screen, table')
    /\ UNCHANGED <<browser, captured, fetching, clock>>

KeyPress(s) == screen' = s /\ screen' # screen /\ UNCHANGED <<browser, captured, fetching, messages, clock, table>>

MoveTo(i) ==
    /\ ~screen.detail /\ i \in 0 .. Len(screen.shown) - 1
    /\ KeyPress(syncFocus([screen EXCEPT !.selected = i]))

OpenDetail == screen.shown # <<>> /\ KeyPress([screen EXCEPT !.detail = TRUE])
CloseDetail == KeyPress([screen EXCEPT !.detail = FALSE])

Failed(key) == table.rows[table.index[key]].failed

\* moveToNextError: the first after the selected one, round the end.
NextError ==
    LET n == Len(screen.shown)
        offsets == {d \in 1 .. n : Failed(screen.shown[((screen.selected + d) % n) + 1])}
    IN  /\ offsets # {}
        /\ KeyPress(syncFocus([screen EXCEPT !.selected = (@ + (CHOOSE d \in offsets : \A e \in offsets : d <= e)) % n]))

\* Typing in the list's filter, or erasing it.
ChangeFilter(filter) ==
    /\ ~screen.detail
    /\ KeyPress(syncRows([screen EXCEPT !.filter = filter], table))

\* resetConfiguredState.
ResetScreen ==
    LET s == [screen EXCEPT !.filter = ""]
    IN  KeyPress(IF s.detail THEN syncRows(s, table) ELSE syncRowsToBottom(s, table))

TableNext ==
    \/ \E r \in RequestIDs :
          \/ \E url \in Urls : RequestWillBeSent(r, url)
          \/ ResponseReceived(r) \/ LoadingFailed(r) \/ LoadingFinished(r)
    \/ \E m \in fetching : BodyFetched(m)
    \/ HandleMessage \/ OpenDetail \/ CloseDetail \/ NextError \/ ResetScreen
    \/ \E i \in 0 .. RowN : MoveTo(i)
    \/ \E filter \in Urls \union {""} : ChangeFilter(filter)

-----------------------------------------------------------------------------
(* Properties.                                                             *)

\* The index finds every row and nothing else, whatever was pruned in between,
\* and no more rows are kept than allowed.
IndexMatchesRows ==
    /\ Len(table.rows) <= RowN
    /\ DOMAIN table.index = {table.rows[i].key : i \in DOMAIN table.rows}
    /\ \A i \in DOMAIN table.rows : table.index[table.rows[i].key] = i

\* A request is counted once in its row, however many messages it causes and
\* whatever is evicted in between; its ID is forgotten with the row.  (The two rows
\* of a redirected request share its ID: evicting one makes the other count it anew.)
RequestsCountedOnce ==
    /\ \A i \in DOMAIN table.rows :
          LET ids == table.ids[table.rows[i].key]
          IN  (\A r \in ids : browser[r].redirects = 0) => table.rows[i].count = Cardinality(ids)
    /\ DOMAIN table.ids = DOMAIN table.index
    /\ table.seen \subseteq UNION {table.ids[k] : k \in DOMAIN table.ids}

\* The selection names a line that is there and visible, after every message,
\* eviction, filter and key press.
SelectionIsVisible ==
    LET s == screen
    IN  /\ s.shown = filteredRows(table, s.filter)
        /\ IF s.shown = <<>> THEN s.focused = NoKey /\ s.selected = 0
           ELSE /\ s.selected \in 0 .. Len(s.shown) - 1 /\ s.focused = s.shown[s.selected + 1]
                /\ s.scroll <= s.selected /\ s.selected < s.scroll + ListHeight

\* Rows, index, counts and selection agree after every message, eviction and key.
TableIsConsistent == IndexMatchesRows /\ RequestsCountedOnce /\ SelectionIsVisible
=============================================================================
