------------------------------ MODULE LspClient ------------------------------
(***************************************************************************)
(* The language server client of the lsp role (cmd/agent-role/lsp/main.go).*)
(* One program asks a server over its pipes: initialize, the symbols of    *)
(* every file the component tree comes across, shutdown; a reader hands    *)
(* each answer to the request of its ID and answers the server's own       *)
(* requests.  A request waits for 20 seconds; its answer may come later,   *)
(* and the server may die at any time.  Writing has no deadline: to a      *)
(* server that does not read, it returns as long as the pipe has room.     *)
(***************************************************************************)
EXTENDS Integers, Sequences, FiniteSets

CONSTANTS
    Uses,   \* the files in the order the tree needs them, the first being the argument
    AskN    \* bound: requests and notifications of the server

Files == {Uses[i] : i \in DOMAIN Uses}
NoFile == "none"

ASSUME LspAssumption ==
    Uses \in Seq(Files) /\ Uses # <<>> /\ NoFile \notin Files /\ AskN \in Nat

VARIABLES
    step,      \* of run
    at,        \* the use being analyzed
    nextID,
    asking,    \* the request run waits for, or NoRequest
    slot,      \* the channels of requests: the answer in each, or NoAnswer
    pending,   \* IDs in the pending map
    cache,     \* what analyzeFile has cached for a file: the file the symbols are of
    opened,    \* didOpen notifications sent for each file
    failures,  \* symbol requests that failed, for each file
    server,    \* "up" or "gone"
    queued,     \* requests the server has yet to answer
    pipe,      \* its output
    asks,      \* the server's requests: made and not answered
    told,      \* messages of its own the server has sent
    reads      \* the server reads its input

lspVars == <<step, at, nextID, asking, slot, pending, cache, opened, failures, server, queued, pipe, asks, told, reads>>

NoRequest == [id |-> 0, file |-> NoFile]
NoAnswer == [ok |-> FALSE, of |-> "nothing"]
Over == step \in {"done", "failed"}

LspInit ==
    /\ step = "initialize" /\ at = 1 /\ nextID = 1
    /\ asking = NoRequest /\ slot = <<>> /\ pending = {}
    /\ cache = [f \in Files |-> NoFile]
    /\ opened = [f \in Files |-> 0] /\ failures = [f \in Files |-> 0]
    /\ server = "up" /\ queued = {} /\ pipe = <<>> /\ asks = {} /\ told = 0 /\ reads = TRUE

-----------------------------------------------------------------------------
(* run and analyzeFile.                                                    *)

\* request: registers a channel under a new ID, then sends.  What is written to a
\* server that is gone or does not read is lost.
request(file) ==
    LET r == [id |-> nextID, file |-> file]
    IN  /\ nextID' = nextID + 1
        /\ asking' = r
        /\ slot' = Append(slot, NoAnswer) /\ pending' = pending \union {nextID}
        /\ queued' = IF server = "up" /\ reads THEN queued \union {r} ELSE queued

\* initialize and shutdown.
Call ==
    /\ asking = NoRequest /\ step \in {"initialize", "shutdown"}
    /\ request(NoFile)
    /\ UNCHANGED <<step, at, cache, opened, failures, server, pipe, asks, told, reads>>

\* analyzeFile of a file that is not cached opens it and asks for its symbols.
AnalyzeFile ==
    /\ asking = NoRequest /\ step = "analyze" /\ cache[Uses[at]] = NoFile
    /\ opened' = [opened EXCEPT ![Uses[at]] = @ + 1]
    /\ request(Uses[at])
    /\ UNCHANGED <<step, at, cache, failures, server, pipe, asks, told, reads>>

\* The step after this one; the last use is followed by shutdown.
Advance ==
    IF step = "initialize" THEN step' = "analyze" /\ at' = at
    ELSE IF step = "analyze" /\ at < Len(Uses) THEN step' = step /\ at' = at + 1
    ELSE step' = (IF step = "analyze" THEN "shutdown" ELSE "exit") /\ at' = at

AlreadyAnalyzed ==
    /\ asking = NoRequest /\ step = "analyze" /\ cache[Uses[at]] # NoFile
    /\ Advance
    /\ UNCHANGED <<nextID, asking, slot, pending, cache, opened, failures, server, queued, pipe, asks, told, reads>>

Answered ==
    /\ asking # NoRequest /\ slot[asking.id].ok
    /\ cache' = IF step = "analyze" THEN [cache EXCEPT ![asking.file] = slot[asking.id].of] ELSE cache
    /\ asking' = NoRequest /\ Advance
    /\ UNCHANGED <<nextID, slot, pending, opened, failures, server, queued, pipe, asks, told, reads>>

\* An error ends the run, and the deferred kill the server; that of an imported
\* file is passed over by externalExpansionJSON, and nothing is cached.
RequestFails ==
    /\ asking' = NoRequest
    /\ failures' = IF step = "analyze" THEN [failures EXCEPT ![asking.file] = @ + 1] ELSE failures
    /\ IF step = "analyze" /\ at > 1
       THEN Advance /\ UNCHANGED <<server, queued, asks>>
       ELSE step' = "failed" /\ at' = at /\ server' = "gone" /\ queued' = {} /\ asks' = {}
    /\ UNCHANGED <<nextID, slot, pending, cache, opened, pipe, told, reads>>

ErrorResponse ==
    /\ asking # NoRequest /\ slot[asking.id].of = "error"
    /\ RequestFails

\* time.After; the entry in pending stays until an answer comes after all.
TimesOut ==
    /\ asking # NoRequest
    /\ RequestFails

\* The exit notification, the end of the server's input, and cmd.Wait.
Exit ==
    /\ step = "exit"
    /\ step' = "wait"
    /\ UNCHANGED <<at, nextID, asking, slot, pending, cache, opened, failures, server, queued, pipe, asks, told, reads>>

Waited ==
    /\ step = "wait" /\ server = "gone"
    /\ step' = "done"
    /\ UNCHANGED <<at, nextID, asking, slot, pending, cache, opened, failures, server, queued, pipe, asks, told, reads>>

-----------------------------------------------------------------------------
(* readLoop and handleMessage.                                             *)

ServerMessage(kind, id, ok, of) == [kind |-> kind, id |-> id, ok |-> ok, of |-> of]

\* Slip: the answer goes to whatever request is waiting.
ToWhoeverWaits(m) ==
    /\ slot' = IF asking # NoRequest THEN [slot EXCEPT ![asking.id] = [ok |-> m.ok, of |-> m.of]] ELSE slot
    /\ pending' = pending \ {m.id}
    /\ UNCHANGED asks

\* A response goes to the channel of its ID, if that is pending.
ToItsRequest(m) ==
    /\ slot' = IF m.id \in pending THEN [slot EXCEPT ![m.id] = [ok |-> m.ok, of |-> m.of]] ELSE slot
    /\ pending' = pending \ {m.id}
    /\ UNCHANGED asks

\* A message with an ID and a method is the server's request; it is answered at
\* once.  No one waits for notifications.
handleMessage(m) ==
    IF m.kind = "response" THEN ToItsRequest(m)
    ELSE /\ asks' = IF m.kind = "request" THEN asks \ {m.id} ELSE asks
         /\ UNCHANGED <<slot, pending>>

ReadMessage ==
    /\ ~Over /\ pipe # <<>>
    /\ handleMessage(Head(pipe))
    /\ pipe' = Tail(pipe)
    /\ UNCHANGED <<step, at, nextID, asking, cache, opened, failures, server, queued, told, reads>>

-----------------------------------------------------------------------------
(* The server.                                                             *)

ServerAnswers(r, ok) ==
    /\ queued' = queued \ {r}
    /\ pipe' = Append(pipe, ServerMessage("response", r.id, ok, IF ok THEN r.file ELSE "error"))
    /\ UNCHANGED <<step, at, nextID, asking, slot, pending, cache, opened, failures, server, asks, told, reads>>

\* Its IDs are its own and may equal the client's.
ServerTells(kind) ==
    /\ server = "up" /\ told < AskN
    /\ told' = told + 1
    /\ pipe' = Append(pipe, ServerMessage(kind, told + 1, TRUE, NoFile))
    /\ asks' = IF kind = "request" THEN asks \union {told + 1} ELSE asks
    /\ UNCHANGED <<step, at, nextID, asking, slot, pending, cache, opened, failures, server, queued, reads>>

\* It exits when told to, or dies.
ServerGone ==
    /\ server = "up"
    /\ server' = "gone" /\ queued' = {} /\ asks' = {}
    /\ UNCHANGED <<step, at, nextID, asking, slot, pending, cache, opened, failures, pipe, told, reads>>

\* It lives on and never reads again.
ServerStopsReading ==
    /\ server = "up" /\ reads
    /\ reads' = FALSE
    /\ UNCHANGED <<step, at, nextID, asking, slot, pending, cache, opened, failures, server, queued, pipe, asks, told>>

\* A server that is gone makes a write return with an error, one that reads takes it; one that
\* lives and does not read may let it block for ever (send).
WritesReturn == server = "gone" \/ reads

\* What the client does with a write, and without.
ClientWrites == Call \/ AnalyzeFile \/ Exit
ClientStep == AlreadyAnalyzed \/ Answered \/ ErrorResponse \/ Waited

LspNext ==
    \/ ClientWrites \/ ClientStep \/ TimesOut \/ ReadMessage \/ ServerGone \/ ServerStopsReading
    \/ \E r \in queued, ok \in BOOLEAN : ServerAnswers(r, ok)
    \/ \E kind \in {"request", "notification"} : ServerTells(kind)

-----------------------------------------------------------------------------
(* Properties.                                                             *)

\* The symbols cached for a file are its own: an answer that comes after its request
\* gave up is not taken for that of the next file.
SymbolsAreTheFiles == \A f \in Files : cache[f] \in {f, NoFile}

\* A document is opened once, and again only after its symbols could not be had
\* (without a didClose in between, which the server need not accept).
ReopenedAfterFailure ==
    \A f \in Files : opened[f] <= 1 + failures[f] /\ (cache[f] # NoFile => opened[f] = 1 + failures[f])

\* The server never waits for an answer it was denied: a request of its own that is
\* still unanswered is still to be read, whatever its ID.
ServerIsAnswered == \A i \in asks : \E n \in DOMAIN pipe : pipe[n].kind = "request" /\ pipe[n].id = i

\* The program ends, with a server that dies or never answers too, unless the server lives on
\* without reading, when a write may never return.
LspRunEnds == <>Over \/ <>[]~WritesReturn

\* Every message meets the request it is about: answers, late ones too, their own
\* request, requests of the server an answer, and a document its one opening.
MessagesMeetRequests == SymbolsAreTheFiles /\ ReopenedAfterFailure /\ ServerIsAnswered
=============================================================================
