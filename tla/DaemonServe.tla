----------------------------- MODULE DaemonServe -----------------------------
(***************************************************************************)
(* The life of a daemon process: cli/daemon/daemon.go (serve and stop),    *)
(* transport/daemon_lock.go, transport/server.go, the writer's shutdown    *)
(* (persistence/writer.go) and the client that starts a daemon when it     *)
(* finds none (transport/client.go).  Several processes may be started on  *)
(* the same socket, or on the same database; any of them may be killed.    *)
(***************************************************************************)
EXTENDS Naturals, FiniteSets

CONSTANTS
    Daemons,     \* processes running "serve"
    Clients,     \* client processes, each with one request
    Paths,       \* socket paths
    MaxUnsaved,  \* bound: changes waiting in one writer
    Legacy,      \* a daemon older than the shutdown request, holding no lock
    None

ASSUME DaemonAssumption ==
    /\ MaxUnsaved \in Nat \ {0} /\ Paths # {}
    /\ {None, Legacy} \intersect Daemons = {} /\ None \notin Clients \union {Legacy}

VARIABLES
    path,        \* the socket path each daemon was started with
    pc,          \* where each daemon is
    producers,   \* goroutines of each daemon that change persisted state
    serving,     \* requests each server is handling: s.requests
    writer,      \* "off", "open", "closing" or "done"
    unsaved,     \* changes of each daemon the database does not have
    code,        \* exit code in the making
    panicked,    \* daemons whose writer was used after Close began
    daemonLock,  \* holder of <path>.daemon.lock
    dbLock,      \* holder of <db>.lock
    socket,      \* daemon that bound the file at the path
    client,      \* where each client is
    startLock,   \* client holding <path>.start.lock
    applied,     \* how often each client's request took effect
    unanswered,  \* clients one of whose requests was never answered
    stopper,     \* the stop command
    legacy,      \* whether the legacy daemon is "alive" or "dead"
    unlinked     \* stop has removed the socket of a daemon it did not stop

daemonVars == <<path, pc, producers, serving, writer, unsaved, code, panicked>>
lockVars == <<daemonLock, dbLock, socket>>
clientVars == <<client, startLock, applied, unanswered>>
stopVars == <<stopper, legacy, unlinked>>
vars == <<daemonVars, lockVars, clientVars, stopVars>>

\* (the idle announcements' loop changes nothing that is stored)
Loops == {"reconcile", "followups"}
Observers == {"subscriptions", "monitor"}
Running == {"lock", "open", "recover", "prepare", "listen", "serve", "refuse", "drain",
            "join", "observers", "voice", "writer", "release"}

\* A client's two attempts, before and while it waits for the answer.
Sends == <<"idle", "resend">>
Waiting == <<"sent", "resent">>

\* A broken connection reads as a reset, which counts as an unavailable daemon,
\* or as the end of the stream, which does not.
Broken(n) == IF n = 1 THEN {"ensure", "failed"} ELSE {"failed"}

\* The file at a path, and whether a connection to it succeeds.
Listening(p) == pc[p] \in {"serve", "refuse"}
Reachable(f) ==
    \/ socket[f] \in Daemons /\ Listening(socket[f])
    \/ socket[f] = Legacy /\ legacy = "alive"

\* Clients use the first path.
ClientPath == CHOOSE f \in Paths : TRUE

DaemonInit ==
    /\ path \in [Daemons -> Paths]
    /\ pc \in [Daemons -> {"off", "absent"}]
    /\ producers = [d \in Daemons |-> {}]
    /\ serving = [d \in Daemons |-> {}]
    /\ writer = [d \in Daemons |-> "off"]
    /\ unsaved = [d \in Daemons |-> 0]
    /\ code = [d \in Daemons |-> 0]
    /\ panicked = {}
    /\ daemonLock = [f \in Paths |-> None]
    /\ dbLock = None
    /\ legacy \in {"alive", "dead"}
    /\ socket = [f \in Paths |-> IF legacy = "alive" /\ f = ClientPath THEN Legacy ELSE None]
    /\ unlinked = FALSE
    /\ client \in [Clients -> {"idle", "absent"}]
    /\ startLock = None
    /\ applied = [c \in Clients |-> 0]
    /\ unanswered = {}
    /\ stopper = "idle"

-----------------------------------------------------------------------------
(* Starting up.                                                            *)

Spawn(d) ==
    /\ pc[d] = "off"
    /\ pc' = [pc EXCEPT ![d] = "lock"]

\* A daemon started by hand.
StartByHand(d) ==
    /\ Spawn(d)
    /\ UNCHANGED <<path, producers, serving, writer, unsaved, code, panicked, lockVars, clientVars, stopVars>>

\* Slip: the lock is shared.
ShareDaemonLock(d) ==
    /\ pc[d] = "lock"
    /\ daemonLock' = [daemonLock EXCEPT ![path[d]] = d]
    /\ pc' = [pc EXCEPT ![d] = "open"]
    /\ UNCHANGED <<path, producers, serving, writer, unsaved, code, panicked, dbLock, socket, clientVars, stopVars>>

AcquireDaemonLock(d) ==
    /\ pc[d] = "lock"
    /\ IF daemonLock[path[d]] = None
       THEN /\ daemonLock' = [daemonLock EXCEPT ![path[d]] = d]
            /\ pc' = [pc EXCEPT ![d] = "open"]
            /\ UNCHANGED code
       ELSE /\ pc' = [pc EXCEPT ![d] = "exited"]
            /\ code' = [code EXCEPT ![d] = 1]
            /\ UNCHANGED daemonLock
    /\ UNCHANGED <<path, producers, serving, writer, unsaved, panicked, dbLock, socket, clientVars, stopVars>>

\* Open: the database lock, then the database.
OpenWriter(d) ==
    /\ pc[d] = "open"
    /\ \/ /\ dbLock = None
          /\ dbLock' = d
          /\ writer' = [writer EXCEPT ![d] = "open"]
          /\ pc' = [pc EXCEPT ![d] = "recover"]
          /\ producers' = [producers EXCEPT ![d] = Observers]
          /\ UNCHANGED code
       \/ /\ dbLock # None
          /\ pc' = [pc EXCEPT ![d] = "release"]
          /\ code' = [code EXCEPT ![d] = 1]
          /\ UNCHANGED <<dbLock, writer, producers>>
    /\ UNCHANGED <<path, serving, unsaved, panicked, daemonLock, socket, clientVars, stopVars>>

\* RestoreMonitoring and Recover start observations; either may fail, and the
\* deferred calls then run without a server ever having listened.
Recover(d) ==
    /\ pc[d] = "recover"
    /\ \/ /\ pc' = [pc EXCEPT ![d] = "prepare"]
          /\ producers' = [producers EXCEPT ![d] = @ \union Loops]
          /\ UNCHANGED code
       \/ /\ pc' = [pc EXCEPT ![d] = "observers"]
          /\ code' = [code EXCEPT ![d] = 1]
          /\ UNCHANGED producers
    /\ UNCHANGED <<path, serving, writer, unsaved, panicked, lockVars, clientVars, stopVars>>

\* prepareSocket: a socket nobody listens on is removed, any other is left alone.
PrepareSocket(d) ==
    /\ pc[d] = "prepare"
    /\ IF Reachable(path[d])
       THEN /\ pc' = [pc EXCEPT ![d] = "join"]
            /\ code' = [code EXCEPT ![d] = 1]
            /\ UNCHANGED socket
       ELSE /\ socket' = [socket EXCEPT ![path[d]] = None]
            /\ pc' = [pc EXCEPT ![d] = "listen"]
            /\ UNCHANGED code
    /\ UNCHANGED <<path, producers, serving, writer, unsaved, panicked, daemonLock, dbLock, clientVars, stopVars>>

Listen(d) ==
    /\ pc[d] = "listen"
    /\ IF socket[path[d]] = None
       THEN /\ socket' = [socket EXCEPT ![path[d]] = d]
            /\ pc' = [pc EXCEPT ![d] = "serve"]
            /\ UNCHANGED code
       ELSE /\ pc' = [pc EXCEPT ![d] = "join"]
            /\ code' = [code EXCEPT ![d] = 1]
            /\ UNCHANGED socket
    /\ UNCHANGED <<path, producers, serving, writer, unsaved, panicked, daemonLock, dbLock, clientVars, stopVars>>

-----------------------------------------------------------------------------
(* The writer.                                                             *)

\* Enqueue: one more change of d, or a panic once Close has begun.
Enqueued(d) ==
    IF writer[d] \in {"closing", "done"}
    THEN panicked' = panicked \union {d} /\ UNCHANGED unsaved
    ELSE unsaved' = [unsaved EXCEPT ![d] = @ + 1] /\ UNCHANGED panicked

\* A background goroutine, or the recovery, changes state.
Produce(d) ==
    /\ producers[d] # {} \/ pc[d] = "recover"
    /\ unsaved[d] < MaxUnsaved
    /\ Enqueued(d)
    /\ UNCHANGED <<path, pc, producers, serving, writer, code, lockVars, clientVars, stopVars>>

\* run commits a batch; a failed commit is retried and changes nothing.
Commit(d) ==
    /\ writer[d] \in {"open", "closing"} /\ unsaved[d] > 0
    /\ unsaved' = [unsaved EXCEPT ![d] = 0]
    /\ UNCHANGED <<path, pc, producers, serving, writer, code, panicked, lockVars, clientVars, stopVars>>

-----------------------------------------------------------------------------
(* Serving.                                                                *)

\* ServeHTTP admits a request unless the server is stopping.
Admits(d) == IF d = Legacy THEN TRUE ELSE pc[d] = "serve"

\* The answer to attempt n reaches the client if it still waits for it.
Answered(c, n, result) ==
    client' = IF client[c] = Waiting[n] THEN [client EXCEPT ![c] = result] ELSE client

\* A handler changes state and answers; requests.Done follows.
Handle(d, c, n) ==
    /\ <<c, n>> \in serving[d] /\ unsaved[d] < MaxUnsaved
    /\ Enqueued(d)
    /\ applied' = [applied EXCEPT ![c] = @ + 1]
    /\ serving' = [serving EXCEPT ![d] = @ \ {<<c, n>>}]
    /\ Answered(c, n, "ok")
    /\ UNCHANGED <<path, pc, producers, writer, code, lockVars, startLock, unanswered, stopVars>>

\* A handler whose context is done, or that refuses the request, changes nothing.
HandlerFails(d, c, n) ==
    /\ <<c, n>> \in serving[d]
    /\ serving' = [serving EXCEPT ![d] = @ \ {<<c, n>>}]
    /\ Answered(c, n, "failed")
    /\ UNCHANGED <<path, pc, producers, writer, unsaved, code, panicked, lockVars, startLock, applied, unanswered, stopVars>>

-----------------------------------------------------------------------------
(* Shutting down.                                                          *)

\* stop begins: from now on ServeHTTP refuses.
BeginStop(d) ==
    /\ pc[d] = "serve"
    /\ pc' = [pc EXCEPT ![d] = "refuse"]

\* Shutdown closes the listener, and closing a Unix listener unlinks its path.
CloseListener(d) ==
    /\ pc[d] = "refuse"
    /\ pc' = [pc EXCEPT ![d] = "drain"]
    /\ socket' = [socket EXCEPT ![path[d]] = None]
    /\ UNCHANGED <<path, producers, serving, writer, unsaved, code, panicked, daemonLock, dbLock, clientVars, stopVars>>

\* After five seconds the connections are closed under the handlers; their
\* clients see the end of the stream or a reset.
CloseConnections(d) ==
    /\ pc[d] = "drain" /\ serving[d] # {}
    /\ \E r \in serving[d] :
          /\ client[r[1]] = Waiting[r[2]]
          /\ \E result \in Broken(r[2]) : client' = [client EXCEPT ![r[1]] = result]
          /\ unanswered' = unanswered \union {r[1]}
    /\ UNCHANGED <<daemonVars, lockVars, startLock, applied, stopVars>>

\* requests.Wait, and the deferred removal of the path.
RequestsDone(d) ==
    /\ pc[d] = "drain" /\ serving[d] = {}
    /\ pc' = [pc EXCEPT ![d] = "join"]
    /\ socket' = [socket EXCEPT ![path[d]] = None]
    /\ UNCHANGED <<path, producers, serving, writer, unsaved, code, panicked, daemonLock, dbLock, clientVars, stopVars>>

\* A loop sees its context done, after the step it may be in.
LoopEnds(d, l) ==
    /\ pc[d] = "join" /\ l \in producers[d]
    /\ producers' = [producers EXCEPT ![d] = @ \ {l}]
    /\ UNCHANGED <<path, pc, serving, writer, unsaved, code, panicked, lockVars, clientVars, stopVars>>

\* Slip: everything is joined, the observers too, which have not been stopped.
JoinEverything(d) ==
    /\ pc[d] = "join" /\ producers[d] = {}
    /\ pc' = [pc EXCEPT ![d] = "observers"]
    /\ UNCHANGED <<path, producers, serving, writer, unsaved, code, panicked, lockVars, clientVars, stopVars>>

LoopsJoined(d) ==
    /\ pc[d] = "join" /\ producers[d] \intersect Loops = {}
    /\ pc' = [pc EXCEPT ![d] = "observers"]
    /\ UNCHANGED <<path, producers, serving, writer, unsaved, code, panicked, lockVars, clientVars, stopVars>>

\* Slip: subscriptions are cancelled and not joined.
CancelObservations(d) ==
    /\ pc[d] = "observers"
    /\ pc' = [pc EXCEPT ![d] = "voice"]
    /\ UNCHANGED <<path, producers, serving, writer, unsaved, code, panicked, lockVars, clientVars, stopVars>>

\* bundle.stop: subs.Close joins every reader, monitor.Close takes the lock
\* every timer needs and leaves it nothing to update.
StopObservations(d) ==
    /\ pc[d] = "observers"
    /\ producers' = [producers EXCEPT ![d] = {}]
    /\ pc' = [pc EXCEPT ![d] = "voice"]
    /\ UNCHANGED <<path, serving, writer, unsaved, code, panicked, lockVars, clientVars, stopVars>>

\* voiceService.Close, then writer.Close is entered.
CloseVoiceService(d) ==
    /\ pc[d] = "voice"
    /\ pc' = [pc EXCEPT ![d] = "writer"]
    /\ writer' = [writer EXCEPT ![d] = "closing"]
    /\ UNCHANGED <<path, producers, serving, unsaved, code, panicked, lockVars, clientVars, stopVars>>

\* writer.Close returns: drained, or after ten seconds with changes unsaved,
\* which makes the exit code 1.  The database lock is released last.
CloseWriter(d) ==
    /\ pc[d] = "writer"
    /\ code' = [code EXCEPT ![d] = IF unsaved[d] = 0 THEN @ ELSE 1]
    /\ dbLock' = None
    /\ writer' = [writer EXCEPT ![d] = "done"]
    /\ pc' = [pc EXCEPT ![d] = "release"]
    /\ UNCHANGED <<path, producers, serving, unsaved, panicked, daemonLock, socket, clientVars, stopVars>>

ReleaseDaemonLock(d) ==
    /\ pc[d] = "release"
    /\ daemonLock' = [daemonLock EXCEPT ![path[d]] = None]
    /\ pc' = [pc EXCEPT ![d] = "exited"]
    /\ UNCHANGED <<path, producers, serving, writer, unsaved, code, panicked, dbLock, socket, clientVars, stopVars>>

\* Killed: the system releases the locks and leaves the socket behind.
Crash(d) ==
    /\ pc[d] \in Running
    /\ pc' = [pc EXCEPT ![d] = "killed"]
    /\ producers' = [producers EXCEPT ![d] = {}]
    /\ serving' = [serving EXCEPT ![d] = {}]
    /\ writer' = [writer EXCEPT ![d] = "done"]
    /\ daemonLock' = [f \in Paths |-> IF daemonLock[f] = d THEN None ELSE daemonLock[f]]
    /\ dbLock' = IF dbLock = d THEN None ELSE dbLock
    /\ LET cut == {r \in serving[d] : client[r[1]] = Waiting[r[2]]}
       IN  /\ \E result \in Broken(1) :
                 client' = [c \in Clients |-> IF <<c, 1>> \in cut THEN result
                                              ELSE IF <<c, 2>> \in cut THEN "failed" ELSE client[c]]
           /\ unanswered' = unanswered \union {r[1] : r \in cut}
    /\ UNCHANGED <<path, unsaved, code, panicked, socket, startLock, applied, stopVars>>

-----------------------------------------------------------------------------
(* A client with auto-start.                                               *)

\* A legacy daemon answers ordinary requests too.
LegacyServes == socket[ClientPath] = Legacy /\ legacy = "alive"

SendToLegacy(c, n) ==
    /\ client[c] = Sends[n] /\ LegacyServes
    /\ client' = [client EXCEPT ![c] = "ok"]
    /\ applied' = [applied EXCEPT ![c] = @ + 1]
    /\ UNCHANGED <<daemonVars, lockVars, startLock, unanswered, stopVars>>

\* do: attempt n.  A stopping server refuses, and a missing or dead socket
\* sends the first attempt off to start a daemon.
Send(c, n) ==
    /\ client[c] = Sends[n] /\ ~LegacyServes
    /\ IF ~Reachable(ClientPath)
       THEN client' = [client EXCEPT ![c] = IF n = 1 THEN "ensure" ELSE "failed"] /\ UNCHANGED serving
       ELSE IF ~Admits(socket[ClientPath])
       THEN client' = [client EXCEPT ![c] = "failed"] /\ UNCHANGED serving
       ELSE /\ client' = [client EXCEPT ![c] = Waiting[n]]
            /\ serving' = [serving EXCEPT ![socket[ClientPath]] = @ \union {<<c, n>>}]
    /\ UNCHANGED <<path, pc, producers, writer, unsaved, code, panicked, lockVars, startLock, applied, unanswered, stopVars>>

\* The client's own timeout: an error isDaemonUnavailableError also accepts.
ClientTimesOut(c, n) ==
    /\ client[c] = Waiting[n]
    /\ client' = [client EXCEPT ![c] = IF n = 1 THEN "ensure" ELSE "failed"]
    /\ unanswered' = unanswered \union {c}
    /\ UNCHANGED <<daemonVars, lockVars, startLock, applied, stopVars>>

\* ensureDaemon under the start lock: nothing to do if a daemon is healthy by now.
EnsureDaemon(c) ==
    /\ client[c] = "ensure" /\ startLock = None
    /\ IF Reachable(ClientPath) /\ Admits(socket[ClientPath])
       THEN client' = [client EXCEPT ![c] = "resend"] /\ UNCHANGED <<startLock, pc>>
       ELSE /\ startLock' = c
            /\ client' = [client EXCEPT ![c] = "starting"]
            /\ \/ \E d \in Daemons : path[d] = ClientPath /\ Spawn(d)
               \/ UNCHANGED pc
    /\ UNCHANGED <<path, producers, serving, writer, unsaved, code, panicked, lockVars, applied, unanswered, stopVars>>

\* startDaemonAndWait polls the health endpoint until its deadline.
DaemonReady(c) ==
    /\ client[c] = "starting" /\ Reachable(ClientPath) /\ Admits(socket[ClientPath])
    /\ client' = [client EXCEPT ![c] = "resend"]
    /\ startLock' = None
    /\ UNCHANGED <<daemonVars, lockVars, applied, unanswered, stopVars>>

StartTimesOut(c) ==
    /\ client[c] = "starting"
    /\ client' = [client EXCEPT ![c] = "failed"]
    /\ startLock' = None
    /\ UNCHANGED <<daemonVars, lockVars, applied, unanswered, stopVars>>

-----------------------------------------------------------------------------
(* The stop command.                                                       *)

\* runStop: no file, nothing to stop; no answer, an error; otherwise wait for
\* the file to disappear.
Stop ==
    /\ stopper = "idle"
    /\ IF socket[ClientPath] = None
       THEN stopper' = "not running" /\ UNCHANGED pc
       ELSE IF ~Reachable(ClientPath) \/ ~Admits(socket[ClientPath])
       THEN stopper' = "failed" /\ UNCHANGED pc
       ELSE /\ stopper' = IF socket[ClientPath] = Legacy THEN "signalled" ELSE "waiting"
            /\ IF socket[ClientPath] = Legacy THEN UNCHANGED pc ELSE BeginStop(socket[ClientPath])
    /\ UNCHANGED <<path, producers, serving, writer, unsaved, code, panicked, lockVars, clientVars, legacy, unlinked>>

\* The legacy daemon is interrupted: it may or may not remove its socket.
LegacyDies ==
    /\ stopper = "signalled" /\ legacy = "alive"
    /\ legacy' = "dead"
    /\ \/ socket' = [f \in Paths |-> IF socket[f] = Legacy THEN None ELSE socket[f]]
       \/ UNCHANGED socket
    /\ UNCHANGED <<daemonVars, daemonLock, dbLock, clientVars, stopper, unlinked>>

\* stopLegacyDaemonProcess sees that the process is gone, at a later poll, and
\* removes whatever is at the path by then.
RemoveLegacySocket ==
    /\ stopper = "signalled" /\ legacy = "dead"
    /\ unlinked' = (socket[ClientPath] \in Daemons)
    /\ socket' = [socket EXCEPT ![ClientPath] = None]
    /\ stopper' = "waiting"
    /\ UNCHANGED <<daemonVars, daemonLock, dbLock, clientVars, legacy>>

StopSeen ==
    /\ stopper = "waiting" /\ socket[ClientPath] = None
    /\ stopper' = "stopped"
    /\ UNCHANGED <<daemonVars, lockVars, clientVars, legacy, unlinked>>

StopTimesOut ==
    /\ stopper \in {"signalled", "waiting"}
    /\ stopper' = "failed"
    /\ UNCHANGED <<daemonVars, lockVars, clientVars, legacy, unlinked>>

\* The context of RunContext is cancelled by its caller, or Serve fails by itself.
ServeEnds(d) ==
    /\ BeginStop(d)
    /\ \E result \in {0, 1} : code' = [code EXCEPT ![d] = result]
    /\ UNCHANGED <<path, producers, serving, writer, unsaved, panicked, lockVars, clientVars, stopVars>>

DaemonStep(d) ==
    \/ AcquireDaemonLock(d) \/ OpenWriter(d) \/ Recover(d) \/ PrepareSocket(d) \/ Listen(d)
    \/ CloseListener(d) \/ RequestsDone(d) \/ LoopsJoined(d) \/ StopObservations(d)
    \/ CloseVoiceService(d) \/ CloseWriter(d) \/ ReleaseDaemonLock(d)
    \/ \E l \in Loops : LoopEnds(d, l)

HandlerStep(d) == \E c \in Clients, n \in 1 .. 2 : Handle(d, c, n) \/ HandlerFails(d, c, n)

ClientStep(c) ==
    \/ EnsureDaemon(c) \/ DaemonReady(c) \/ StartTimesOut(c)
    \/ \E n \in 1 .. 2 : Send(c, n) \/ SendToLegacy(c, n) \/ ClientTimesOut(c, n)

DaemonNext ==
    \/ \E d \in Daemons :
          DaemonStep(d) \/ HandlerStep(d) \/ StartByHand(d) \/ Produce(d) \/ Commit(d)
          \/ CloseConnections(d) \/ ServeEnds(d) \/ Crash(d)
    \/ \E c \in Clients : ClientStep(c)
    \/ Stop \/ LegacyDies \/ RemoveLegacySocket \/ StopSeen \/ StopTimesOut

\* Go code runs on; handlers and clients end because their contexts time out.
DaemonFairness ==
    /\ \A d \in Daemons : WF_vars(DaemonStep(d)) /\ WF_vars(HandlerStep(d))
    /\ \A c \in Clients : WF_vars(\E n \in 1 .. 2 : ClientTimesOut(c, n))
                          /\ WF_vars(StartTimesOut(c)) /\ WF_vars(EnsureDaemon(c)) /\ WF_vars(Send(c, 2) \/ SendToLegacy(c, 2))

-----------------------------------------------------------------------------
(* Properties.                                                             *)

\* Enqueue is never called once Close has begun: every request, loop, reader and
\* timer is joined before (the panic of writer.go cannot happen).
NoEnqueueAfterClose == panicked = {}

\* Two processes never have the same database open, nor listen at one path, and a
\* daemon that serves is the one its path leads to: no start or shutdown of
\* another process takes the socket away, except the stop of a legacy daemon,
\* which removes the path without looking.
OwnSocketAndDatabase ==
    /\ \A d, e \in Daemons : writer[d] \in {"open", "closing"} /\ writer[e] \in {"open", "closing"} => d = e
    /\ \A d \in Daemons : Listening(d) => daemonLock[path[d]] = d /\ (socket[path[d]] = d \/ unlinked)

\* A daemon that exits with code 0 has saved every change.
CleanExitSaved ==
    \A d \in Daemons : pc[d] = "exited" /\ code[d] = 0 => unsaved[d] = 0

\* A daemon told to stop exits or is killed, whoever is connected and whether or
\* not the database can be written.
StopCompletes ==
    \A d \in Daemons : pc[d] = "refuse" ~> pc[d] \in {"exited", "killed"}

\* Every request a client sends ends, with a result or an error.
RequestEnds ==
    \A c \in Clients : client[c] = "sent" ~> client[c] \in {"ok", "failed"}

\* A client that is told its request succeeded had it take effect, and it took
\* effect twice only after an answer was lost.
RequestOutcome ==
    \A c \in Clients :
       /\ client[c] = "ok" => applied[c] >= 1
       /\ applied[c] <= IF c \in unanswered THEN 2 ELSE 1

\* What a daemon says holds, through crashes, retries and a shutdown at any point:
\* an exit without error lost no change, no change came too late for the writer, and
\* no request is answered that was not carried out.
PromisesAreKept == NoEnqueueAfterClose /\ CleanExitSaved /\ RequestOutcome

\* Stopping and asking both come to an end: no stage of the shutdown waits for one
\* that comes after it, and no client for one that holds the start lock.
StopsAndRequestsEnd == StopCompletes /\ RequestEnds
=============================================================================
