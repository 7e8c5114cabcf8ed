-------------------------- MODULE DaemonServeProofs --------------------------
(***************************************************************************)
(* One daemon per socket and database, and promises kept through a         *)
(* shutdown, a crash or a retry at any point: the proofs about DaemonServe *)
(* (cli/daemon/daemon.go, transport, persistence/writer.go).               *)
(***************************************************************************)
EXTENDS DaemonServe, TLAPS

DaemonSpec == DaemonInit /\ [][DaemonNext]_vars

Request == Clients \X (1 .. 2)
ClientState == {"idle", "absent", "sent", "ensure", "starting", "resend", "resent", "ok", "failed"}
PcState == Running \union {"off", "absent", "exited", "killed"}
Producer == Loops \union Observers
Codes == {0, 1}

\* Every variable keeps its type.
DaemonTypeOK ==
    /\ path \in [Daemons -> Paths]
    /\ pc \in [Daemons -> PcState]
    /\ producers \in [Daemons -> SUBSET Producer]
    /\ serving \in [Daemons -> SUBSET Request]
    /\ writer \in [Daemons -> {"off", "open", "closing", "done"}]
    /\ unsaved \in [Daemons -> Nat] /\ code \in [Daemons -> Codes]
    /\ daemonLock \in [Paths -> Daemons \union {None}]
    /\ dbLock \in Daemons \union {None}
    /\ socket \in [Paths -> Daemons \union {None, Legacy}]
    /\ client \in [Clients -> ClientState]
    /\ applied \in [Clients -> Nat]
    /\ unanswered \subseteq Clients
    /\ stopper \in {"idle", "not running", "failed", "signalled", "waiting", "stopped"}
    /\ legacy \in {"alive", "dead"} /\ unlinked \in BOOLEAN

\* The stages in which a daemon's writer is open.
OpenStage == {"recover", "prepare", "listen", "serve", "refuse", "drain", "join", "observers", "voice"}

\* What a daemon has at each stage: its path's lock from AcquireDaemonLock on, the
\* database with its lock while the writer is open, and the socket while it listens,
\* unless stop removed it with the path of a legacy daemon.  Whatever enqueues has
\* ended before the writer is closed, and from then on a code of 0 says that nothing
\* is unsaved.
StageOK(d) ==
    /\ pc[d] \in OpenStage \union {"open", "writer", "release"} => daemonLock[path[d]] = d
    /\ pc[d] \in OpenStage => writer[d] = "open"
    /\ pc[d] = "writer" => writer[d] = "closing"
    /\ pc[d] \notin OpenStage \union {"writer"} => writer[d] \in {"off", "done"}
    /\ writer[d] \in {"open", "closing"} => dbLock = d
    /\ producers[d] # {} => pc[d] \in OpenStage \ {"voice"}
    /\ serving[d] # {} => pc[d] \in {"serve", "refuse", "drain"}
    /\ pc[d] \in {"release", "exited"} /\ code[d] = 0 => unsaved[d] = 0
    /\ Listening(d) => socket[path[d]] = d \/ unlinked

\* Stop removes the path of a legacy daemon once.
UnlinkedOnce == unlinked => stopper \notin {"idle", "signalled"}

\* Attempt n of c is being handled somewhere.
Flying(c, n) == \E d \in Daemons : <<c, n>> \in serving[d]

\* No attempt is handled by two daemons.
OneServer ==
    \A d, e \in Daemons, r \in Request : r \in serving[d] /\ r \in serving[e] => d = e

\* What has become of the attempts of c: how often they were applied, and may still
\* be, for every state of the client.
Accounted(c) ==
    /\ client[c] \in {"idle", "absent"} => /\ applied[c] = 0 /\ c \notin unanswered
                                           /\ ~Flying(c, 1) /\ ~Flying(c, 2)
    /\ c \notin unanswered => /\ applied[c] <= 1 /\ (applied[c] = 1 => client[c] = "ok")
                              /\ (Flying(c, 1) => client[c] = "sent")
                              /\ (Flying(c, 2) => client[c] = "resent")
    /\ client[c] \in {"sent", "ensure", "starting", "resend", "resent"} =>
          applied[c] <= 1 /\ (Flying(c, 1) => applied[c] = 0)
    /\ client[c] \in {"sent", "ensure", "starting", "resend"} => ~Flying(c, 2)
    /\ applied[c] <= 2
    /\ Flying(c, 1) \/ Flying(c, 2) => applied[c] <= 1
    /\ Flying(c, 1) /\ Flying(c, 2) => applied[c] = 0
    /\ client[c] = "ok" => applied[c] >= 1

\* The inductive invariant.
DaemonInv ==
    /\ DaemonTypeOK /\ (\A d \in Daemons : StageOK(d))
    /\ NoEnqueueAfterClose /\ UnlinkedOnce
    /\ OneServer /\ (\A c \in Clients : Accounted(c))

LEMMA DaemonInitInv ==
    ASSUME DaemonInit, DaemonAssumption
    PROVE  DaemonInv
<1>1. ClientPath \in Paths
  BY DEF DaemonAssumption, ClientPath
<1>2. DaemonTypeOK
  BY DEF DaemonInit, DaemonTypeOK, PcState, ClientState, Codes
<1>3. (\A d \in Daemons : StageOK(d)) /\ NoEnqueueAfterClose /\ UnlinkedOnce
  BY DEF DaemonInit, StageOK, Listening, OpenStage, NoEnqueueAfterClose, UnlinkedOnce
<1>4. OneServer /\ \A c \in Clients : Accounted(c)
  BY DEF DaemonInit, OneServer, Accounted, Flying, ClientState
<1> QED BY <1>2, <1>3, <1>4 DEF DaemonInv

\* A step that no request notices keeps their accounts.
LEMMA RequestsKept ==
    ASSUME OneServer, \A c \in Clients : Accounted(c),
           UNCHANGED <<serving, client, applied, unanswered>>
    PROVE  OneServer' /\ \A c \in Clients : Accounted(c)'
  BY DEF OneServer, Accounted, Flying

\* The daemon e takes no part in a step, and nobody takes from it what it holds.
Untouched(e) ==
    /\ pc'[e] = pc[e] /\ path'[e] = path[e] /\ producers'[e] = producers[e]
    /\ serving'[e] = serving[e] /\ writer'[e] = writer[e]
    /\ unsaved'[e] = unsaved[e] /\ code'[e] = code[e]
    /\ daemonLock[path[e]] = e => daemonLock'[path[e]] = e
    /\ dbLock = e => dbLock' = e
    /\ pc[e] \in {"serve", "refuse"} /\ socket[path[e]] = e => socket'[path[e]] = e \/ unlinked'
    /\ unlinked => unlinked'

LEMMA UntouchedStays ==
    ASSUME NEW e \in Daemons, StageOK(e), Untouched(e)
    PROVE  StageOK(e)'
  BY DEF StageOK, Untouched, Listening

\* The names of the stages, and of what runs in them.
LEMMA Names ==
    /\ {"lock", "open", "recover", "prepare", "listen", "serve", "refuse", "drain", "join",
        "observers", "voice", "writer", "release", "off", "absent", "exited", "killed"}
          \subseteq PcState
    /\ Loops \subseteq Producer /\ Observers \subseteq Producer
    /\ 0 \in Codes /\ 1 \in Codes
  BY DEF PcState, Running, Producer, Codes

\* A step of the daemon d alone, which no request notices, keeps the invariant if it
\* leaves d as its stage demands and takes nothing from the others.
LEMMA DaemonMoves ==
    ASSUME DaemonInv, NEW d \in Daemons, DaemonTypeOK', StageOK(d)',
           UNCHANGED <<serving, client, applied, unanswered, stopper, unlinked, panicked>>,
           \A e \in Daemons \ {d} : Untouched(e)
    PROVE  DaemonInv'
<1>1. OneServer' /\ \A c \in Clients : Accounted(c)'
  BY RequestsKept DEF DaemonInv
<1>2. \A e \in Daemons : StageOK(e)'
  BY UntouchedStays DEF DaemonInv
<1>3. NoEnqueueAfterClose' /\ UnlinkedOnce'
  BY DEF DaemonInv, NoEnqueueAfterClose, UnlinkedOnce
<1> QED BY <1>1, <1>2, <1>3 DEF DaemonInv

\* The life of one daemon, but for its requests and its death.
LEMMA StageInv ==
    ASSUME DaemonInv, DaemonAssumption, NEW d \in Daemons,
           \/ StartByHand(d) \/ AcquireDaemonLock(d) \/ OpenWriter(d)
           \/ Recover(d) \/ PrepareSocket(d) \/ Listen(d)
           \/ CloseListener(d) \/ RequestsDone(d) \/ LoopsJoined(d)
           \/ StopObservations(d) \/ CloseVoiceService(d) \/ CloseWriter(d)
           \/ ReleaseDaemonLock(d) \/ Produce(d) \/ Commit(d)
           \/ ServeEnds(d) \/ \E l \in Loops : LoopEnds(d, l)
    PROVE  DaemonInv'
<1>d. DaemonTypeOK /\ StageOK(d) /\ \A e \in Daemons : StageOK(e)
  BY DEF DaemonInv
<1>h. /\ (pc[d] \in {"prepare", "listen", "refuse", "drain", "release"} => daemonLock[path[d]] = d)
      /\ (pc[d] = "writer" => dbLock = d)
      /\ \A e \in Daemons : pc[e] \in {"serve", "refuse"} => daemonLock[path[e]] = e
  BY <1>d DEF StageOK, OpenStage
<1> USE DEF lockVars, clientVars, stopVars
<1>1. CASE StartByHand(d)
  <2>1. /\ pc[d] = "off"
        /\ pc' = [pc EXCEPT ![d] = "lock"]
        /\ UNCHANGED <<producers, writer, unsaved, code, daemonLock, dbLock, socket, legacy>>
        /\ UNCHANGED <<serving, client, applied, unanswered, stopper, unlinked, path, panicked>>
    BY <1>1 DEF StartByHand, Spawn
  <2>2. DaemonTypeOK'
    BY <1>d, <2>1, Names DEF DaemonTypeOK
  <2>3. pc'[d] = "lock"
    BY <1>d, <2>1 DEF DaemonTypeOK
  <2>4. StageOK(d)'
    BY <1>d, <2>1, <2>3 DEF StageOK, OpenStage, Listening
  <2>5. \A e \in Daemons \ {d} : Untouched(e)
    BY <1>d, <2>1 DEF DaemonTypeOK, Untouched
  <2> QED BY <2>1, <2>2, <2>4, <2>5, DaemonMoves
<1>2. CASE AcquireDaemonLock(d) /\ daemonLock[path[d]] = None
  <2>1. /\ pc[d] = "lock" /\ daemonLock[path[d]] = None
        /\ pc' = [pc EXCEPT ![d] = "open"]
        /\ daemonLock' = [daemonLock EXCEPT ![path[d]] = d]
        /\ UNCHANGED <<producers, writer, unsaved, code, dbLock, socket, legacy>>
        /\ UNCHANGED <<serving, client, applied, unanswered, stopper, unlinked, path, panicked>>
    BY <1>2 DEF AcquireDaemonLock
  <2>2. DaemonTypeOK'
    BY <1>d, <2>1, Names DEF DaemonTypeOK
  <2>3. pc'[d] = "open" /\ daemonLock'[path[d]] = d
    BY <1>d, <2>1 DEF DaemonTypeOK
  <2>4. StageOK(d)'
    BY <1>d, <2>1, <2>3 DEF StageOK, OpenStage, Listening
  <2>5. \A e \in Daemons \ {d} : Untouched(e)
    BY <1>d, <1>h, <2>1 DEF DaemonTypeOK, DaemonAssumption, Untouched
  <2> QED BY <2>1, <2>2, <2>4, <2>5, DaemonMoves
<1>3. CASE AcquireDaemonLock(d) /\ daemonLock[path[d]] # None
  <2>1. /\ pc[d] = "lock"
        /\ pc' = [pc EXCEPT ![d] = "exited"]
        /\ code' = [code EXCEPT ![d] = 1]
        /\ UNCHANGED <<producers, writer, unsaved, daemonLock, dbLock, socket, legacy>>
        /\ UNCHANGED <<serving, client, applied, unanswered, stopper, unlinked, path, panicked>>
    BY <1>3 DEF AcquireDaemonLock
  <2>2. DaemonTypeOK'
    BY <1>d, <2>1, Names DEF DaemonTypeOK
  <2>3. pc'[d] = "exited" /\ code'[d] = 1
    BY <1>d, <2>1 DEF DaemonTypeOK
  <2>4. StageOK(d)'
    BY <1>d, <2>1, <2>3 DEF StageOK, OpenStage, Listening
  <2>5. \A e \in Daemons \ {d} : Untouched(e)
    BY <1>d, <2>1 DEF DaemonTypeOK, Untouched
  <2> QED BY <2>1, <2>2, <2>4, <2>5, DaemonMoves
<1>4. CASE OpenWriter(d) /\ dbLock = None
  <2>1. /\ pc[d] = "open" /\ dbLock = None
        /\ pc' = [pc EXCEPT ![d] = "recover"]
        /\ writer' = [writer EXCEPT ![d] = "open"]
        /\ producers' = [producers EXCEPT ![d] = Observers]
        /\ dbLock' = d
        /\ UNCHANGED <<unsaved, code, daemonLock, socket, legacy>>
        /\ UNCHANGED <<serving, client, applied, unanswered, stopper, unlinked, path, panicked>>
    BY <1>4 DEF OpenWriter
  <2>2. DaemonTypeOK'
    BY <1>d, <2>1, Names DEF DaemonTypeOK
  <2>3. pc'[d] = "recover" /\ writer'[d] = "open" /\ producers'[d] = Observers
    BY <1>d, <2>1 DEF DaemonTypeOK
  <2>4. StageOK(d)'
    BY <1>d, <2>1, <2>3 DEF StageOK, OpenStage, Listening
  <2>5. \A e \in Daemons \ {d} : Untouched(e)
    BY <1>d, <1>h, <2>1 DEF DaemonTypeOK, DaemonAssumption, Untouched
  <2> QED BY <2>1, <2>2, <2>4, <2>5, DaemonMoves
<1>5. CASE OpenWriter(d) /\ dbLock # None
  <2>1. /\ pc[d] = "open"
        /\ pc' = [pc EXCEPT ![d] = "release"]
        /\ code' = [code EXCEPT ![d] = 1]
        /\ UNCHANGED <<producers, writer, unsaved, daemonLock, dbLock, socket, legacy>>
        /\ UNCHANGED <<serving, client, applied, unanswered, stopper, unlinked, path, panicked>>
    BY <1>5 DEF OpenWriter
  <2>2. DaemonTypeOK'
    BY <1>d, <2>1, Names DEF DaemonTypeOK
  <2>3. pc'[d] = "release" /\ code'[d] = 1
    BY <1>d, <2>1 DEF DaemonTypeOK
  <2>4. StageOK(d)'
    BY <1>d, <2>1, <2>3 DEF StageOK, OpenStage, Listening
  <2>5. \A e \in Daemons \ {d} : Untouched(e)
    BY <1>d, <2>1 DEF DaemonTypeOK, Untouched
  <2> QED BY <2>1, <2>2, <2>4, <2>5, DaemonMoves
<1>6. CASE Recover(d) /\ pc'[d] = "prepare"
  <2>1. /\ pc[d] = "recover"
        /\ pc' = [pc EXCEPT ![d] = "prepare"]
        /\ producers' = [producers EXCEPT ![d] = producers[d] \union Loops]
        /\ UNCHANGED <<writer, unsaved, code, daemonLock, dbLock, socket, legacy>>
        /\ UNCHANGED <<serving, client, applied, unanswered, stopper, unlinked, path, panicked>>
    BY <1>6, <1>d DEF Recover, DaemonTypeOK
  <2>2. DaemonTypeOK'
    BY <1>d, <2>1, Names DEF DaemonTypeOK
  <2>3. pc'[d] = "prepare" /\ producers'[d] = producers[d] \union Loops
    BY <1>d, <2>1 DEF DaemonTypeOK
  <2>4. StageOK(d)'
    BY <1>d, <2>1, <2>3 DEF StageOK, OpenStage, Listening
  <2>5. \A e \in Daemons \ {d} : Untouched(e)
    BY <1>d, <2>1 DEF DaemonTypeOK, Untouched
  <2> QED BY <2>1, <2>2, <2>4, <2>5, DaemonMoves
<1>7. CASE Recover(d) /\ pc'[d] # "prepare"
  <2>1. /\ pc[d] = "recover"
        /\ pc' = [pc EXCEPT ![d] = "observers"]
        /\ code' = [code EXCEPT ![d] = 1]
        /\ UNCHANGED <<producers, writer, unsaved, daemonLock, dbLock, socket, legacy>>
        /\ UNCHANGED <<serving, client, applied, unanswered, stopper, unlinked, path, panicked>>
    BY <1>7, <1>d DEF Recover, DaemonTypeOK
  <2>2. DaemonTypeOK'
    BY <1>d, <2>1, Names DEF DaemonTypeOK
  <2>3. pc'[d] = "observers" /\ code'[d] = 1
    BY <1>d, <2>1 DEF DaemonTypeOK
  <2>4. StageOK(d)'
    BY <1>d, <2>1, <2>3 DEF StageOK, OpenStage, Listening
  <2>5. \A e \in Daemons \ {d} : Untouched(e)
    BY <1>d, <2>1 DEF DaemonTypeOK, Untouched
  <2> QED BY <2>1, <2>2, <2>4, <2>5, DaemonMoves
<1>8. CASE PrepareSocket(d) /\ Reachable(path[d])
  <2>1. /\ pc[d] = "prepare"
        /\ pc' = [pc EXCEPT ![d] = "join"]
        /\ code' = [code EXCEPT ![d] = 1]
        /\ UNCHANGED <<producers, writer, unsaved, daemonLock, dbLock, socket, legacy>>
        /\ UNCHANGED <<serving, client, applied, unanswered, stopper, unlinked, path, panicked>>
    BY <1>8 DEF PrepareSocket
  <2>2. DaemonTypeOK'
    BY <1>d, <2>1, Names DEF DaemonTypeOK
  <2>3. pc'[d] = "join" /\ code'[d] = 1
    BY <1>d, <2>1 DEF DaemonTypeOK
  <2>4. StageOK(d)'
    BY <1>d, <2>1, <2>3 DEF StageOK, OpenStage, Listening
  <2>5. \A e \in Daemons \ {d} : Untouched(e)
    BY <1>d, <2>1 DEF DaemonTypeOK, Untouched
  <2> QED BY <2>1, <2>2, <2>4, <2>5, DaemonMoves
<1>9. CASE PrepareSocket(d) /\ ~Reachable(path[d])
  <2>1. /\ pc[d] = "prepare"
        /\ pc' = [pc EXCEPT ![d] = "listen"]
        /\ socket' = [socket EXCEPT ![path[d]] = None]
        /\ UNCHANGED <<producers, writer, unsaved, code, daemonLock, dbLock, legacy>>
        /\ UNCHANGED <<serving, client, applied, unanswered, stopper, unlinked, path, panicked>>
    BY <1>9 DEF PrepareSocket
  <2>2. DaemonTypeOK'
    BY <1>d, <2>1, Names DEF DaemonTypeOK
  <2>3. pc'[d] = "listen" /\ socket'[path[d]] = None
    BY <1>d, <2>1 DEF DaemonTypeOK
  <2>4. StageOK(d)'
    BY <1>d, <2>1, <2>3 DEF StageOK, OpenStage, Listening
  <2>5. \A e \in Daemons \ {d} : Untouched(e)
    BY <1>d, <1>h, <2>1 DEF DaemonTypeOK, DaemonAssumption, Untouched
  <2> QED BY <2>1, <2>2, <2>4, <2>5, DaemonMoves
<1>10. CASE Listen(d) /\ socket[path[d]] = None
  <2>1. /\ pc[d] = "listen" /\ socket[path[d]] = None
        /\ pc' = [pc EXCEPT ![d] = "serve"]
        /\ socket' = [socket EXCEPT ![path[d]] = d]
        /\ UNCHANGED <<producers, writer, unsaved, code, daemonLock, dbLock, legacy>>
        /\ UNCHANGED <<serving, client, applied, unanswered, stopper, unlinked, path, panicked>>
    BY <1>10 DEF Listen
  <2>2. DaemonTypeOK'
    BY <1>d, <2>1, Names DEF DaemonTypeOK
  <2>3. pc'[d] = "serve" /\ socket'[path[d]] = d
    BY <1>d, <2>1 DEF DaemonTypeOK
  <2>4. StageOK(d)'
    BY <1>d, <2>1, <2>3 DEF StageOK, OpenStage, Listening
  <2>5. \A e \in Daemons \ {d} : Untouched(e)
    BY <1>d, <1>h, <2>1 DEF DaemonTypeOK, DaemonAssumption, Untouched
  <2> QED BY <2>1, <2>2, <2>4, <2>5, DaemonMoves
<1>11. CASE Listen(d) /\ socket[path[d]] # None
  <2>1. /\ pc[d] = "listen"
        /\ pc' = [pc EXCEPT ![d] = "join"]
        /\ code' = [code EXCEPT ![d] = 1]
        /\ UNCHANGED <<producers, writer, unsaved, daemonLock, dbLock, socket, legacy>>
        /\ UNCHANGED <<serving, client, applied, unanswered, stopper, unlinked, path, panicked>>
    BY <1>11 DEF Listen
  <2>2. DaemonTypeOK'
    BY <1>d, <2>1, Names DEF DaemonTypeOK
  <2>3. pc'[d] = "join" /\ code'[d] = 1
    BY <1>d, <2>1 DEF DaemonTypeOK
  <2>4. StageOK(d)'
    BY <1>d, <2>1, <2>3 DEF StageOK, OpenStage, Listening
  <2>5. \A e \in Daemons \ {d} : Untouched(e)
    BY <1>d, <2>1 DEF DaemonTypeOK, Untouched
  <2> QED BY <2>1, <2>2, <2>4, <2>5, DaemonMoves
<1>12. CASE CloseListener(d)
  <2>1. /\ pc[d] = "refuse"
        /\ pc' = [pc EXCEPT ![d] = "drain"]
        /\ socket' = [socket EXCEPT ![path[d]] = None]
        /\ UNCHANGED <<producers, writer, unsaved, code, daemonLock, dbLock, legacy>>
        /\ UNCHANGED <<serving, client, applied, unanswered, stopper, unlinked, path, panicked>>
    BY <1>12 DEF CloseListener
  <2>2. DaemonTypeOK'
    BY <1>d, <2>1, Names DEF DaemonTypeOK
  <2>3. pc'[d] = "drain" /\ socket'[path[d]] = None
    BY <1>d, <2>1 DEF DaemonTypeOK
  <2>4. StageOK(d)'
    BY <1>d, <2>1, <2>3 DEF StageOK, OpenStage, Listening
  <2>5. \A e \in Daemons \ {d} : Untouched(e)
    BY <1>d, <1>h, <2>1 DEF DaemonTypeOK, DaemonAssumption, Untouched
  <2> QED BY <2>1, <2>2, <2>4, <2>5, DaemonMoves
<1>13. CASE RequestsDone(d)
  <2>1. /\ pc[d] = "drain" /\ serving[d] = {}
        /\ pc' = [pc EXCEPT ![d] = "join"]
        /\ socket' = [socket EXCEPT ![path[d]] = None]
        /\ UNCHANGED <<producers, writer, unsaved, code, daemonLock, dbLock, legacy>>
        /\ UNCHANGED <<serving, client, applied, unanswered, stopper, unlinked, path, panicked>>
    BY <1>13 DEF RequestsDone
  <2>2. DaemonTypeOK'
    BY <1>d, <2>1, Names DEF DaemonTypeOK
  <2>3. pc'[d] = "join" /\ socket'[path[d]] = None
    BY <1>d, <2>1 DEF DaemonTypeOK
  <2>4. StageOK(d)'
    BY <1>d, <2>1, <2>3 DEF StageOK, OpenStage, Listening
  <2>5. \A e \in Daemons \ {d} : Untouched(e)
    BY <1>d, <1>h, <2>1 DEF DaemonTypeOK, DaemonAssumption, Untouched
  <2> QED BY <2>1, <2>2, <2>4, <2>5, DaemonMoves
<1>14. CASE \E l \in Loops : LoopEnds(d, l)
  <2>0. PICK l \in Loops : LoopEnds(d, l)
    BY <1>14
  <2>1. /\ pc[d] = "join"
        /\ producers' = [producers EXCEPT ![d] = producers[d] \ {l}]
        /\ UNCHANGED <<pc, writer, unsaved, code, daemonLock, dbLock, socket, legacy>>
        /\ UNCHANGED <<serving, client, applied, unanswered, stopper, unlinked, path, panicked>>
    BY <2>0 DEF LoopEnds
  <2>2. DaemonTypeOK'
    BY <1>d, <2>1, Names DEF DaemonTypeOK
  <2>3. producers'[d] = producers[d] \ {l}
    BY <1>d, <2>1 DEF DaemonTypeOK
  <2>4. StageOK(d)'
    BY <1>d, <2>1, <2>3 DEF StageOK, OpenStage, Listening
  <2>5. \A e \in Daemons \ {d} : Untouched(e)
    BY <1>d, <2>1 DEF DaemonTypeOK, Untouched
  <2> QED BY <2>1, <2>2, <2>4, <2>5, DaemonMoves
<1>15. CASE LoopsJoined(d)
  <2>1. /\ pc[d] = "join"
        /\ pc' = [pc EXCEPT ![d] = "observers"]
        /\ UNCHANGED <<producers, writer, unsaved, code, daemonLock, dbLock, socket, legacy>>
        /\ UNCHANGED <<serving, client, applied, unanswered, stopper, unlinked, path, panicked>>
    BY <1>15 DEF LoopsJoined
  <2>2. DaemonTypeOK'
    BY <1>d, <2>1, Names DEF DaemonTypeOK
  <2>3. pc'[d] = "observers"
    BY <1>d, <2>1 DEF DaemonTypeOK
  <2>4. StageOK(d)'
    BY <1>d, <2>1, <2>3 DEF StageOK, OpenStage, Listening
  <2>5. \A e \in Daemons \ {d} : Untouched(e)
    BY <1>d, <2>1 DEF DaemonTypeOK, Untouched
  <2> QED BY <2>1, <2>2, <2>4, <2>5, DaemonMoves
<1>16. CASE StopObservations(d)
  <2>1. /\ pc[d] = "observers"
        /\ pc' = [pc EXCEPT ![d] = "voice"]
        /\ producers' = [producers EXCEPT ![d] = {}]
        /\ UNCHANGED <<writer, unsaved, code, daemonLock, dbLock, socket, legacy>>
        /\ UNCHANGED <<serving, client, applied, unanswered, stopper, unlinked, path, panicked>>
    BY <1>16 DEF StopObservations
  <2>2. DaemonTypeOK'
    BY <1>d, <2>1, Names DEF DaemonTypeOK
  <2>3. pc'[d] = "voice" /\ producers'[d] = {}
    BY <1>d, <2>1 DEF DaemonTypeOK
  <2>4. StageOK(d)'
    BY <1>d, <2>1, <2>3 DEF StageOK, OpenStage, Listening
  <2>5. \A e \in Daemons \ {d} : Untouched(e)
    BY <1>d, <2>1 DEF DaemonTypeOK, Untouched
  <2> QED BY <2>1, <2>2, <2>4, <2>5, DaemonMoves
<1>17. CASE CloseVoiceService(d)
  <2>1. /\ pc[d] = "voice"
        /\ pc' = [pc EXCEPT ![d] = "writer"]
        /\ writer' = [writer EXCEPT ![d] = "closing"]
        /\ UNCHANGED <<producers, unsaved, code, daemonLock, dbLock, socket, legacy>>
        /\ UNCHANGED <<serving, client, applied, unanswered, stopper, unlinked, path, panicked>>
    BY <1>17 DEF CloseVoiceService
  <2>2. DaemonTypeOK'
    BY <1>d, <2>1, Names DEF DaemonTypeOK
  <2>3. pc'[d] = "writer" /\ writer'[d] = "closing"
    BY <1>d, <2>1 DEF DaemonTypeOK
  <2>4. StageOK(d)'
    BY <1>d, <2>1, <2>3 DEF StageOK, OpenStage, Listening
  <2>5. \A e \in Daemons \ {d} : Untouched(e)
    BY <1>d, <2>1 DEF DaemonTypeOK, Untouched
  <2> QED BY <2>1, <2>2, <2>4, <2>5, DaemonMoves
<1>18. CASE CloseWriter(d) /\ unsaved[d] = 0
  <2>1. /\ pc[d] = "writer" /\ unsaved[d] = 0
        /\ pc' = [pc EXCEPT ![d] = "release"]
        /\ writer' = [writer EXCEPT ![d] = "done"]
        /\ dbLock' = None
        /\ code' = [code EXCEPT ![d] = code[d]]
        /\ UNCHANGED <<producers, unsaved, daemonLock, socket, legacy>>
        /\ UNCHANGED <<serving, client, applied, unanswered, stopper, unlinked, path, panicked>>
    BY <1>18 DEF CloseWriter
  <2>2. DaemonTypeOK'
    BY <1>d, <2>1, Names DEF DaemonTypeOK
  <2>3. pc'[d] = "release" /\ writer'[d] = "done" /\ code'[d] = code[d]
    BY <1>d, <2>1 DEF DaemonTypeOK
  <2>4. StageOK(d)'
    BY <1>d, <2>1, <2>3 DEF StageOK, OpenStage, Listening
  <2>5. \A e \in Daemons \ {d} : Untouched(e)
    BY <1>d, <1>h, <2>1 DEF DaemonTypeOK, DaemonAssumption, Untouched
  <2> QED BY <2>1, <2>2, <2>4, <2>5, DaemonMoves
<1>19. CASE CloseWriter(d) /\ unsaved[d] # 0
  <2>1. /\ pc[d] = "writer"
        /\ pc' = [pc EXCEPT ![d] = "release"]
        /\ writer' = [writer EXCEPT ![d] = "done"]
        /\ dbLock' = None
        /\ code' = [code EXCEPT ![d] = 1]
        /\ UNCHANGED <<producers, unsaved, daemonLock, socket, legacy>>
        /\ UNCHANGED <<serving, client, applied, unanswered, stopper, unlinked, path, panicked>>
    BY <1>19 DEF CloseWriter
  <2>2. DaemonTypeOK'
    BY <1>d, <2>1, Names DEF DaemonTypeOK
  <2>3. pc'[d] = "release" /\ writer'[d] = "done" /\ code'[d] = 1
    BY <1>d, <2>1 DEF DaemonTypeOK
  <2>4. StageOK(d)'
    BY <1>d, <2>1, <2>3 DEF StageOK, OpenStage, Listening
  <2>5. \A e \in Daemons \ {d} : Untouched(e)
    BY <1>d, <1>h, <2>1 DEF DaemonTypeOK, DaemonAssumption, Untouched
  <2> QED BY <2>1, <2>2, <2>4, <2>5, DaemonMoves
<1>20. CASE ReleaseDaemonLock(d)
  <2>1. /\ pc[d] = "release"
        /\ pc' = [pc EXCEPT ![d] = "exited"]
        /\ daemonLock' = [daemonLock EXCEPT ![path[d]] = None]
        /\ UNCHANGED <<producers, writer, unsaved, code, dbLock, socket, legacy>>
        /\ UNCHANGED <<serving, client, applied, unanswered, stopper, unlinked, path, panicked>>
    BY <1>20 DEF ReleaseDaemonLock
  <2>2. DaemonTypeOK'
    BY <1>d, <2>1, Names DEF DaemonTypeOK
  <2>3. pc'[d] = "exited" /\ daemonLock'[path[d]] = None
    BY <1>d, <2>1 DEF DaemonTypeOK
  <2>4. StageOK(d)'
    BY <1>d, <2>1, <2>3 DEF StageOK, OpenStage, Listening
  <2>5. \A e \in Daemons \ {d} : Untouched(e)
    BY <1>d, <1>h, <2>1 DEF DaemonTypeOK, DaemonAssumption, Untouched
  <2> QED BY <2>1, <2>2, <2>4, <2>5, DaemonMoves
<1>21. CASE Produce(d)
  <2>1. /\ pc[d] \in OpenStage
        /\ unsaved' = [unsaved EXCEPT ![d] = unsaved[d] + 1]
        /\ UNCHANGED <<pc, producers, writer, code, daemonLock, dbLock, socket, legacy>>
        /\ UNCHANGED <<serving, client, applied, unanswered, stopper, unlinked, path, panicked>>
    BY <1>21, <1>d DEF Produce, Enqueued, StageOK, OpenStage
  <2>0. unsaved[d] + 1 \in Nat
    <3>1. unsaved[d] \in Nat
      BY <1>d DEF DaemonTypeOK
    <3> QED BY <3>1
  <2>2. DaemonTypeOK'
    BY <1>d, <2>0, <2>1, Names DEF DaemonTypeOK
  <2>3. unsaved'[d] = unsaved[d] + 1
    BY <1>d, <2>1 DEF DaemonTypeOK
  <2>4. StageOK(d)'
    BY <1>d, <2>1, <2>3 DEF StageOK, OpenStage, Listening
  <2>5. \A e \in Daemons \ {d} : Untouched(e)
    BY <1>d, <2>1 DEF DaemonTypeOK, Untouched
  <2> QED BY <2>1, <2>2, <2>4, <2>5, DaemonMoves
<1>22. CASE Commit(d)
  <2>1. /\ writer[d] \in {"open", "closing"}
        /\ unsaved' = [unsaved EXCEPT ![d] = 0]
        /\ UNCHANGED <<pc, producers, writer, code, daemonLock, dbLock, socket, legacy>>
        /\ UNCHANGED <<serving, client, applied, unanswered, stopper, unlinked, path, panicked>>
    BY <1>22 DEF Commit
  <2>2. DaemonTypeOK'
    BY <1>d, <2>1, Names DEF DaemonTypeOK
  <2>3. unsaved'[d] = 0
    BY <1>d, <2>1 DEF DaemonTypeOK
  <2>4. StageOK(d)'
    BY <1>d, <2>1, <2>3 DEF StageOK, OpenStage, Listening
  <2>5. \A e \in Daemons \ {d} : Untouched(e)
    BY <1>d, <2>1 DEF DaemonTypeOK, Untouched
  <2> QED BY <2>1, <2>2, <2>4, <2>5, DaemonMoves
<1>23. CASE ServeEnds(d)
  <2>0. PICK k \in Codes : code' = [code EXCEPT ![d] = k]
    BY <1>23 DEF ServeEnds, Codes
  <2>1. /\ pc[d] = "serve"
        /\ pc' = [pc EXCEPT ![d] = "refuse"]
        /\ code' = [code EXCEPT ![d] = k]
        /\ UNCHANGED <<producers, writer, unsaved, daemonLock, dbLock, socket, legacy>>
        /\ UNCHANGED <<serving, client, applied, unanswered, stopper, unlinked, path, panicked>>
    BY <1>23, <2>0 DEF ServeEnds, BeginStop
  <2>2. DaemonTypeOK'
    BY <1>d, <2>1, Names DEF DaemonTypeOK
  <2>3. pc'[d] = "refuse" /\ code'[d] = k
    BY <1>d, <2>1 DEF DaemonTypeOK
  <2>4. StageOK(d)'
    BY <1>d, <2>1, <2>3 DEF StageOK, OpenStage, Listening
  <2>5. \A e \in Daemons \ {d} : Untouched(e)
    BY <1>d, <2>1 DEF DaemonTypeOK, Untouched
  <2> QED BY <2>1, <2>2, <2>4, <2>5, DaemonMoves
<1> QED BY <1>1, <1>2, <1>3, <1>4, <1>5, <1>6, <1>7, <1>8, <1>9, <1>10, <1>11, <1>12, <1>13, <1>14, <1>15, <1>16, <1>17, <1>18, <1>19, <1>20, <1>21, <1>22, <1>23

\* Only the attempts of c are concerned in the step, which may settle others.
OnlyClient(c) ==
    \A b \in Clients \ {c} :
       /\ client'[b] = client[b] /\ applied'[b] = applied[b] /\ (b \in unanswered' <=> b \in unanswered)
       /\ \A n \in 1 .. 2, e \in Daemons : <<b, n>> \in serving'[e] => <<b, n>> \in serving[e]

LEMMA OthersAccounted ==
    ASSUME NEW c \in Clients, OnlyClient(c), \A b \in Clients : Accounted(b), Accounted(c)'
    PROVE  \A b \in Clients : Accounted(b)'
<1> SUFFICES ASSUME NEW b \in Clients, b # c PROVE Accounted(b)'
  OBVIOUS
<1>1. /\ client'[b] = client[b] /\ applied'[b] = applied[b] /\ (b \in unanswered' <=> b \in unanswered)
      /\ (Flying(b, 1)' => Flying(b, 1)) /\ (Flying(b, 2)' => Flying(b, 2))
  BY DEF OnlyClient, Flying
<1> QED BY <1>1 DEF Accounted

\* A step of a client and no daemon keeps the invariant if it keeps the accounts.
LEMMA ClientMoves ==
    ASSUME DaemonInv, NEW c \in Clients, OnlyClient(c), Accounted(c)', DaemonTypeOK',
           UNCHANGED <<daemonVars, lockVars, stopVars>>
    PROVE  DaemonInv'
<1>1. \A b \in Clients : Accounted(b)'
  BY OthersAccounted DEF DaemonInv
<1>2. \A e \in Daemons : StageOK(e)'
  BY DEF DaemonInv, StageOK, Listening, daemonVars, lockVars, stopVars
<1>3. NoEnqueueAfterClose' /\ UnlinkedOnce' /\ OneServer'
  BY DEF DaemonInv, NoEnqueueAfterClose, UnlinkedOnce, OneServer, daemonVars, lockVars, stopVars
<1> QED BY <1>1, <1>2, <1>3 DEF DaemonInv

\* The states of a client.
LEMMA ClientNames ==
    /\ {"ok", "failed", "ensure", "resend", "starting", "sent", "resent"} \subseteq ClientState
    /\ Sends[1] = "idle" /\ Sends[2] = "resend" /\ Waiting[1] = "sent" /\ Waiting[2] = "resent"
  BY DEF ClientState, Sends, Waiting

\* A client gives up an attempt, or an error reaches it: what it sent may still be
\* applied later, and is accounted for.
LEMMA AttemptLost ==
    ASSUME NEW c \in Clients, NEW n \in 1 .. 2, Accounted(c), client[c] = Waiting[n],
           client'[c] \in {"failed"} \union (IF n = 1 THEN {"ensure"} ELSE {}),
           applied'[c] = applied[c], c \in unanswered',
           Flying(c, 1)' => Flying(c, 1), Flying(c, 2)' => Flying(c, 2)
    PROVE  Accounted(c)'
<1>1. CASE n = 1
  BY <1>1, ClientNames DEF Accounted
<1>2. CASE n = 2
  BY <1>2, ClientNames DEF Accounted
<1> QED BY <1>1, <1>2

\* The steps of a client that reach no server.
LEMMA ClientInv ==
    ASSUME DaemonInv, NEW c \in Clients,
           \/ DaemonReady(c) \/ StartTimesOut(c)
           \/ \E n \in 1 .. 2 : SendToLegacy(c, n) \/ ClientTimesOut(c, n)
    PROVE  DaemonInv'
<1>t. DaemonTypeOK /\ Accounted(c) /\ client[c] \in ClientState
  BY DEF DaemonInv, DaemonTypeOK
<1>1. CASE DaemonReady(c) \/ StartTimesOut(c)
  <2>1. PICK to \in {"resend", "failed"} :
           /\ client[c] = "starting" /\ client' = [client EXCEPT ![c] = to]
           /\ UNCHANGED <<daemonVars, lockVars, applied, unanswered, stopVars>>
    BY <1>1 DEF DaemonReady, StartTimesOut
  <2>2. client'[c] = to /\ OnlyClient(c) /\ DaemonTypeOK'
    BY <1>t, <2>1, ClientNames DEF OnlyClient, DaemonTypeOK, daemonVars, lockVars, stopVars
  <2>3. Accounted(c)'
    BY <1>t, <2>1, <2>2 DEF Accounted, Flying, daemonVars
  <2> QED BY <2>1, <2>2, <2>3, ClientMoves
<1>2. ASSUME NEW n \in 1 .. 2, SendToLegacy(c, n) PROVE DaemonInv'
  <2>1. /\ client[c] = Sends[n] /\ client' = [client EXCEPT ![c] = "ok"]
        /\ applied' = [applied EXCEPT ![c] = applied[c] + 1]
        /\ UNCHANGED <<daemonVars, lockVars, unanswered, stopVars>>
    BY <1>2 DEF SendToLegacy
  <2>2. applied[c] \in Nat /\ applied[c] + 1 \in Nat
    <3>1. applied[c] \in Nat
      BY <1>t DEF DaemonTypeOK
    <3> QED BY <3>1
  <2>3. client'[c] = "ok" /\ applied'[c] = applied[c] + 1 /\ OnlyClient(c) /\ DaemonTypeOK'
    BY <1>t, <2>1, <2>2, ClientNames DEF OnlyClient, DaemonTypeOK, daemonVars, lockVars, stopVars
  <2>4. client[c] \in {"idle", "resend"}
    BY <2>1, ClientNames
  <2>5. Accounted(c)'
    BY <1>t, <2>1, <2>2, <2>3, <2>4 DEF Accounted, Flying, daemonVars
  <2> QED BY <2>1, <2>3, <2>5, ClientMoves
<1>3. ASSUME NEW n \in 1 .. 2, ClientTimesOut(c, n) PROVE DaemonInv'
  <2>1. PICK to \in {"failed"} \union (IF n = 1 THEN {"ensure"} ELSE {}) :
           client' = [client EXCEPT ![c] = to]
    BY <1>3 DEF ClientTimesOut
  <2>2. /\ client[c] = Waiting[n] /\ unanswered' = unanswered \union {c}
        /\ UNCHANGED <<daemonVars, lockVars, applied, stopVars>>
    BY <1>3 DEF ClientTimesOut
  <2>3. client'[c] = to /\ OnlyClient(c) /\ DaemonTypeOK'
    BY <1>t, <2>1, <2>2, ClientNames DEF OnlyClient, DaemonTypeOK, daemonVars, lockVars, stopVars
  <2>4. Accounted(c)'
    BY <1>t, <2>1, <2>2, <2>3, AttemptLost DEF Flying, daemonVars
  <2> QED BY <2>2, <2>3, <2>4, ClientMoves
<1> QED BY <1>1, <1>2, <1>3

\* A first attempt that finds no daemon, or is told to go away, ends without effect.
LEMMA AttemptRefused ==
    ASSUME NEW c \in Clients, NEW n \in 1 .. 2, Accounted(c), client[c] = Sends[n],
           client'[c] \in {"failed"} \union (IF n = 1 THEN {"ensure"} ELSE {}),
           UNCHANGED <<applied, unanswered, serving>>
    PROVE  Accounted(c)'
<1>1. CASE n = 1
  BY <1>1, ClientNames DEF Accounted, Flying
<1>2. CASE n = 2
  BY <1>2, ClientNames DEF Accounted, Flying
<1> QED BY <1>1, <1>2

\* A request is admitted by the one daemon at the clients' path.
LEMMA SendInv ==
    ASSUME DaemonInv, DaemonAssumption, NEW c \in Clients, NEW n \in 1 .. 2, Send(c, n)
    PROVE  DaemonInv'
<1>t. DaemonTypeOK /\ Accounted(c) /\ OneServer /\ \A e \in Daemons : StageOK(e)
  BY DEF DaemonInv
<1>1. /\ client[c] = Sends[n] /\ ~LegacyServes
      /\ UNCHANGED <<path, pc, producers, writer, unsaved, code, panicked>>
      /\ UNCHANGED <<daemonLock, dbLock, socket, applied, unanswered, stopper, legacy, unlinked>>
  BY DEF Send, lockVars, stopVars
<1>2. NoEnqueueAfterClose' /\ UnlinkedOnce'
  BY <1>1 DEF DaemonInv, NoEnqueueAfterClose, UnlinkedOnce
<1>3. CASE UNCHANGED serving
  <2>1. PICK to \in {"failed"} \union (IF n = 1 THEN {"ensure"} ELSE {}) :
           client' = [client EXCEPT ![c] = to]
    <3>1. CASE ~Reachable(ClientPath)
      BY <3>1 DEF Send
    <3>2. CASE Reachable(ClientPath) /\ ~Admits(socket[ClientPath])
      BY <3>2 DEF Send
    <3>3. CASE Reachable(ClientPath) /\ Admits(socket[ClientPath])
      <4> DEFINE d == socket[ClientPath]
      <4>1. d \in Daemons
        BY <1>1, <3>3 DEF LegacyServes, Reachable
      <4>2. serving' = [serving EXCEPT ![d] = @ \union {<<c, n>>}]
        BY <3>3 DEF Send
      <4>3. serving'[d] = serving[d] \union {<<c, n>>}
        BY <1>t, <4>1, <4>2 DEF DaemonTypeOK
      <4>4. <<c, n>> \in serving[d]
        BY <1>3, <4>3
      <4>5. Flying(c, n)
        BY <4>1, <4>4 DEF Flying
      <4> QED BY <1>t, <1>1, <4>5, ClientNames DEF Accounted
    <3> QED BY <3>1, <3>2, <3>3
  <2>2. client'[c] = to /\ OnlyClient(c) /\ DaemonTypeOK'
    BY <1>t, <1>1, <1>3, <2>1, ClientNames DEF OnlyClient, DaemonTypeOK
  <2>3. Accounted(c)'
    BY <1>t, <1>1, <1>3, <2>2, AttemptRefused
  <2> QED BY <1>1, <1>3, <2>2, <2>3, ClientMoves DEF daemonVars, lockVars, stopVars
<1>4. CASE ~UNCHANGED serving
  <2> DEFINE d == socket[ClientPath]
  <2>1. /\ Reachable(ClientPath) /\ Admits(d)
        /\ client' = [client EXCEPT ![c] = Waiting[n]]
        /\ serving' = [serving EXCEPT ![d] = @ \union {<<c, n>>}]
    BY <1>4 DEF Send
  <2>2. d \in Daemons
    BY <1>1, <2>1 DEF LegacyServes, Reachable
  <2>3. pc[d] = "serve"
    BY <2>1, <2>2 DEF Admits, DaemonAssumption
  <2>4. \A e \in Daemons : serving'[e] = IF e = d THEN serving[e] \union {<<c, n>>} ELSE serving[e]
    BY <1>t, <2>1, <2>2 DEF DaemonTypeOK
  <2>5. /\ client'[c] = Waiting[n] /\ OnlyClient(c)
        /\ \A e \in Daemons, r \in Request : r \in serving'[e] => r \in serving[e] \/ (e = d /\ r = <<c, n>>)
    BY <1>t, <1>1, <2>1, <2>2, <2>4 DEF OnlyClient, DaemonTypeOK
  <2>6. ~Flying(c, n)
    BY <1>t, <1>1, ClientNames DEF Accounted
  <2>7. OneServer'
    BY <1>t, <2>5, <2>6 DEF OneServer, Flying
  <2>8. \A m \in 1 .. 2 : Flying(c, m)' => Flying(c, m) \/ m = n
    BY <2>5 DEF Flying, Request
  <2>9. Accounted(c)'
    <3>1. CASE n = 1
      <4>1. Flying(c, 2)' => Flying(c, 2)
        BY <2>8, <3>1
      <4> QED BY <1>t, <1>1, <2>5, <4>1, <3>1, ClientNames DEF Accounted
    <3>2. CASE n = 2
      <4>1. Flying(c, 1)' => Flying(c, 1)
        BY <2>8, <3>2
      <4> QED BY <1>t, <1>1, <2>5, <4>1, <3>2, ClientNames DEF Accounted
    <3> QED BY <3>1, <3>2
  <2>10. \A b \in Clients : Accounted(b)'
    BY <2>5, <2>9, OthersAccounted DEF DaemonInv
  <2>11. ASSUME NEW e \in Daemons PROVE StageOK(e)'
    <3>1. StageOK(e) /\ (serving'[e] # {} => serving[e] # {} \/ pc[e] = "serve")
      BY <1>t, <2>3, <2>4
    <3> QED BY <1>1, <3>1 DEF StageOK, Listening
  <2>12. DaemonTypeOK'
    <3>1. Waiting[n] \in ClientState /\ <<c, n>> \in Request
      BY ClientNames DEF Request
    <3>2. serving' \in [Daemons -> SUBSET Request] /\ client' \in [Clients -> ClientState]
      BY <1>t, <2>1, <2>2, <3>1 DEF DaemonTypeOK
    <3> QED BY <1>t, <1>1, <3>2 DEF DaemonTypeOK
  <2> QED BY <1>2, <2>7, <2>10, <2>11, <2>12 DEF DaemonInv
<1> QED BY <1>3, <1>4

\* The client that finds no healthy daemon starts one, or fails to.
LEMMA EnsureInv ==
    ASSUME DaemonInv, NEW c \in Clients, EnsureDaemon(c)
    PROVE  DaemonInv'
<1>t. DaemonTypeOK /\ Accounted(c) /\ OneServer /\ \A e \in Daemons : StageOK(e)
  BY DEF DaemonInv
<1>1. /\ UNCHANGED <<path, producers, serving, writer, unsaved, code, panicked>>
      /\ UNCHANGED <<daemonLock, dbLock, socket, applied, unanswered, stopper, legacy, unlinked>>
  BY DEF EnsureDaemon, lockVars, stopVars
<1>2. PICK to \in {"resend", "starting"} : client[c] = "ensure" /\ client' = [client EXCEPT ![c] = to]
  BY DEF EnsureDaemon
<1>3. client'[c] = to /\ OnlyClient(c) /\ client' \in [Clients -> ClientState]
  BY <1>t, <1>1, <1>2, ClientNames DEF OnlyClient, DaemonTypeOK
<1>4. Accounted(c)'
  BY <1>t, <1>1, <1>2, <1>3 DEF Accounted, Flying
<1>5. CASE UNCHANGED pc
  <2>1. DaemonTypeOK'
    BY <1>t, <1>1, <1>3, <1>5 DEF DaemonTypeOK
  <2> QED BY <1>1, <1>3, <1>4, <1>5, <2>1, ClientMoves DEF daemonVars, lockVars, stopVars
<1>6. ASSUME NEW d \in Daemons, Spawn(d) PROVE DaemonInv'
  <2>1. pc[d] = "off" /\ pc' = [pc EXCEPT ![d] = "lock"]
    BY <1>6 DEF Spawn
  <2>2. DaemonTypeOK'
    BY <1>t, <1>1, <1>3, <2>1, Names DEF DaemonTypeOK
  <2>3. pc'[d] = "lock" /\ \A e \in Daemons \ {d} : pc'[e] = pc[e]
    BY <1>t, <2>1 DEF DaemonTypeOK
  <2>4. StageOK(d)'
    BY <1>t, <1>1, <2>1, <2>3 DEF StageOK, OpenStage, Listening
  <2>5. \A e \in Daemons \ {d} : StageOK(e)'
    BY <1>t, <1>1, <2>3 DEF StageOK, Listening
  <2>6. NoEnqueueAfterClose' /\ UnlinkedOnce' /\ OneServer'
    BY <1>1 DEF DaemonInv, NoEnqueueAfterClose, UnlinkedOnce, OneServer
  <2>7. \A b \in Clients : Accounted(b)'
    BY <1>3, <1>4, OthersAccounted DEF DaemonInv
  <2> QED BY <2>2, <2>4, <2>5, <2>6, <2>7 DEF DaemonInv
<1> QED BY <1>5, <1>6 DEF EnsureDaemon

\* A handler ends: the attempt is in flight no more, and nothing else of the daemon
\* changes but what it still has to save.
LEMMA HandlerEnds ==
    ASSUME DaemonInv, NEW d \in Daemons, NEW c \in Clients, NEW n \in 1 .. 2,
           <<c, n>> \in serving[d], serving' = [serving EXCEPT ![d] = @ \ {<<c, n>>}]
    PROVE  /\ Flying(c, n) /\ ~Flying(c, n)'
           /\ \A e \in Daemons : serving'[e] \subseteq serving[e]
           /\ (Flying(c, 1)' => Flying(c, 1)) /\ (Flying(c, 2)' => Flying(c, 2))
           /\ OneServer'
<1>1. /\ \A e \in Daemons \ {d} : serving'[e] = serving[e]
      /\ serving'[d] = serving[d] \ {<<c, n>>}
  BY DEF DaemonInv, DaemonTypeOK
<1>2. \A e \in Daemons : serving'[e] \subseteq serving[e]
  BY <1>1
<1>3. <<c, n>> \in Request
  BY DEF Request
<1>4. Flying(c, n) /\ ~Flying(c, n)'
  BY <1>1, <1>3 DEF DaemonInv, OneServer, Flying
<1> QED BY <1>2, <1>4 DEF DaemonInv, OneServer, Flying

\* A request is carried out and answered.
LEMMA HandleInv ==
    ASSUME DaemonInv, NEW d \in Daemons, NEW c \in Clients, NEW n \in 1 .. 2, Handle(d, c, n)
    PROVE  DaemonInv'
<1>t. DaemonTypeOK /\ Accounted(c) /\ \A e \in Daemons : StageOK(e)
  BY DEF DaemonInv
<1>1. /\ <<c, n>> \in serving[d] /\ serving' = [serving EXCEPT ![d] = @ \ {<<c, n>>}]
      /\ applied' = [applied EXCEPT ![c] = @ + 1]
      /\ UNCHANGED <<path, pc, producers, writer, code, daemonLock, dbLock, socket, unanswered, stopper, legacy, unlinked>>
  BY DEF Handle, lockVars, stopVars
<1>2. writer[d] = "open" /\ pc[d] \in {"serve", "refuse", "drain"}
  BY <1>t, <1>1 DEF StageOK, OpenStage
<1>3. unsaved' = [unsaved EXCEPT ![d] = @ + 1] /\ UNCHANGED panicked
  BY <1>2 DEF Handle, Enqueued
<1>4. /\ client' \in [Clients -> ClientState] /\ (\A b \in Clients \ {c} : client'[b] = client[b])
      /\ client'[c] = IF client[c] = Waiting[n] THEN "ok" ELSE client[c]
  BY <1>t, ClientNames DEF Handle, Answered, DaemonTypeOK
<1>5. /\ applied[c] \in Nat /\ unsaved[d] \in Nat
      /\ applied' \in [Clients -> Nat] /\ unsaved' \in [Daemons -> Nat]
      /\ applied'[c] = applied[c] + 1 /\ (\A b \in Clients \ {c} : applied'[b] = applied[b])
      /\ \A e \in Daemons \ {d} : unsaved'[e] = unsaved[e]
  <2>1. applied[c] \in Nat /\ unsaved[d] \in Nat
    BY <1>t DEF DaemonTypeOK
  <2>2. applied[c] + 1 \in Nat /\ unsaved[d] + 1 \in Nat
    BY <2>1
  <2> QED BY <1>t, <1>1, <1>3, <2>1, <2>2 DEF DaemonTypeOK
<1>6. \A e \in Daemons : serving'[e] \subseteq serving[e]
  BY <1>t, <1>1 DEF DaemonTypeOK
<1>7. /\ Flying(c, n) /\ ~Flying(c, n)' /\ OneServer'
      /\ (Flying(c, 1)' => Flying(c, 1)) /\ (Flying(c, 2)' => Flying(c, 2))
  BY <1>1, <1>6, HandlerEnds
<1>8. Accounted(c)'
  <2>1. CASE n = 1
    <3>1. client'[c] = IF client[c] = "sent" THEN "ok" ELSE client[c]
      BY <1>4, <2>1, ClientNames
    <3> QED BY <1>t, <1>1, <1>5, <1>7, <2>1, <3>1 DEF Accounted
  <2>2. CASE n = 2
    <3>1. client'[c] = IF client[c] = "resent" THEN "ok" ELSE client[c]
      BY <1>4, <2>2, ClientNames
    <3> QED BY <1>t, <1>1, <1>5, <1>7, <2>2, <3>1 DEF Accounted
  <2> QED BY <2>1, <2>2
<1>9. \A b \in Clients : Accounted(b)'
  <2>1. OnlyClient(c)
    BY <1>1, <1>4, <1>5, <1>6 DEF OnlyClient
  <2> QED BY <1>8, <2>1, OthersAccounted DEF DaemonInv
<1>10. \A e \in Daemons : StageOK(e)'
  BY <1>t, <1>1, <1>2, <1>5, <1>6 DEF StageOK, Listening
<1>11. DaemonTypeOK'
  <2>1. serving' \in [Daemons -> SUBSET Request]
    BY <1>t, <1>1 DEF DaemonTypeOK
  <2> QED BY <1>t, <1>1, <1>4, <1>5, <2>1 DEF DaemonTypeOK
<1>12. NoEnqueueAfterClose' /\ UnlinkedOnce'
  BY <1>1, <1>3 DEF DaemonInv, NoEnqueueAfterClose, UnlinkedOnce
<1> QED BY <1>7, <1>9, <1>10, <1>11, <1>12 DEF DaemonInv

\* A handler refuses the request or runs out of time.
LEMMA HandlerFailsInv ==
    ASSUME DaemonInv, NEW d \in Daemons, NEW c \in Clients, NEW n \in 1 .. 2, HandlerFails(d, c, n)
    PROVE  DaemonInv'
<1>t. DaemonTypeOK /\ Accounted(c) /\ \A e \in Daemons : StageOK(e)
  BY DEF DaemonInv
<1>1. /\ <<c, n>> \in serving[d] /\ serving' = [serving EXCEPT ![d] = @ \ {<<c, n>>}]
      /\ UNCHANGED <<path, pc, producers, writer, unsaved, code, panicked>>
      /\ UNCHANGED <<daemonLock, dbLock, socket, applied, unanswered, stopper, legacy, unlinked>>
  BY DEF HandlerFails, lockVars, stopVars
<1>4. /\ client' \in [Clients -> ClientState] /\ (\A b \in Clients \ {c} : client'[b] = client[b])
      /\ client'[c] = IF client[c] = Waiting[n] THEN "failed" ELSE client[c]
  BY <1>t, ClientNames DEF HandlerFails, Answered, DaemonTypeOK
<1>6. \A e \in Daemons : serving'[e] \subseteq serving[e]
  BY <1>t, <1>1 DEF DaemonTypeOK
<1>7. /\ ~Flying(c, n)' /\ OneServer'
      /\ (Flying(c, 1)' => Flying(c, 1)) /\ (Flying(c, 2)' => Flying(c, 2))
  BY <1>1, <1>6, HandlerEnds
<1>8. Accounted(c)'
  <2>1. CASE n = 1
    BY <1>t, <1>1, <1>4, <1>7, <2>1, ClientNames DEF Accounted
  <2>2. CASE n = 2
    BY <1>t, <1>1, <1>4, <1>7, <2>2, ClientNames DEF Accounted
  <2> QED BY <2>1, <2>2
<1>9. \A b \in Clients : Accounted(b)'
  <2>1. OnlyClient(c)
    BY <1>1, <1>4, <1>6 DEF OnlyClient
  <2> QED BY <1>8, <2>1, OthersAccounted DEF DaemonInv
<1>10. \A e \in Daemons : StageOK(e)'
  BY <1>t, <1>1, <1>6 DEF StageOK, Listening
<1>11. DaemonTypeOK'
  <2>1. serving' \in [Daemons -> SUBSET Request]
    BY <1>t, <1>1 DEF DaemonTypeOK
  <2> QED BY <1>t, <1>1, <1>4, <2>1 DEF DaemonTypeOK
<1>12. NoEnqueueAfterClose' /\ UnlinkedOnce'
  BY <1>1 DEF DaemonInv, NoEnqueueAfterClose, UnlinkedOnce
<1> QED BY <1>7, <1>9, <1>10, <1>11, <1>12 DEF DaemonInv

\* The connections of a draining server are closed under its handlers.
LEMMA CloseConnectionsInv ==
    ASSUME DaemonInv, NEW d \in Daemons, CloseConnections(d)
    PROVE  DaemonInv'
<1>t. DaemonTypeOK /\ serving[d] \subseteq Request
  BY DEF DaemonInv, DaemonTypeOK
<1>1. PICK r \in serving[d] :
         /\ client[r[1]] = Waiting[r[2]] /\ unanswered' = unanswered \union {r[1]}
         /\ \E result \in Broken(r[2]) : client' = [client EXCEPT ![r[1]] = result]
  BY DEF CloseConnections
<1>2. PICK c \in Clients, n \in 1 .. 2 : c = r[1] /\ n = r[2]
  BY <1>t, <1>1 DEF Request
<1>3. PICK to \in {"failed"} \union (IF n = 1 THEN {"ensure"} ELSE {}) :
         client' = [client EXCEPT ![c] = to]
  BY <1>1, <1>2 DEF Broken
<1>4. UNCHANGED <<daemonVars, lockVars, applied, stopVars>>
  BY DEF CloseConnections
<1>5. client'[c] = to /\ OnlyClient(c) /\ DaemonTypeOK'
  BY <1>t, <1>1, <1>2, <1>3, <1>4, ClientNames DEF OnlyClient, DaemonTypeOK, daemonVars, lockVars, stopVars
<1>6. Accounted(c)'
  BY <1>1, <1>2, <1>4, <1>5, AttemptLost DEF DaemonInv, Flying, daemonVars
<1> QED BY <1>4, <1>5, <1>6, ClientMoves

\* A daemon is killed at any stage: its locks are free, its requests are cut, and what
\* was applied stays applied.
LEMMA CrashInv ==
    ASSUME DaemonInv, DaemonAssumption, NEW d \in Daemons, Crash(d)
    PROVE  DaemonInv'
<1>t. DaemonTypeOK /\ OneServer /\ (\A c \in Clients : Accounted(c)) /\ \A e \in Daemons : StageOK(e)
  BY DEF DaemonInv
<1>1. /\ pc' = [pc EXCEPT ![d] = "killed"] /\ producers' = [producers EXCEPT ![d] = {}]
      /\ serving' = [serving EXCEPT ![d] = {}] /\ writer' = [writer EXCEPT ![d] = "done"]
      /\ daemonLock' = [f \in Paths |-> IF daemonLock[f] = d THEN None ELSE daemonLock[f]]
      /\ dbLock' = IF dbLock = d THEN None ELSE dbLock
      /\ UNCHANGED <<path, unsaved, code, panicked, socket, applied, stopper, legacy, unlinked>>
  BY DEF Crash, stopVars
<1> DEFINE cut == {r \in serving[d] : client[r[1]] = Waiting[r[2]]}
<1>2. PICK to \in {"ensure", "failed"} :
         client' = [c \in Clients |-> IF <<c, 1>> \in cut THEN to
                                      ELSE IF <<c, 2>> \in cut THEN "failed" ELSE client[c]]
  BY DEF Crash, Broken
<1>3. unanswered' = unanswered \union {r[1] : r \in cut}
  BY DEF Crash
<1>c. \A r \in cut : r \in Request
  BY <1>t DEF DaemonTypeOK
<1>4. /\ pc'[d] = "killed" /\ producers'[d] = {} /\ serving'[d] = {} /\ writer'[d] = "done"
      /\ \A e \in Daemons \ {d} : /\ pc'[e] = pc[e] /\ producers'[e] = producers[e]
                                  /\ serving'[e] = serving[e] /\ writer'[e] = writer[e]
  BY <1>t, <1>1 DEF DaemonTypeOK
<1>5. StageOK(d)'
  BY <1>t, <1>1, <1>4 DEF StageOK, OpenStage, Listening
<1>6. ASSUME NEW e \in Daemons \ {d} PROVE StageOK(e)'
  <2>1. Untouched(e)
    BY <1>t, <1>1, <1>4 DEF Untouched, DaemonTypeOK, DaemonAssumption
  <2> QED BY <1>t, <2>1, UntouchedStays
<1>7. OneServer'
  BY <1>t, <1>4 DEF OneServer
<1>8. ASSUME NEW c \in Clients PROVE Accounted(c)' /\ client'[c] \in ClientState
  <2>1. /\ (Flying(c, 1)' => Flying(c, 1)) /\ (Flying(c, 2)' => Flying(c, 2)) /\ applied'[c] = applied[c]
        /\ client[c] \in ClientState /\ Accounted(c)
    BY <1>t, <1>1, <1>4 DEF Flying, DaemonTypeOK
  <2>2. ASSUME NEW n \in 1 .. 2, <<c, n>> \in cut PROVE Accounted(c)' /\ client'[c] \in ClientState
    <3>1. client[c] = Waiting[n] /\ c \in unanswered'
      BY <1>3, <2>2
    <3>2. client'[c] \in {"failed"} \union (IF n = 1 THEN {"ensure"} ELSE {})
      BY <1>2, <2>2, <3>1, ClientNames
    <3> QED BY <2>1, <3>1, <3>2, AttemptLost, ClientNames
  <2>3. CASE <<c, 1>> \notin cut /\ <<c, 2>> \notin cut
    <3>1. client'[c] = client[c]
      BY <1>2, <2>3
    <3>2. c \in unanswered' <=> c \in unanswered
      <4>1. ASSUME NEW r \in cut PROVE r[1] # c
        <5>1. PICK b \in Clients, n \in 1 .. 2 : r = <<b, n>>
          BY <1>c DEF Request
        <5> QED BY <2>3, <5>1
      <4> QED BY <1>3, <4>1
    <3> QED BY <2>1, <3>1, <3>2 DEF Accounted
  <2> QED BY <2>2, <2>3
<1>9. DaemonTypeOK'
  <2>1. client' \in [Clients -> ClientState] /\ unanswered' \subseteq Clients
    <3>1. \A r \in cut : r[1] \in Clients
      BY <1>c DEF Request
    <3>2. unanswered \subseteq Clients
      BY <1>t DEF DaemonTypeOK
    <3> QED BY <1>2, <1>3, <1>8, <3>1, <3>2
  <2>2. /\ pc' \in [Daemons -> PcState] /\ producers' \in [Daemons -> SUBSET Producer]
        /\ serving' \in [Daemons -> SUBSET Request]
        /\ writer' \in [Daemons -> {"off", "open", "closing", "done"}]
    BY <1>t, <1>1, Names DEF DaemonTypeOK
  <2>3. daemonLock' \in [Paths -> Daemons \union {None}] /\ dbLock' \in Daemons \union {None}
    BY <1>t, <1>1 DEF DaemonTypeOK
  <2> QED BY <1>t, <1>1, <2>1, <2>2, <2>3 DEF DaemonTypeOK
<1>10. NoEnqueueAfterClose' /\ UnlinkedOnce'
  BY <1>1 DEF DaemonInv, NoEnqueueAfterClose, UnlinkedOnce
<1> QED BY <1>5, <1>6, <1>7, <1>8, <1>9, <1>10 DEF DaemonInv

\* The stop command.  It removes a socket it did not look at only once, before which
\* nothing was removed under a daemon.
LEMMA StopInv ==
    ASSUME DaemonInv, DaemonAssumption,
           Stop \/ LegacyDies \/ RemoveLegacySocket \/ StopSeen \/ StopTimesOut
    PROVE  DaemonInv'
<1>t. DaemonTypeOK /\ UnlinkedOnce /\ \A e \in Daemons : StageOK(e)
  BY DEF DaemonInv
<1>1. UNCHANGED <<path, producers, serving, writer, unsaved, code, panicked>>
      /\ UNCHANGED <<daemonLock, dbLock, client, applied, unanswered>>
  BY DEF Stop, LegacyDies, RemoveLegacySocket, StopSeen, StopTimesOut, daemonVars, lockVars, clientVars
<1>2. OneServer' /\ (\A c \in Clients : Accounted(c)') /\ NoEnqueueAfterClose'
  BY <1>1, RequestsKept DEF DaemonInv, NoEnqueueAfterClose
<1>p. ClientPath \in Paths
  BY DEF ClientPath, DaemonAssumption
<1>3. CASE Stop
  <2>1. UNCHANGED <<socket, legacy, unlinked>> /\ stopper = "idle"
    BY <1>3 DEF Stop, lockVars
  <2>2. stopper' \in {"not running", "failed", "signalled", "waiting"}
    BY <1>3 DEF Stop
  <2>3. UnlinkedOnce'
    BY <1>t, <2>1 DEF UnlinkedOnce
  <2>4. CASE UNCHANGED pc
    <3>1. DaemonTypeOK'
      BY <1>t, <1>1, <2>1, <2>2, <2>4 DEF DaemonTypeOK
    <3>2. \A e \in Daemons : StageOK(e)'
      BY <1>t, <1>1, <2>1, <2>4 DEF StageOK, Listening
    <3> QED BY <1>2, <2>3, <3>1, <3>2 DEF DaemonInv
  <2>5. CASE ~UNCHANGED pc
    <3>1. Reachable(ClientPath) /\ socket[ClientPath] # Legacy /\ BeginStop(socket[ClientPath])
      BY <1>3, <2>5 DEF Stop
    <3>2. PICK d \in Daemons : pc[d] = "serve" /\ pc' = [pc EXCEPT ![d] = "refuse"]
      BY <3>1 DEF Reachable, BeginStop
    <3>3. DaemonTypeOK'
      BY <1>t, <1>1, <2>1, <2>2, <3>2, Names DEF DaemonTypeOK
    <3>4. pc'[d] = "refuse" /\ \A e \in Daemons \ {d} : pc'[e] = pc[e]
      BY <1>t, <3>2 DEF DaemonTypeOK
    <3>5. StageOK(d)'
      BY <1>t, <1>1, <2>1, <3>2, <3>4 DEF StageOK, OpenStage, Listening
    <3>6. \A e \in Daemons \ {d} : StageOK(e)'
      BY <1>t, <1>1, <2>1, <3>4 DEF StageOK, Listening
    <3> QED BY <1>2, <2>3, <3>3, <3>5, <3>6 DEF DaemonInv
  <2> QED BY <2>4, <2>5
<1>4. CASE LegacyDies
  <2>1. /\ UNCHANGED <<pc, stopper, unlinked>> /\ legacy' = "dead"
        /\ socket' \in [Paths -> Daemons \union {None, Legacy}]
        /\ \A f \in Paths : socket[f] # Legacy => socket'[f] = socket[f]
    BY <1>t, <1>4 DEF LegacyDies, daemonVars, DaemonTypeOK
  <2>2. DaemonTypeOK' /\ UnlinkedOnce'
    BY <1>t, <1>1, <2>1 DEF DaemonTypeOK, UnlinkedOnce
  <2>3. \A e \in Daemons : Untouched(e)
    BY <1>t, <1>1, <2>1 DEF Untouched, DaemonTypeOK, DaemonAssumption
  <2> QED BY <1>t, <1>2, <2>2, <2>3, UntouchedStays DEF DaemonInv
<1>5. CASE RemoveLegacySocket
  <2>1. /\ UNCHANGED <<pc, legacy>> /\ stopper = "signalled" /\ stopper' = "waiting"
        /\ unlinked' = (socket[ClientPath] \in Daemons) /\ socket' = [socket EXCEPT ![ClientPath] = None]
    BY <1>5 DEF RemoveLegacySocket, daemonVars
  <2>2. ~unlinked /\ UnlinkedOnce'
    BY <1>t, <2>1 DEF UnlinkedOnce
  <2>3. DaemonTypeOK'
    <3>1. unlinked' \in BOOLEAN
      BY <2>1
    <3> QED BY <1>t, <1>1, <1>p, <2>1, <3>1 DEF DaemonTypeOK
  <2>4. \A e \in Daemons : Untouched(e)
    BY <1>t, <1>1, <1>p, <2>1, <2>2 DEF Untouched, DaemonTypeOK
  <2> QED BY <1>t, <1>2, <2>2, <2>3, <2>4, UntouchedStays DEF DaemonInv
<1>6. CASE StopSeen \/ StopTimesOut
  <2>1. /\ UNCHANGED <<pc, socket, legacy, unlinked>> /\ stopper' \in {"stopped", "failed"}
    BY <1>6 DEF StopSeen, StopTimesOut, daemonVars, lockVars
  <2>2. DaemonTypeOK' /\ UnlinkedOnce'
    BY <1>t, <1>1, <2>1 DEF DaemonTypeOK, UnlinkedOnce
  <2>3. \A e \in Daemons : StageOK(e)'
    BY <1>t, <1>1, <2>1 DEF StageOK, Listening
  <2> QED BY <1>2, <2>2, <2>3 DEF DaemonInv
<1> QED BY <1>3, <1>4, <1>5, <1>6

-----------------------------------------------------------------------------
(* The theorems.                                                           *)

\* A state of the daemons that nothing changes stays good.
LEMMA DaemonStutter ==
    ASSUME DaemonInv, UNCHANGED vars
    PROVE  DaemonInv'
<1>1. UNCHANGED <<path, pc, producers, serving, writer, unsaved, code, panicked, daemonLock, dbLock, socket>>
      /\ UNCHANGED <<client, applied, unanswered, stopper, legacy, unlinked>>
  BY DEF vars, daemonVars, lockVars, clientVars, stopVars
<1>2. OneServer' /\ (\A c \in Clients : Accounted(c)') /\ NoEnqueueAfterClose' /\ UnlinkedOnce'
  BY <1>1, RequestsKept DEF DaemonInv, NoEnqueueAfterClose, UnlinkedOnce
<1>3. DaemonTypeOK' /\ \A e \in Daemons : StageOK(e)'
  BY <1>1 DEF DaemonInv, DaemonTypeOK, StageOK, Listening
<1> QED BY <1>2, <1>3 DEF DaemonInv

\* What a daemon holds at each stage of its life, and what became of every request,
\* is kept by every step of every process: DaemonInv is inductive.
THEOREM DaemonInductive == DaemonSpec => []DaemonInv
<1>1. DaemonInit => DaemonInv
  BY DaemonInitInv, DaemonAssumption
<1>2. ASSUME DaemonInv, [DaemonNext]_vars PROVE DaemonInv'
  <2>1. ASSUME NEW d \in Daemons, DaemonStep(d) PROVE DaemonInv'
    BY <1>2, <2>1, StageInv, DaemonAssumption DEF DaemonStep
  <2>2. ASSUME NEW d \in Daemons, HandlerStep(d) PROVE DaemonInv'
    BY <1>2, <2>2, HandleInv, HandlerFailsInv DEF HandlerStep
  <2>3. ASSUME NEW d \in Daemons, StartByHand(d) \/ Produce(d) \/ Commit(d) \/ ServeEnds(d) PROVE DaemonInv'
    BY <1>2, <2>3, StageInv, DaemonAssumption
  <2>4. ASSUME NEW d \in Daemons, CloseConnections(d) \/ Crash(d) PROVE DaemonInv'
    BY <1>2, <2>4, CloseConnectionsInv, CrashInv, DaemonAssumption
  <2>5. ASSUME NEW c \in Clients, ClientStep(c) PROVE DaemonInv'
    BY <1>2, <2>5, ClientInv, SendInv, EnsureInv, DaemonAssumption DEF ClientStep
  <2>6. ASSUME Stop \/ LegacyDies \/ RemoveLegacySocket \/ StopSeen \/ StopTimesOut PROVE DaemonInv'
    BY <1>2, <2>6, StopInv, DaemonAssumption
  <2>7. ASSUME UNCHANGED vars PROVE DaemonInv'
    BY <1>2, <2>7, DaemonStutter
  <2> QED BY <1>2, <2>1, <2>2, <2>3, <2>4, <2>5, <2>6, <2>7 DEF DaemonNext
<1> QED BY <1>1, <1>2, PTL DEF DaemonSpec

\* What a daemon says holds (daemon.go, writer.go, client.go): an exit with code 0
\* lost no change, nothing is enqueued once Close has begun, a request answered with
\* success took effect, and took effect twice only after an answer was lost.  For any
\* number of processes on any sockets, killed at any point.
THEOREM PromisesKept == DaemonSpec => []PromisesAreKept
<1>1. DaemonInv => PromisesAreKept
  <2> SUFFICES ASSUME DaemonInv PROVE PromisesAreKept
    OBVIOUS
  <2>1. CleanExitSaved
    BY DEF DaemonInv, CleanExitSaved, StageOK
  <2>2. ASSUME NEW c \in Clients
        PROVE  /\ client[c] = "ok" => applied[c] >= 1
               /\ applied[c] <= IF c \in unanswered THEN 2 ELSE 1
    <3>1. Accounted(c)
      BY DEF DaemonInv
    <3> QED BY <3>1 DEF Accounted
  <2> QED BY <2>1, <2>2 DEF DaemonInv, PromisesAreKept, RequestOutcome
<1> QED BY <1>1, DaemonInductive, PTL

\* The locks of daemon_lock.go and of the writer do what they are for: one process per
\* database, one listener per path, and the path of a listening daemon leads to it,
\* unless the stop of a legacy daemon removed it.
THEOREM SocketAndDatabaseOwned == DaemonSpec => []OwnSocketAndDatabase
<1>1. DaemonInv => OwnSocketAndDatabase
  <2> SUFFICES ASSUME DaemonInv PROVE OwnSocketAndDatabase
    OBVIOUS
  <2>1. \A d \in Daemons : StageOK(d)
    BY DEF DaemonInv
  <2> QED BY <2>1 DEF OwnSocketAndDatabase, StageOK, OpenStage, Listening
<1> QED BY <1>1, DaemonInductive, PTL
=============================================================================
