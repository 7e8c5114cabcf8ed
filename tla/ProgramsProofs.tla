--------------------------- MODULE ProgramsProofs ---------------------------
(***************************************************************************)
(* The proofs about four programs that run beside the daemon and depend on *)
(* processes that may die, be late or never answer: the language server    *)
(* client of the lsp role (cmd/agent-role/lsp/main.go), the background     *)
(* debate (internal/backgrounddebate, internal/cli/debatebackground), the  *)
(* pop-ups of the agent dashboard (internal/agentdashboard) and the        *)
(* request table of the tab-network role                                   *)
(* (cmd/agent-role/tabnetwork/tabnetwork.go).  The four share no state.    *)
(***************************************************************************)
EXTENDS LspClient, BackgroundDebate, DashboardPopups, RequestTable,
        SequenceTheorems, FiniteSetTheorems, WellFoundedInduction, TLAPS

-----------------------------------------------------------------------------
(* The language server client.                                             *)

\* The client with its reader and its server, by themselves.
LspSpec == LspInit /\ [][LspNext]_lspVars

LspStep == {"initialize", "analyze", "shutdown", "exit", "wait", "done", "failed"}
FileOrNone == Files \union {NoFile}
SlotType == [ok: BOOLEAN, of: FileOrNone \union {"error", "nothing"}]
MessageType == [kind: {"response", "request", "notification"}, id: Nat, ok: BOOLEAN,
                of: FileOrNone \union {"error"}]

\* The variables of the client, its reader and the server keep their types.
LspTypeOK ==
    /\ step \in LspStep /\ at \in 1 .. Len(Uses) /\ nextID \in Nat
    /\ asking \in [id: Nat, file: FileOrNone]
    /\ slot \in Seq(SlotType) /\ pending \subseteq Nat
    /\ cache \in [Files -> FileOrNone]
    /\ opened \in [Files -> Nat] /\ failures \in [Files -> Nat]
    /\ queued \subseteq [id: Nat, file: FileOrNone]
    /\ pipe \in Seq(MessageType) /\ asks \subseteq Nat /\ told \in Nat

\* IDs are given out once: every request under way has one that was, and the request
\* that run waits for has the last.
IDsAreIssued ==
    /\ nextID = Len(slot) + 1
    /\ \A i \in pending : i \in 1 .. Len(slot)
    /\ \A r \in queued : r.id <= Len(slot)
    /\ \A n \in 1 .. Len(pipe) : pipe[n].kind = "response" => pipe[n].id <= Len(slot)
    /\ asking # NoRequest => asking.id = Len(slot) /\ asking.id >= 1

\* Wherever the answer to the request that run waits for is - not written yet, in the
\* pipe, in the channel - it is about the file that was asked for.
AnswerIsOfAsked ==
    asking # NoRequest =>
       /\ \A r \in queued : r.id = asking.id => r.file = asking.file
       /\ \A n \in 1 .. Len(pipe) :
             pipe[n].kind = "response" /\ pipe[n].id = asking.id /\ pipe[n].ok => pipe[n].of = asking.file
       /\ slot[asking.id].ok => slot[asking.id].of = asking.file

\* While run waits for symbols, they are those of the use it is at, which is not cached.
AskedIsAt ==
    asking # NoRequest =>
       /\ step \in {"initialize", "analyze", "shutdown"}
       /\ step = "analyze" => asking.file = Uses[at] /\ cache[asking.file] = NoFile

\* The symbols of f are being asked for.
BeingAsked(f) == asking # NoRequest /\ step = "analyze" /\ asking.file = f

\* Every opening of a file that is not cached has failed or is the one under way; one
\* more than those that failed has led to the symbols of a file that is.
OpeningsAccounted ==
    \A f \in Files :
       opened[f] = failures[f] + (IF cache[f] # NoFile \/ BeingAsked(f) THEN 1 ELSE 0)

\* The inductive invariant of the client.
LspInv ==
    /\ LspTypeOK /\ IDsAreIssued /\ AnswerIsOfAsked /\ AskedIsAt
    /\ SymbolsAreTheFiles /\ OpeningsAccounted /\ ServerIsAnswered

LEMMA UsesAreFiles ==
    ASSUME LspAssumption
    PROVE  /\ Len(Uses) \in Nat \ {0}
           /\ \A i \in 1 .. Len(Uses) : Uses[i] \in Files /\ Uses[i] # NoFile
<1>1. Uses \in Seq(Files) /\ Uses # <<>>
  BY DEF LspAssumption
<1>2. Len(Uses) \in Nat \ {0}
  BY <1>1, EmptySeq, LenProperties
<1>3. \A i \in 1 .. Len(Uses) : Uses[i] \in Files
  BY <1>1, ElementOfSeq
<1> QED BY <1>2, <1>3 DEF LspAssumption

LEMMA LspInitInv ==
    ASSUME LspInit, LspAssumption
    PROVE  LspInv
<1> USE DEF LspInit
<1>1. LspTypeOK
  BY UsesAreFiles DEF LspTypeOK, LspStep, FileOrNone, NoRequest
<1>2. IDsAreIssued /\ AnswerIsOfAsked /\ AskedIsAt
  BY DEF IDsAreIssued, AnswerIsOfAsked, AskedIsAt
<1>3. SymbolsAreTheFiles /\ OpeningsAccounted
  BY DEF SymbolsAreTheFiles, OpeningsAccounted, BeingAsked
<1>4. ServerIsAnswered
  BY DEF ServerIsAnswered
<1> QED BY <1>1, <1>2, <1>3, <1>4 DEF LspInv

\* request gives out the next ID, and nothing that is under way has it.
LEMMA RequestKeeps ==
    ASSUME LspInv, LspAssumption, NEW file \in FileOrNone, request(file),
           asking = NoRequest, UNCHANGED <<pipe>>
    PROVE  /\ nextID' \in Nat /\ asking' \in [id: Nat, file: FileOrNone]
           /\ slot' \in Seq(SlotType) /\ pending' \subseteq Nat
           /\ queued' \subseteq [id: Nat, file: FileOrNone]
           /\ asking' # NoRequest /\ asking'.file = file
           /\ IDsAreIssued' /\ AnswerIsOfAsked'
<1> DEFINE r == [id |-> nextID, file |-> file]
<1>1. /\ nextID' = nextID + 1 /\ asking' = r
      /\ slot' = Append(slot, NoAnswer) /\ pending' = pending \union {nextID}
      /\ queued' \subseteq queued \union {r}
  BY DEF request
<1>2. slot \in Seq(SlotType) /\ nextID = Len(slot) + 1 /\ Len(slot) \in Nat /\ pending \subseteq Nat
  BY LenProperties DEF LspInv, LspTypeOK, IDsAreIssued
<1>3. NoAnswer \in SlotType
  BY DEF NoAnswer, SlotType
<1>4. slot' \in Seq(SlotType) /\ Len(slot') = Len(slot) + 1 /\ slot'[Len(slot) + 1] = NoAnswer
  BY <1>1, <1>2, <1>3, AppendProperties
<1>5. r \in [id: Nat, file: FileOrNone] /\ r.id = Len(slot) + 1 /\ r.file = file
  BY <1>2
<1>6. r # NoRequest
  BY <1>2, <1>5 DEF NoRequest
<1>7. queued' \subseteq [id: Nat, file: FileOrNone]
  BY <1>1, <1>5 DEF LspInv, LspTypeOK
<1>8. \A x \in queued' : x = r \/ (x.id <= Len(slot) /\ x.id \in Nat)
  BY <1>1 DEF LspInv, LspTypeOK, IDsAreIssued
<1>9. \A n \in 1 .. Len(pipe') : pipe'[n].kind = "response" => pipe'[n].id <= Len(slot) /\ pipe'[n].id \in Nat
  <2>1. ASSUME NEW n \in 1 .. Len(pipe) PROVE pipe[n] \in MessageType
    BY ElementOfSeq DEF LspInv, LspTypeOK
  <2> QED BY <2>1 DEF LspInv, IDsAreIssued, MessageType
<1>10. IDsAreIssued'
  <2>1. nextID' = Len(slot') + 1
    BY <1>1, <1>2, <1>4
  <2>2. \A i \in pending' : i \in 1 .. Len(slot')
    BY <1>1, <1>2, <1>4 DEF LspInv, IDsAreIssued
  <2>3. \A x \in queued' : x.id <= Len(slot')
    BY <1>2, <1>4, <1>5, <1>8
  <2>4. \A n \in 1 .. Len(pipe') : pipe'[n].kind = "response" => pipe'[n].id <= Len(slot')
    BY <1>2, <1>4, <1>9
  <2>5. asking'.id = Len(slot') /\ asking'.id >= 1
    BY <1>1, <1>2, <1>4, <1>5
  <2> QED BY <2>1, <2>2, <2>3, <2>4, <2>5 DEF IDsAreIssued
<1>11. AnswerIsOfAsked'
  <2>1. asking'.id = Len(slot) + 1 /\ asking'.file = file
    BY <1>1, <1>5
  <2>2. \A x \in queued' : x.id = asking'.id => x.file = asking'.file
    BY <1>2, <1>5, <1>8, <2>1
  <2>3. \A n \in 1 .. Len(pipe') : pipe'[n].kind = "response" => pipe'[n].id # asking'.id
    BY <1>2, <1>9, <2>1
  <2>4. ~slot'[asking'.id].ok
    BY <1>4, <2>1 DEF NoAnswer
  <2> QED BY <2>2, <2>3, <2>4 DEF AnswerIsOfAsked
<1>12. nextID' \in Nat /\ pending' \subseteq Nat
  <2>1. nextID \in Nat
    BY DEF LspInv, LspTypeOK
  <2>2. nextID' = nextID + 1 /\ pending' = pending \union {nextID} /\ pending \subseteq Nat
    BY <1>1, <1>2
  <2>3. nextID' \in Nat
    BY <2>1, <2>2
  <2> QED BY <2>1, <2>2, <2>3, Zenon
<1> QED BY <1>1, <1>4, <1>5, <1>6, <1>7, <1>10, <1>11, <1>12

LEMMA CallKeeps ==
    ASSUME LspInv, LspAssumption, Call
    PROVE  LspInv'
<1>1. /\ asking = NoRequest /\ step \in {"initialize", "shutdown"} /\ request(NoFile)
      /\ UNCHANGED <<step, at, cache, opened, failures, server, pipe, asks, told>>
  BY DEF Call
<1>2. NoFile \in FileOrNone
  BY DEF FileOrNone
<1>3. /\ nextID' \in Nat /\ asking' \in [id: Nat, file: FileOrNone]
      /\ slot' \in Seq(SlotType) /\ pending' \subseteq Nat
      /\ queued' \subseteq [id: Nat, file: FileOrNone]
      /\ asking' # NoRequest /\ asking'.file = NoFile
      /\ IDsAreIssued' /\ AnswerIsOfAsked'
  BY <1>1, <1>2, RequestKeeps
<1>4. LspTypeOK'
  BY <1>1, <1>3 DEF LspInv, LspTypeOK
<1>5. AskedIsAt'
  BY <1>1, <1>3 DEF AskedIsAt
<1>6. SymbolsAreTheFiles' /\ ServerIsAnswered'
  BY <1>1 DEF LspInv, SymbolsAreTheFiles, ServerIsAnswered
<1>7. OpeningsAccounted'
  <2>1. \A f \in Files : ~BeingAsked(f) /\ ~BeingAsked(f)'
    BY <1>1 DEF BeingAsked
  <2> QED BY <1>1, <2>1 DEF LspInv, OpeningsAccounted
<1> QED BY <1>3, <1>4, <1>5, <1>6, <1>7 DEF LspInv

LEMMA AnalyzeFileKeeps ==
    ASSUME LspInv, LspAssumption, AnalyzeFile
    PROVE  LspInv'
<1>0. PICK f0 \in Files : f0 = Uses[at] /\ f0 # NoFile
  BY UsesAreFiles DEF LspInv, LspTypeOK
<1>1. /\ asking = NoRequest /\ step = "analyze" /\ cache[f0] = NoFile /\ request(f0)
      /\ opened' = [opened EXCEPT ![f0] = @ + 1]
      /\ UNCHANGED <<step, at, cache, failures, server, pipe, asks, told>>
  BY <1>0 DEF AnalyzeFile
<1>2. f0 \in FileOrNone
  BY DEF FileOrNone
<1>3. /\ nextID' \in Nat /\ asking' \in [id: Nat, file: FileOrNone]
      /\ slot' \in Seq(SlotType) /\ pending' \subseteq Nat
      /\ queued' \subseteq [id: Nat, file: FileOrNone]
      /\ asking' # NoRequest /\ asking'.file = f0
      /\ IDsAreIssued' /\ AnswerIsOfAsked'
  BY <1>1, <1>2, RequestKeeps
<1>4. opened \in [Files -> Nat] /\ opened' \in [Files -> Nat]
  BY <1>1 DEF LspInv, LspTypeOK
<1>5. LspTypeOK'
  BY <1>1, <1>3, <1>4 DEF LspInv, LspTypeOK
<1>6. AskedIsAt'
  BY <1>0, <1>1, <1>3 DEF AskedIsAt
<1>7. SymbolsAreTheFiles' /\ ServerIsAnswered'
  BY <1>1 DEF LspInv, SymbolsAreTheFiles, ServerIsAnswered
<1>8. OpeningsAccounted'
  <2>1. \A f \in Files : ~BeingAsked(f) /\ (BeingAsked(f)' <=> f = f0)
    BY <1>1, <1>3 DEF BeingAsked
  <2>2. failures \in [Files -> Nat]
    BY DEF LspInv, LspTypeOK
  <2> SUFFICES ASSUME NEW f \in Files
               PROVE  opened'[f] = failures'[f] + (IF cache'[f] # NoFile \/ BeingAsked(f)' THEN 1 ELSE 0)
    BY DEF OpeningsAccounted
  <2>3. opened[f] = failures[f] + (IF cache[f] # NoFile THEN 1 ELSE 0)
    BY <2>1 DEF LspInv, OpeningsAccounted
  <2>4. CASE f = f0
    BY <1>1, <1>4, <2>1, <2>2, <2>3, <2>4
  <2>5. CASE f # f0
    BY <1>1, <1>4, <2>1, <2>2, <2>3, <2>5
  <2> QED BY <2>4, <2>5
<1> QED BY <1>3, <1>5, <1>6, <1>7, <1>8 DEF LspInv

LEMMA AdvanceTypes ==
    ASSUME LspInv, LspAssumption, Advance
    PROVE  step' \in LspStep /\ at' \in 1 .. Len(Uses)
<1>1. step \in LspStep /\ at \in 1 .. Len(Uses) /\ Len(Uses) \in Nat
  BY UsesAreFiles DEF LspInv, LspTypeOK
<1>2. CASE step = "analyze" /\ at < Len(Uses)
  BY <1>1, <1>2 DEF Advance
<1>3. CASE ~(step = "analyze" /\ at < Len(Uses))
  BY <1>1, <1>3 DEF Advance, LspStep
<1> QED BY <1>2, <1>3

\* Nothing is waited for any more: what is under way needs to match nothing.
LEMMA NotAsking ==
    ASSUME LspInv, asking' = NoRequest, UNCHANGED <<nextID, slot, pending, pipe>>, queued' \subseteq queued
    PROVE  IDsAreIssued' /\ AnswerIsOfAsked' /\ AskedIsAt' /\ \A f \in Files : ~BeingAsked(f)'
<1>1. IDsAreIssued'
  BY DEF LspInv, IDsAreIssued
<1> QED BY <1>1 DEF AnswerIsOfAsked, AskedIsAt, BeingAsked

LEMMA AlreadyAnalyzedKeeps ==
    ASSUME LspInv, LspAssumption, AlreadyAnalyzed
    PROVE  LspInv'
<1>1. /\ asking = NoRequest /\ Advance
      /\ UNCHANGED <<nextID, asking, slot, pending, cache, opened, failures, server, queued, pipe, asks, told>>
  BY DEF AlreadyAnalyzed
<1>2. step' \in LspStep /\ at' \in 1 .. Len(Uses)
  BY <1>1, AdvanceTypes
<1>3. LspTypeOK'
  BY <1>1, <1>2 DEF LspInv, LspTypeOK
<1>4. IDsAreIssued' /\ AnswerIsOfAsked' /\ AskedIsAt' /\ \A f \in Files : ~BeingAsked(f)'
  BY <1>1, NotAsking
<1>5. SymbolsAreTheFiles' /\ ServerIsAnswered'
  BY <1>1 DEF LspInv, SymbolsAreTheFiles, ServerIsAnswered
<1>6. OpeningsAccounted'
  <2>1. \A f \in Files : ~BeingAsked(f)
    BY <1>1 DEF BeingAsked
  <2> QED BY <1>1, <1>4, <2>1 DEF LspInv, OpeningsAccounted
<1> QED BY <1>3, <1>4, <1>5, <1>6 DEF LspInv

\* The answer that run takes from its channel is about the file it asked for, so that
\* is what the cache holds.
LEMMA AnsweredKeeps ==
    ASSUME LspInv, LspAssumption, Answered
    PROVE  LspInv'
<1>1. /\ asking # NoRequest /\ slot[asking.id].ok /\ asking' = NoRequest /\ Advance
      /\ UNCHANGED <<nextID, slot, pending, opened, failures, server, queued, pipe, asks, told>>
  BY DEF Answered
<1>2. step' \in LspStep /\ at' \in 1 .. Len(Uses)
  BY <1>1, AdvanceTypes
<1>3. slot[asking.id].of = asking.file
  BY <1>1 DEF LspInv, AnswerIsOfAsked
<1>4. cache \in [Files -> FileOrNone] /\ opened \in [Files -> Nat] /\ failures \in [Files -> Nat]
  BY DEF LspInv, LspTypeOK
<1>5. IDsAreIssued' /\ AnswerIsOfAsked' /\ AskedIsAt' /\ \A f \in Files : ~BeingAsked(f)'
  BY <1>1, NotAsking
<1>6. ServerIsAnswered'
  BY <1>1 DEF LspInv, ServerIsAnswered
<1>7. CASE step = "analyze"
  <2>0. PICK f0 \in Files : f0 = asking.file /\ f0 # NoFile
    BY <1>1, <1>7, UsesAreFiles DEF LspInv, LspTypeOK, AskedIsAt
  <2>1. cache' = [cache EXCEPT ![f0] = f0]
    BY <1>3, <1>7, <2>0 DEF Answered
  <2>2. f0 \in FileOrNone
    BY DEF FileOrNone
  <2>3. cache' \in [Files -> FileOrNone]
    BY <1>4, <2>1, <2>2
  <2>4. LspTypeOK'
    BY <1>1, <1>2, <2>3 DEF LspInv, LspTypeOK, NoRequest, FileOrNone
  <2>5. SymbolsAreTheFiles'
    BY <1>4, <2>1 DEF LspInv, SymbolsAreTheFiles
  <2>6. \A f \in Files : BeingAsked(f) <=> f = f0
    BY <1>1, <1>7, <2>0 DEF BeingAsked
  <2>7. \A f \in Files : cache'[f] # NoFile <=> (cache[f] # NoFile \/ f = f0)
    BY <1>4, <2>0, <2>1
  <2>8. OpeningsAccounted'
    BY <1>1, <1>5, <2>6, <2>7 DEF LspInv, OpeningsAccounted
  <2> QED BY <1>5, <1>6, <2>4, <2>5, <2>8 DEF LspInv
<1>8. CASE step # "analyze"
  <2>1. cache' = cache
    BY <1>8 DEF Answered
  <2>2. LspTypeOK'
    BY <1>1, <1>2, <2>1 DEF LspInv, LspTypeOK, NoRequest, FileOrNone
  <2>3. SymbolsAreTheFiles'
    BY <2>1 DEF LspInv, SymbolsAreTheFiles
  <2>4. \A f \in Files : ~BeingAsked(f)
    BY <1>8 DEF BeingAsked
  <2>5. OpeningsAccounted'
    BY <1>1, <1>5, <2>1, <2>4 DEF LspInv, OpeningsAccounted
  <2> QED BY <1>5, <1>6, <2>2, <2>3, <2>5 DEF LspInv
<1> QED BY <1>7, <1>8

LEMMA RequestFailsKeeps ==
    ASSUME LspInv, LspAssumption, asking # NoRequest, RequestFails
    PROVE  LspInv'
<1>1. asking' = NoRequest /\ UNCHANGED <<nextID, slot, pending, cache, opened, pipe, told>>
  BY DEF RequestFails
<1>2. /\ step' \in LspStep /\ at' \in 1 .. Len(Uses)
      /\ \/ UNCHANGED <<queued, asks>>
         \/ queued' = {} /\ asks' = {}
  <2>1. CASE step = "analyze" /\ at > 1
    <3>1. Advance /\ UNCHANGED <<queued, asks>>
      BY <2>1 DEF RequestFails
    <3> QED BY <3>1, AdvanceTypes
  <2>2. CASE ~(step = "analyze" /\ at > 1)
    <3>1. step' = "failed" /\ at' = at /\ queued' = {} /\ asks' = {}
      BY <2>2 DEF RequestFails
    <3> QED BY <3>1 DEF LspInv, LspTypeOK, LspStep
  <2> QED BY <2>1, <2>2
<1>3. queued' \subseteq queued /\ asks' \subseteq asks
  BY <1>2
<1>4. cache \in [Files -> FileOrNone] /\ opened \in [Files -> Nat] /\ failures \in [Files -> Nat]
  BY DEF LspInv, LspTypeOK
<1>5. IDsAreIssued' /\ AnswerIsOfAsked' /\ AskedIsAt' /\ \A f \in Files : ~BeingAsked(f)'
  BY <1>1, <1>3, NotAsking
<1>6. ServerIsAnswered' /\ SymbolsAreTheFiles'
  BY <1>1, <1>3 DEF LspInv, ServerIsAnswered, SymbolsAreTheFiles
<1>7. failures' \in [Files -> Nat] /\ OpeningsAccounted'
  <2>1. CASE step = "analyze"
    <3>0. PICK f0 \in Files : f0 = asking.file /\ f0 # NoFile /\ cache[f0] = NoFile
      BY <2>1, UsesAreFiles DEF LspInv, LspTypeOK, AskedIsAt
    <3>1. failures' = [failures EXCEPT ![f0] = @ + 1]
      BY <2>1, <3>0 DEF RequestFails
    <3>2. failures' \in [Files -> Nat]
      BY <1>4, <3>1
    <3>3. \A f \in Files : BeingAsked(f) <=> f = f0
      BY <2>1, <3>0 DEF BeingAsked
    <3>4. ASSUME NEW f \in Files
          PROVE  opened'[f] = failures'[f] + (IF cache'[f] # NoFile \/ BeingAsked(f)' THEN 1 ELSE 0)
      <4>1. opened[f] = failures[f] + (IF cache[f] # NoFile \/ f = f0 THEN 1 ELSE 0)
        BY <3>3 DEF LspInv, OpeningsAccounted
      <4>2. CASE f = f0
        BY <1>1, <1>4, <1>5, <3>0, <3>1, <4>1, <4>2
      <4>3. CASE f # f0
        BY <1>1, <1>4, <1>5, <3>1, <4>1, <4>3
      <4> QED BY <4>2, <4>3
    <3> QED BY <3>2, <3>4 DEF OpeningsAccounted
  <2>2. CASE step # "analyze"
    <3>1. failures' = failures
      BY <2>2 DEF RequestFails
    <3>2. \A f \in Files : ~BeingAsked(f)
      BY <2>2 DEF BeingAsked
    <3> QED BY <1>1, <1>4, <1>5, <3>1, <3>2 DEF LspInv, OpeningsAccounted
  <2> QED BY <2>1, <2>2
<1>8. LspTypeOK'
  <2>1. asking' \in [id: Nat, file: FileOrNone]
    BY <1>1 DEF NoRequest, FileOrNone
  <2> QED BY <1>1, <1>2, <1>3, <1>7, <2>1 DEF LspInv, LspTypeOK
<1> QED BY <1>5, <1>6, <1>7, <1>8 DEF LspInv

\* Exit and Waited.
LEMMA LeavingKeeps ==
    ASSUME LspInv, LspAssumption, Exit \/ Waited
    PROVE  LspInv'
<1>1. /\ step \in {"exit", "wait"} /\ step' \in {"wait", "done"}
      /\ UNCHANGED <<at, nextID, asking, slot, pending, cache, opened, failures, server, queued, pipe, asks, told>>
  BY DEF Exit, Waited
<1>2. asking = NoRequest /\ asking' = NoRequest
  BY <1>1 DEF LspInv, AskedIsAt
<1>3. LspTypeOK'
  BY <1>1 DEF LspInv, LspTypeOK, LspStep
<1>4. IDsAreIssued' /\ AnswerIsOfAsked' /\ AskedIsAt' /\ \A f \in Files : ~BeingAsked(f)'
  BY <1>1, <1>2, NotAsking
<1>5. SymbolsAreTheFiles' /\ ServerIsAnswered'
  BY <1>1 DEF LspInv, SymbolsAreTheFiles, ServerIsAnswered
<1>6. OpeningsAccounted'
  <2>1. \A f \in Files : ~BeingAsked(f)
    BY <1>2 DEF BeingAsked
  <2> QED BY <1>1, <1>4, <2>1 DEF LspInv, OpeningsAccounted
<1> QED BY <1>3, <1>4, <1>5, <1>6 DEF LspInv

\* What reader and server do leaves the program's own state as it is.
LEMMA ProgramUntouched ==
    ASSUME LspInv, UNCHANGED <<step, at, asking, cache, opened, failures>>
    PROVE  AskedIsAt' /\ SymbolsAreTheFiles' /\ OpeningsAccounted'
<1>1. AskedIsAt' /\ SymbolsAreTheFiles'
  BY DEF LspInv, AskedIsAt, SymbolsAreTheFiles
<1>2. \A f \in Files : BeingAsked(f)' <=> BeingAsked(f)
  BY DEF BeingAsked
<1> QED BY <1>1, <1>2 DEF LspInv, OpeningsAccounted

LEMMA ReadMessageKeeps ==
    ASSUME LspInv, LspAssumption, ReadMessage
    PROVE  LspInv'
<1> DEFINE m == Head(pipe)
<1>1. /\ pipe # <<>> /\ handleMessage(m) /\ pipe' = Tail(pipe)
      /\ UNCHANGED <<step, at, nextID, asking, cache, opened, failures, server, queued, told>>
  BY DEF ReadMessage
<1>2. /\ pipe \in Seq(MessageType) /\ slot \in Seq(SlotType) /\ pending \subseteq Nat /\ asks \subseteq Nat
      /\ asking \in [id: Nat, file: FileOrNone]
  BY DEF LspInv, LspTypeOK
<1>3. /\ pipe' \in Seq(MessageType) /\ Len(pipe) \in Nat \ {0} /\ Len(pipe') = Len(pipe) - 1
      /\ \A n \in 1 .. Len(pipe') : pipe'[n] = pipe[n + 1]
      /\ m = pipe[1] /\ m \in MessageType
  BY <1>1, <1>2, HeadTailProperties, EmptySeq, LenProperties, ElementOfSeq
<1>4. AskedIsAt' /\ SymbolsAreTheFiles' /\ OpeningsAccounted'
  BY <1>1, ProgramUntouched
<1>5. CASE m.kind = "response" /\ m.id \in pending
  <2> DEFINE a == [ok |-> m.ok, of |-> m.of]
  <2>1. slot' = [slot EXCEPT ![m.id] = a] /\ pending' = pending \ {m.id} /\ asks' = asks
    BY <1>1, <1>5 DEF handleMessage, ToItsRequest
  <2>2. m.id \in 1 .. Len(slot) /\ a \in SlotType
    BY <1>3, <1>5 DEF LspInv, IDsAreIssued, MessageType, SlotType
  <2>3. slot' \in Seq(SlotType) /\ Len(slot') = Len(slot)
    BY <1>2, <2>1, <2>2, ExceptSeq
  <2>4. LspTypeOK'
    BY <1>1, <1>2, <1>3, <2>1, <2>3 DEF LspInv, LspTypeOK
  <2>5. IDsAreIssued'
    <3>1. \A n \in 1 .. Len(pipe') : n + 1 \in 1 .. Len(pipe)
      BY <1>3
    <3> QED BY <1>1, <1>3, <2>1, <2>3, <3>1 DEF LspInv, IDsAreIssued
  <2>6. AnswerIsOfAsked'
    <3> SUFFICES ASSUME asking # NoRequest
                 PROVE  AnswerIsOfAsked'
      BY <1>1 DEF AnswerIsOfAsked
    <3>1. \A n \in 1 .. Len(pipe') : n + 1 \in 1 .. Len(pipe)
      BY <1>3
    <3>2. 1 \in 1 .. Len(pipe)
      BY <1>3
    <3>3. asking.id \in 1 .. Len(slot)
      BY <1>2, LenProperties DEF LspInv, IDsAreIssued
    <3>4. m.id = asking.id /\ m.ok => m.of = asking.file
      BY <1>3, <1>5, <3>2 DEF LspInv, AnswerIsOfAsked
    <3>5. slot'[asking.id].ok => slot'[asking.id].of = asking.file
      <4>1. CASE m.id = asking.id
        <5>1. slot'[asking.id] = a
          BY <1>2, <2>1, <2>2, <4>1, ExceptSeq
        <5> QED BY <3>4, <4>1, <5>1
      <4>2. CASE m.id # asking.id
        <5>1. slot'[asking.id] = slot[asking.id]
          BY <1>2, <2>1, <2>2, <3>3, <4>2, ExceptSeq
        <5> QED BY <5>1 DEF LspInv, AnswerIsOfAsked
      <4> QED BY <4>1, <4>2
    <3> QED BY <1>1, <1>3, <3>1, <3>5 DEF LspInv, AnswerIsOfAsked
  <2>7. ServerIsAnswered'
    <3> SUFFICES ASSUME NEW i \in asks
                 PROVE  \E n \in DOMAIN pipe' : pipe'[n].kind = "request" /\ pipe'[n].id = i
      BY <2>1 DEF ServerIsAnswered
    <3>1. PICK n \in DOMAIN pipe : pipe[n].kind = "request" /\ pipe[n].id = i
      BY DEF LspInv, ServerIsAnswered
    <3>2. n \in 1 .. Len(pipe) /\ n # 1
      BY <1>2, <1>3, <1>5, <3>1, LenProperties
    <3>3. n - 1 \in 1 .. Len(pipe') /\ pipe'[n - 1] = pipe[n]
      BY <1>3, <3>2
    <3>4. DOMAIN pipe' = 1 .. Len(pipe')
      BY <1>3, LenProperties
    <3> QED BY <3>1, <3>3, <3>4
  <2> QED BY <1>4, <2>4, <2>5, <2>6, <2>7 DEF LspInv
<1>6. CASE ~(m.kind = "response" /\ m.id \in pending)
  <2>1. /\ slot' = slot /\ pending' \subseteq pending
        /\ asks' = IF m.kind = "request" THEN asks \ {m.id} ELSE asks
    BY <1>1, <1>6 DEF handleMessage, ToItsRequest
  <2>2. LspTypeOK'
    BY <1>1, <1>2, <1>3, <2>1 DEF LspInv, LspTypeOK
  <2>3. \A n \in 1 .. Len(pipe') : n + 1 \in 1 .. Len(pipe)
    BY <1>3
  <2>4. IDsAreIssued'
    BY <1>1, <1>3, <2>1, <2>3 DEF LspInv, IDsAreIssued
  <2>5. AnswerIsOfAsked'
    BY <1>1, <1>3, <2>1, <2>3 DEF LspInv, AnswerIsOfAsked
  <2>6. ServerIsAnswered'
    <3> SUFFICES ASSUME NEW i \in asks'
                 PROVE  \E n \in DOMAIN pipe' : pipe'[n].kind = "request" /\ pipe'[n].id = i
      BY DEF ServerIsAnswered
    <3>0. i \in asks /\ ~(m.kind = "request" /\ m.id = i)
      BY <2>1
    <3>1. PICK n \in DOMAIN pipe : pipe[n].kind = "request" /\ pipe[n].id = i
      BY <3>0 DEF LspInv, ServerIsAnswered
    <3>2. n \in 1 .. Len(pipe) /\ n # 1
      BY <1>2, <1>3, <3>0, <3>1, LenProperties
    <3>3. n - 1 \in 1 .. Len(pipe') /\ pipe'[n - 1] = pipe[n]
      BY <1>3, <3>2
    <3>4. DOMAIN pipe' = 1 .. Len(pipe')
      BY <1>3, LenProperties
    <3> QED BY <3>1, <3>3, <3>4
  <2> QED BY <1>4, <2>2, <2>4, <2>5, <2>6 DEF LspInv
<1> QED BY <1>5, <1>6

\* A message at the end of the pipe leaves the ones before it as they are.
LEMMA MessageSent ==
    ASSUME LspInv, NEW m \in MessageType, pipe' = Append(pipe, m)
    PROVE  /\ pipe' \in Seq(MessageType) /\ Len(pipe) \in Nat /\ Len(pipe') = Len(pipe) + 1
           /\ \A n \in 1 .. Len(pipe') : \/ n \in 1 .. Len(pipe) /\ pipe'[n] = pipe[n]
                                         \/ n = Len(pipe) + 1 /\ pipe'[n] = m
           /\ \A n \in 1 .. Len(pipe) : n \in DOMAIN pipe' /\ pipe'[n] = pipe[n]
           /\ Len(pipe') \in DOMAIN pipe' /\ pipe'[Len(pipe')] = m
           /\ DOMAIN pipe = 1 .. Len(pipe)
<1>1. pipe \in Seq(MessageType) /\ Len(pipe) \in Nat /\ DOMAIN pipe = 1 .. Len(pipe)
  BY LenProperties DEF LspInv, LspTypeOK
<1>2. /\ pipe' \in Seq(MessageType) /\ Len(pipe') = Len(pipe) + 1
      /\ \A n \in 1 .. Len(pipe) : pipe'[n] = pipe[n]
      /\ pipe'[Len(pipe) + 1] = m
  BY <1>1, AppendProperties
<1>3. DOMAIN pipe' = 1 .. Len(pipe')
  BY <1>2, LenProperties
<1> QED BY <1>1, <1>2, <1>3

LEMMA ServerAnswersKeeps ==
    ASSUME LspInv, LspAssumption, NEW r \in queued, NEW ok \in BOOLEAN, ServerAnswers(r, ok)
    PROVE  LspInv'
<1> DEFINE m == ServerMessage("response", r.id, ok, IF ok THEN r.file ELSE "error")
<1>1. /\ queued' = queued \ {r} /\ pipe' = Append(pipe, m)
      /\ UNCHANGED <<step, at, nextID, asking, slot, pending, cache, opened, failures, server, asks, told>>
  BY DEF ServerAnswers
<1>2. r \in [id: Nat, file: FileOrNone]
  BY DEF LspInv, LspTypeOK
<1>3. /\ m \in MessageType /\ m.kind = "response" /\ m.id = r.id /\ m.ok = ok
      /\ m.of = IF ok THEN r.file ELSE "error"
  BY <1>2 DEF ServerMessage, MessageType
<1> HIDE DEF m
<1>4. /\ pipe' \in Seq(MessageType) /\ Len(pipe) \in Nat /\ Len(pipe') = Len(pipe) + 1
      /\ \A n \in 1 .. Len(pipe') : \/ n \in 1 .. Len(pipe) /\ pipe'[n] = pipe[n]
                                    \/ n = Len(pipe) + 1 /\ pipe'[n] = m
      /\ \A n \in 1 .. Len(pipe) : n \in DOMAIN pipe' /\ pipe'[n] = pipe[n]
      /\ DOMAIN pipe = 1 .. Len(pipe)
  BY <1>1, <1>3, MessageSent
<1>5. AskedIsAt' /\ SymbolsAreTheFiles' /\ OpeningsAccounted'
  BY <1>1, ProgramUntouched
<1>6. LspTypeOK'
  BY <1>1, <1>4 DEF LspInv, LspTypeOK
<1>7. IDsAreIssued'
  BY <1>1, <1>3, <1>4 DEF LspInv, IDsAreIssued
<1>8. AnswerIsOfAsked'
  <2> SUFFICES ASSUME asking # NoRequest
               PROVE  AnswerIsOfAsked'
    BY <1>1 DEF AnswerIsOfAsked
  <2>1. m.id = asking.id /\ m.ok => m.of = asking.file
    BY <1>3 DEF LspInv, AnswerIsOfAsked
  <2> QED BY <1>1, <1>4, <2>1 DEF LspInv, AnswerIsOfAsked
<1>9. ServerIsAnswered'
  BY <1>1, <1>4 DEF LspInv, ServerIsAnswered
<1> QED BY <1>5, <1>6, <1>7, <1>8, <1>9 DEF LspInv

LEMMA ServerTellsKeeps ==
    ASSUME LspInv, LspAssumption, NEW kind \in {"request", "notification"}, ServerTells(kind)
    PROVE  LspInv'
<1> DEFINE m == ServerMessage(kind, told + 1, TRUE, NoFile)
<1>1. /\ pipe' = Append(pipe, m) /\ told' = told + 1
      /\ asks' = IF kind = "request" THEN asks \union {told + 1} ELSE asks
      /\ UNCHANGED <<step, at, nextID, asking, slot, pending, cache, opened, failures, server, queued>>
  BY DEF ServerTells
<1>2. told \in Nat /\ told + 1 \in Nat /\ asks \subseteq Nat
  BY DEF LspInv, LspTypeOK
<1>3. m \in MessageType /\ m.kind = kind /\ m.kind # "response" /\ m.id = told + 1
  BY <1>2 DEF ServerMessage, MessageType, FileOrNone
<1> HIDE DEF m
<1>4. /\ pipe' \in Seq(MessageType) /\ Len(pipe) \in Nat /\ Len(pipe') = Len(pipe) + 1
      /\ \A n \in 1 .. Len(pipe') : \/ n \in 1 .. Len(pipe) /\ pipe'[n] = pipe[n]
                                    \/ n = Len(pipe) + 1 /\ pipe'[n] = m
      /\ \A n \in 1 .. Len(pipe) : n \in DOMAIN pipe' /\ pipe'[n] = pipe[n]
      /\ Len(pipe') \in DOMAIN pipe' /\ pipe'[Len(pipe')] = m
      /\ DOMAIN pipe = 1 .. Len(pipe)
  BY <1>1, <1>3, MessageSent
<1>5. AskedIsAt' /\ SymbolsAreTheFiles' /\ OpeningsAccounted'
  BY <1>1, ProgramUntouched
<1>6. asks' \subseteq Nat /\ told' \in Nat
  BY <1>1, <1>2
<1>7. LspTypeOK'
  BY <1>1, <1>4, <1>6 DEF LspInv, LspTypeOK
<1>8. IDsAreIssued' /\ AnswerIsOfAsked'
  BY <1>1, <1>3, <1>4 DEF LspInv, IDsAreIssued, AnswerIsOfAsked
<1>9. ServerIsAnswered'
  <2> SUFFICES ASSUME NEW i \in asks'
               PROVE  \E n \in DOMAIN pipe' : pipe'[n].kind = "request" /\ pipe'[n].id = i
    BY DEF ServerIsAnswered
  <2>1. CASE i \in asks
    BY <1>4, <2>1 DEF LspInv, ServerIsAnswered
  <2>2. CASE i \notin asks
    BY <1>1, <1>3, <1>4, <2>2
  <2> QED BY <2>1, <2>2
<1> QED BY <1>5, <1>7, <1>8, <1>9 DEF LspInv

LEMMA ServerGoneKeeps ==
    ASSUME LspInv, ServerGone
    PROVE  LspInv'
<1>1. /\ queued' = {} /\ asks' = {}
      /\ UNCHANGED <<step, at, nextID, asking, slot, pending, cache, opened, failures, pipe, told>>
  BY DEF ServerGone
<1>2. AskedIsAt' /\ SymbolsAreTheFiles' /\ OpeningsAccounted'
  BY <1>1, ProgramUntouched
<1>3. LspTypeOK'
  BY <1>1 DEF LspInv, LspTypeOK
<1>4. IDsAreIssued' /\ AnswerIsOfAsked' /\ ServerIsAnswered'
  BY <1>1 DEF LspInv, IDsAreIssued, AnswerIsOfAsked, ServerIsAnswered
<1> QED BY <1>2, <1>3, <1>4 DEF LspInv

LEMMA ServerStopsReadingKeeps ==
    ASSUME LspInv, ServerStopsReading
    PROVE  LspInv'
<1>1. UNCHANGED <<step, at, nextID, asking, slot, pending, cache, opened, failures, server, queued,
                  pipe, asks, told>>
      /\ reads' = FALSE
  BY DEF ServerStopsReading
<1>2. AskedIsAt' /\ SymbolsAreTheFiles' /\ OpeningsAccounted'
  BY <1>1, ProgramUntouched
<1>3. LspTypeOK' /\ IDsAreIssued'
  BY <1>1 DEF LspInv, LspTypeOK, IDsAreIssued
<1>4. AnswerIsOfAsked' /\ ServerIsAnswered'
  BY <1>1 DEF LspInv, AnswerIsOfAsked, ServerIsAnswered
<1> QED BY <1>2, <1>3, <1>4 DEF LspInv

LEMMA LspStutter ==
    ASSUME LspInv, UNCHANGED lspVars
    PROVE  LspInv'
<1> USE DEF lspVars
<1>1. AskedIsAt' /\ SymbolsAreTheFiles' /\ OpeningsAccounted'
  BY ProgramUntouched
<1>2. LspTypeOK' /\ IDsAreIssued'
  BY DEF LspInv, LspTypeOK, IDsAreIssued
<1>3. AnswerIsOfAsked' /\ ServerIsAnswered'
  BY DEF LspInv, AnswerIsOfAsked, ServerIsAnswered
<1> QED BY <1>1, <1>2, <1>3 DEF LspInv

\* LspInv is an invariant of the client with any sequence of files, and any number of
\* messages of the server's own.
THEOREM LspInductive == LspSpec => []LspInv
<1>1. LspInit => LspInv
  BY LspInitInv, LspAssumption
<1>2. LspInv /\ [LspNext]_lspVars => LspInv'
  <2> SUFFICES ASSUME LspInv, [LspNext]_lspVars PROVE LspInv'
    OBVIOUS
  <2> USE LspAssumption
  <2>1. CASE Call
    BY <2>1, CallKeeps
  <2>2. CASE AnalyzeFile
    BY <2>2, AnalyzeFileKeeps
  <2>3. CASE AlreadyAnalyzed
    BY <2>3, AlreadyAnalyzedKeeps
  <2>4. CASE Answered
    BY <2>4, AnsweredKeeps
  <2>5. CASE ErrorResponse \/ TimesOut
    BY <2>5, RequestFailsKeeps DEF ErrorResponse, TimesOut
  <2>6. CASE Exit \/ Waited
    BY <2>6, LeavingKeeps
  <2>7. CASE ReadMessage
    BY <2>7, ReadMessageKeeps
  <2>8. CASE ServerGone
    BY <2>8, ServerGoneKeeps
  <2>9. CASE \E r \in queued, ok \in BOOLEAN : ServerAnswers(r, ok)
    BY <2>9, ServerAnswersKeeps
  <2>10. CASE \E kind \in {"request", "notification"} : ServerTells(kind)
    BY <2>10, ServerTellsKeeps
  <2>11. CASE UNCHANGED lspVars
    BY <2>11, LspStutter
  <2>12. CASE ServerStopsReading
    BY <2>12, ServerStopsReadingKeeps
  <2> QED BY <2>1, <2>2, <2>3, <2>4, <2>5, <2>6, <2>7, <2>8, <2>9, <2>10, <2>11, <2>12
          DEF LspNext, ClientStep, ClientWrites
<1> QED BY <1>1, <1>2, PTL DEF LspSpec

\* With any files, used in any order, and a server that answers late, never or with
\* errors, sends requests of its own and dies: symbols are cached for the file they are
\* of, a document is opened again only after a failure, and a request of the server that
\* has no answer is still to be read (request, readLoop and handleMessage).
THEOREM MessagesMeet == LspSpec => []MessagesMeetRequests
<1>1. LspInv => MessagesMeetRequests
  <2> SUFFICES ASSUME LspInv PROVE ReopenedAfterFailure
    BY DEF LspInv, MessagesMeetRequests
  <2>1. opened \in [Files -> Nat] /\ failures \in [Files -> Nat]
    BY DEF LspInv, LspTypeOK
  <2> QED BY <2>1 DEF LspInv, OpeningsAccounted, ReopenedAfterFailure
<1> QED BY <1>1, LspInductive, PTL

-----------------------------------------------------------------------------
(* The background debate.                                                  *)

\* The command with its roles, by itself.
BackgroundSpec == BackgroundInit /\ [][BackgroundNext]_backgroundVars

BackgroundPhase == {"next", "role", "create", "write", "rename", "exit?", "codex", "done", "killed"}
RoleFailure == {"timeout", "execution", "malformed", "contract", "empty"}

\* The variables of the command keep their types.
BackgroundTypeOK ==
    /\ phase \in BackgroundPhase
    /\ turn \in [round: 1 .. DebateRounds + 1, role: 1 .. 3]
    /\ failure \in RoleFailure \union {"", "persistence"}
    /\ codex \in {"no", "running", "ended"} /\ exit \in {"none", "ok", "failed"}

\* The answer of the i-th role in a round.
AnswerOf(i, round) == Answer(Roles[i], round, MustQuote(Roles[i], round))

\* The i-th role has had its turn in the round.
Before(i, round) == round < turn.round \/ (round = turn.round /\ i < turn.role)

\* The answers are those of the turns that are over, each on what it has to rest on.
AnswersSoFar ==
    /\ \A i \in 1 .. 3, round \in 1 .. DebateRounds : Before(i, round) => AnswerOf(i, round) \in answers
    /\ \A a \in answers : \E i \in 1 .. 3, round \in 1 .. DebateRounds : Before(i, round) /\ a = AnswerOf(i, round)
    /\ turn.round = DebateRounds + 1 => turn.role = 1

\* The debate goes on while nothing has failed; it is saved when it is complete or
\* something has.
WholeOrFailed ==
    /\ phase \in {"next", "role"} => failure = "" /\ turn.round <= DebateRounds
    /\ phase \notin {"next", "role", "killed"} =>
          /\ failure = "" => turn.round = DebateRounds + 1
          /\ failure \in RoleFailure => turn.round <= DebateRounds
    /\ phase \in {"create", "write", "rename", "exit?", "codex"} => failure # "persistence"

\* The result file is untouched until the rename, and the result from then on.
FileReplacedOnce ==
    /\ phase \in {"next", "role", "create", "write", "rename"} => target \in {Absent, OldFile}
    /\ phase = "rename" => temp = RunResult
    /\ phase \in {"exit?", "codex"} => target = RunResult
    /\ target \in {Absent, OldFile} \/ target = RunResult

\* A result that was written is a whole debate, or says what failed.
ResultIsTrue ==
    target = RunResult => (failure = "" <=> turn.round = DebateRounds + 1)

\* The command exits once, and Codex runs only on a debate that succeeded.
ExitIsTrue ==
    /\ phase \notin {"done", "killed"} => exit = "none"
    /\ phase \in {"next", "role", "create", "write", "rename", "exit?"} => codex = "no"
    /\ phase = "codex" => failure = ""
    /\ codex # "no" \/ exit = "ok" => target = RunResult /\ failure = ""
    /\ exit = "failed" => failure # "" \/ codex = "ended"

\* The inductive invariant of the background debate.
BackgroundInv ==
    /\ BackgroundTypeOK /\ AnswersSoFar /\ WholeOrFailed /\ FileReplacedOnce
    /\ ResultIsTrue /\ ExitIsTrue /\ NoProcessOutlivesTurn

LEMMA RoundsPositive == DebateRounds \in Nat /\ DebateRounds >= 1
BY RoundsAssumption

LEMMA ResultIsNoOldFile ==
    /\ RunResult # Absent /\ RunResult # OldFile
    /\ RunResult' # Absent /\ RunResult' # OldFile
BY DEF RunResult, Absent, OldFile

LEMMA BackgroundInitInv ==
    ASSUME BackgroundInit
    PROVE  BackgroundInv
<1>0. turn = [round |-> 1, role |-> 1] /\ answers = {} /\ turn.round = 1 /\ turn.role = 1
  BY DEF BackgroundInit
<1>1. BackgroundTypeOK
  <2>1. 1 \in 1 .. DebateRounds + 1 /\ 1 \in 1 .. 3
    BY RoundsPositive
  <2>2. turn \in [round: 1 .. DebateRounds + 1, role: 1 .. 3]
    BY <1>0, <2>1
  <2> QED BY <2>2 DEF BackgroundInit, BackgroundTypeOK, BackgroundPhase
<1>2. AnswersSoFar
  <2>1. \A i \in 1 .. 3, round \in 1 .. DebateRounds : ~Before(i, round)
    BY <1>0, RoundsPositive DEF Before
  <2> QED BY <1>0, <2>1 DEF AnswersSoFar
<1>3. WholeOrFailed
  BY RoundsPositive DEF BackgroundInit, WholeOrFailed
<1>4. FileReplacedOnce
  BY DEF BackgroundInit, FileReplacedOnce
<1>5. ResultIsTrue
  BY ResultIsNoOldFile DEF BackgroundInit, ResultIsTrue
<1>6. ExitIsTrue /\ NoProcessOutlivesTurn
  BY DEF BackgroundInit, ExitIsTrue, NoProcessOutlivesTurn
<1> QED BY <1>1, <1>2, <1>3, <1>4, <1>5, <1>6 DEF BackgroundInv

\* The result is of the answers, the turn and the failure.
LEMMA SameResult ==
    ASSUME UNCHANGED <<turn, answers, failure>>
    PROVE  RunResult' = RunResult
BY DEF RunResult

LEMMA SameAnswers ==
    ASSUME AnswersSoFar, UNCHANGED <<turn, answers>>
    PROVE  AnswersSoFar'
BY DEF AnswersSoFar, Before

\* Expire, StartProvider, AgentDeadline and Killed, and steps that do nothing.
LEMMA WithoutCommandKeeps ==
    ASSUME BackgroundInv,
           Expire \/ StartProvider \/ AgentDeadline \/ Killed \/ UNCHANGED backgroundVars
    PROVE  BackgroundInv'
<1>1. /\ UNCHANGED <<turn, answers, failure, temp, target, codex, exit>>
      /\ phase' = phase \/ (phase' = "killed" /\ phase # "done")
      /\ orphaned' = orphaned /\ (group' = group \/ phase' = "role")
  BY DEF Expire, StartProvider, AgentDeadline, Killed, backgroundVars
<1>2. RunResult' = RunResult
  BY <1>1, SameResult
<1>3. BackgroundTypeOK'
  BY <1>1 DEF BackgroundInv, BackgroundTypeOK, BackgroundPhase
<1>4. AnswersSoFar'
  BY <1>1, SameAnswers DEF BackgroundInv
<1>5. WholeOrFailed'
  BY <1>1 DEF BackgroundInv, WholeOrFailed
<1>6. FileReplacedOnce' /\ ResultIsTrue'
  BY <1>1, <1>2 DEF BackgroundInv, FileReplacedOnce, ResultIsTrue
<1>7. ExitIsTrue'
  BY <1>1, <1>2 DEF BackgroundInv, ExitIsTrue
<1>8. NoProcessOutlivesTurn'
  BY <1>1 DEF BackgroundInv, NoProcessOutlivesTurn
<1> QED BY <1>3, <1>4, <1>5, <1>6, <1>7, <1>8 DEF BackgroundInv

LEMMA StartRoleKeeps ==
    ASSUME BackgroundInv, StartRole
    PROVE  BackgroundInv'
<1>1. /\ phase = "next" /\ UNCHANGED <<turn, answers, temp, target, codex, exit>>
      /\ orphaned' = orphaned
      /\ \/ phase' = "create" /\ failure' = "timeout" /\ group' = group
         \/ phase' = "role" /\ failure' = failure
  BY DEF StartRole
<1>2. target \in {Absent, OldFile}
  BY <1>1 DEF BackgroundInv, FileReplacedOnce
<1>3. BackgroundTypeOK'
  BY <1>1 DEF BackgroundInv, BackgroundTypeOK, BackgroundPhase, RoleFailure
<1>4. AnswersSoFar'
  BY <1>1, SameAnswers DEF BackgroundInv
<1>5. WholeOrFailed'
  BY <1>1 DEF BackgroundInv, WholeOrFailed
<1>6. FileReplacedOnce' /\ ResultIsTrue'
  BY <1>1, <1>2, ResultIsNoOldFile DEF FileReplacedOnce, ResultIsTrue
<1>7. ExitIsTrue'
  BY <1>1 DEF BackgroundInv, ExitIsTrue
<1>8. NoProcessOutlivesTurn'
  BY <1>1 DEF BackgroundInv, NoProcessOutlivesTurn
<1> QED BY <1>3, <1>4, <1>5, <1>6, <1>7, <1>8 DEF BackgroundInv

\* The deadline kills the whole group, and a role that ends is no more in it.
LEMMA RoleFailsKeeps ==
    ASSUME BackgroundInv, phase = "role", phase' = "create", failure' \in RoleFailure,
           "role" \notin group', group' = {} \/ orphaned',
           UNCHANGED <<turn, answers, temp, target, codex, exit>>
    PROVE  BackgroundInv'
<1>1. target \in {Absent, OldFile}
  BY DEF BackgroundInv, FileReplacedOnce
<1>2. failure' # "" /\ failure' # "persistence"
  BY DEF RoleFailure
<1>3. BackgroundTypeOK'
  BY DEF BackgroundInv, BackgroundTypeOK, BackgroundPhase
<1>4. AnswersSoFar'
  BY SameAnswers DEF BackgroundInv
<1>5. WholeOrFailed'
  BY <1>2 DEF BackgroundInv, WholeOrFailed
<1>6. FileReplacedOnce' /\ ResultIsTrue'
  BY <1>1, ResultIsNoOldFile DEF FileReplacedOnce, ResultIsTrue
<1>7. ExitIsTrue'
  BY <1>1, <1>2 DEF BackgroundInv, ExitIsTrue
<1>8. NoProcessOutlivesTurn'
  BY DEF NoProcessOutlivesTurn
<1> QED BY <1>3, <1>4, <1>5, <1>6, <1>7, <1>8 DEF BackgroundInv

LEMMA TurnTypes ==
    ASSUME BackgroundInv
    PROVE  turn.round \in 1 .. DebateRounds + 1 /\ turn.role \in 1 .. 3 /\ turn = [round |-> turn.round, role |-> turn.role]
<1>1. turn \in [round: 1 .. DebateRounds + 1, role: 1 .. 3]
  BY DEF BackgroundInv, BackgroundTypeOK
<1> QED BY <1>1

\* The answers of a role in a round that is over: one, on what it has to rest on.
LEMMA GivenBefore ==
    ASSUME BackgroundInv, NEW i \in 1 .. 3, NEW n \in 1 .. DebateRounds, Before(i, n)
    PROVE  Given(Roles[i], n) = {AnswerOf(i, n)}
<1>1. /\ AnswerOf(i, n) \in answers
      /\ AnswerOf(i, n).role = Roles[i] /\ AnswerOf(i, n).round = n
  BY DEF BackgroundInv, AnswersSoFar, AnswerOf, Answer
<1>2. ASSUME NEW a \in answers, a.role = Roles[i], a.round = n
      PROVE  a = AnswerOf(i, n)
  <2>1. PICK j \in 1 .. 3, k \in 1 .. DebateRounds : a = AnswerOf(j, k)
    BY DEF BackgroundInv, AnswersSoFar
  <2>2. Roles[j] = Roles[i] /\ k = n
    BY <1>2, <2>1 DEF AnswerOf, Answer
  <2>3. j = i
    BY <2>2 DEF Roles
  <2> QED BY <2>1, <2>2, <2>3
<1> QED BY <1>1, <1>2 DEF Given

\* Nobody answered in a round before the first.
LEMMA NobodyBefore ==
    ASSUME BackgroundInv, NEW role
    PROVE  Given(role, 0) = {}
<1>1. ASSUME NEW a \in answers PROVE a.round # 0
  <2>1. PICK j \in 1 .. 3, k \in 1 .. DebateRounds : a = AnswerOf(j, k)
    BY DEF BackgroundInv, AnswersSoFar
  <2> QED BY <2>1, RoundsPositive DEF AnswerOf, Answer
<1> QED BY <1>1 DEF Given

\* A prompt quotes what it has to.
LEMMA PromptIsRight ==
    ASSUME BackgroundInv, turn.round <= DebateRounds
    PROVE  {[role |-> q.role, round |-> q.round] : q \in PromptQuotes} = MustQuote(Roles[turn.role], turn.round)
<1>1. /\ turn.round \in 1 .. DebateRounds /\ turn.role \in 1 .. 3 /\ turn.round \in Nat
  BY TurnTypes, RoundsPositive
<1>2. \A i \in 1 .. 3, n \in 1 .. DebateRounds :
         AnswerOf(i, n).role = Roles[i] /\ AnswerOf(i, n).round = n
  BY DEF AnswerOf, Answer
<1>3. CASE turn.role = 1 /\ turn.round = 1
  <2>1. PromptQuotes = Given("judge", 0)
    BY <1>3 DEF PromptQuotes
  <2>2. PromptQuotes = {}
    BY <2>1, NobodyBefore
  <2> QED BY <1>3, <2>2 DEF MustQuote, Roles
<1>4. CASE turn.role = 1 /\ turn.round # 1
  <2>1. PICK n \in 1 .. DebateRounds : n = turn.round - 1
    BY <1>1, <1>4, RoundsPositive
  <2>2. Before(3, n)
    BY <1>1, <2>1 DEF Before
  <2>3. Given(Roles[3], n) = {AnswerOf(3, n)}
    BY <2>2, GivenBefore
  <2>4. PromptQuotes = {AnswerOf(3, n)}
    BY <1>4, <2>1, <2>3 DEF PromptQuotes, Roles
  <2>5. MustQuote(Roles[turn.role], turn.round) = {[role |-> "judge", round |-> n]}
    BY <1>4, <2>1 DEF MustQuote, Roles
  <2>6. AnswerOf(3, n).role = "judge" /\ AnswerOf(3, n).round = n
    BY <1>2 DEF Roles
  <2> QED BY <2>4, <2>5, <2>6
<1>5. CASE turn.role = 2
  <2>1. PICK n \in 1 .. DebateRounds : n = turn.round
    BY <1>1
  <2>2. Before(1, n)
    BY <1>5, <2>1 DEF Before
  <2>3. Given(Roles[1], n) = {AnswerOf(1, n)}
    BY <2>2, GivenBefore
  <2>4. PromptQuotes = {AnswerOf(1, n)}
    BY <1>5, <2>1, <2>3 DEF PromptQuotes, Roles
  <2>5. MustQuote(Roles[turn.role], turn.round) = {[role |-> "proposer", round |-> n]}
    BY <1>5, <2>1 DEF MustQuote, Roles
  <2>6. AnswerOf(1, n).role = "proposer" /\ AnswerOf(1, n).round = n
    BY <1>2 DEF Roles
  <2> QED BY <2>4, <2>5, <2>6
<1>6. CASE turn.role = 3
  <2>1. PICK n \in 1 .. DebateRounds : n = turn.round
    BY <1>1
  <2>2. Before(1, n) /\ Before(2, n)
    BY <1>6, <2>1 DEF Before
  <2>3. Given(Roles[1], n) = {AnswerOf(1, n)} /\ Given(Roles[2], n) = {AnswerOf(2, n)}
    BY <2>2, GivenBefore
  <2>4. PromptQuotes = {AnswerOf(1, n), AnswerOf(2, n)}
    BY <1>6, <2>1, <2>3 DEF PromptQuotes, Roles
  <2>5. MustQuote(Roles[turn.role], turn.round)
          = {[role |-> "proposer", round |-> n], [role |-> "critic", round |-> n]}
    BY <1>6, <2>1 DEF MustQuote, Roles
  <2>6. /\ AnswerOf(1, n).role = "proposer" /\ AnswerOf(1, n).round = n
        /\ AnswerOf(2, n).role = "critic" /\ AnswerOf(2, n).round = n
    BY <1>2 DEF Roles
  <2> QED BY <2>4, <2>5, <2>6
<1> QED BY <1>1, <1>3, <1>4, <1>5, <1>6

\* The turn after this one, and who has had a turn then.
LEMMA NextTurnFollows ==
    ASSUME BackgroundInv, turn.round <= DebateRounds, turn' = NextTurn
    PROVE  /\ turn' \in [round: 1 .. DebateRounds + 1, role: 1 .. 3]
           /\ turn'.round = DebateRounds + 1 => turn'.role = 1
           /\ \A i \in 1 .. 3, n \in 1 .. DebateRounds :
                 Before(i, n)' <=> Before(i, n) \/ (i = turn.role /\ n = turn.round)
<1>1. PICK i0 \in 1 .. 3, n0 \in 1 .. DebateRounds :
         i0 = turn.role /\ n0 = turn.round /\ turn = [round |-> n0, role |-> i0]
  BY TurnTypes, RoundsPositive
<1>2. CASE i0 < 3
  <2>1. turn' = [round |-> n0, role |-> i0 + 1]
    BY <1>1, <1>2 DEF NextTurn
  <2>2. turn'.round = n0 /\ turn'.role = i0 + 1
    BY <2>1
  <2>3. n0 \in 1 .. DebateRounds + 1 /\ i0 + 1 \in 1 .. 3 /\ n0 # DebateRounds + 1
    BY <1>2, RoundsPositive
  <2>4. turn' \in [round: 1 .. DebateRounds + 1, role: 1 .. 3]
    BY <2>1, <2>3
  <2>5. \A i \in 1 .. 3, n \in 1 .. DebateRounds :
           Before(i, n)' <=> Before(i, n) \/ (i = turn.role /\ n = turn.round)
    BY <1>1, <2>2, RoundsPositive DEF Before
  <2> QED BY <2>2, <2>3, <2>4, <2>5
<1>3. CASE ~(i0 < 3)
  <2>1. turn' = [round |-> n0 + 1, role |-> 1]
    BY <1>1, <1>3 DEF NextTurn
  <2>2. turn'.round = n0 + 1 /\ turn'.role = 1
    BY <2>1
  <2>3. n0 + 1 \in 1 .. DebateRounds + 1 /\ 1 \in 1 .. 3
    BY RoundsPositive
  <2>4. turn' \in [round: 1 .. DebateRounds + 1, role: 1 .. 3]
    BY <2>1, <2>3
  <2>5. \A i \in 1 .. 3, n \in 1 .. DebateRounds :
           Before(i, n)' <=> Before(i, n) \/ (i = turn.role /\ n = turn.round)
    BY <1>1, <1>3, <2>2, RoundsPositive DEF Before
  <2> QED BY <2>2, <2>4, <2>5
<1> QED BY <1>2, <1>3

LEMMA RoleAnswersKeeps ==
    ASSUME BackgroundInv, RoleExits("result")
    PROVE  BackgroundInv'
<1> DEFINE quotes == {[role |-> q.role, round |-> q.round] : q \in PromptQuotes}
<1>1. /\ phase = "role" /\ group' = {} /\ turn' = NextTurn /\ failure' = failure
      /\ answers' = answers \union {Answer(Roles[turn.role], turn.round, quotes)}
      /\ phase' = IF NextTurn.round > DebateRounds THEN "create" ELSE "next"
      /\ UNCHANGED <<temp, target, codex, exit>>
  BY DEF RoleExits
<1>2. failure = "" /\ turn.round <= DebateRounds /\ target \in {Absent, OldFile}
  BY <1>1 DEF BackgroundInv, WholeOrFailed, FileReplacedOnce
<1>3. PICK i0 \in 1 .. 3, n0 \in 1 .. DebateRounds : i0 = turn.role /\ n0 = turn.round
  <2>1. turn.round <= DebateRounds
    BY <1>2
  <2> QED BY <2>1, TurnTypes, RoundsPositive
<1>4. answers' = answers \union {AnswerOf(i0, n0)}
  BY <1>1, <1>2, <1>3, PromptIsRight DEF AnswerOf
<1>5. /\ turn' \in [round: 1 .. DebateRounds + 1, role: 1 .. 3]
      /\ turn'.round = DebateRounds + 1 => turn'.role = 1
      /\ \A i \in 1 .. 3, n \in 1 .. DebateRounds :
            Before(i, n)' <=> Before(i, n) \/ (i = i0 /\ n = n0)
  BY <1>1, <1>2, <1>3, NextTurnFollows
<1>6. AnswersSoFar'
  <2>1. \A i \in 1 .. 3, n \in 1 .. DebateRounds : Before(i, n)' => AnswerOf(i, n) \in answers'
    BY <1>4, <1>5 DEF BackgroundInv, AnswersSoFar
  <2>2. \A a \in answers' : \E i \in 1 .. 3, n \in 1 .. DebateRounds : Before(i, n)' /\ a = AnswerOf(i, n)
    BY <1>4, <1>5 DEF BackgroundInv, AnswersSoFar
  <2> QED BY <1>5, <2>1, <2>2 DEF AnswersSoFar
<1>7. \/ phase' = "create" /\ turn'.round = DebateRounds + 1
      \/ phase' = "next" /\ turn'.round <= DebateRounds
  BY <1>1, <1>5, RoundsPositive
<1>8. BackgroundTypeOK'
  BY <1>1, <1>5, <1>7 DEF BackgroundInv, BackgroundTypeOK, BackgroundPhase
<1>9. WholeOrFailed'
  BY <1>1, <1>2, <1>7 DEF WholeOrFailed, RoleFailure
<1>10. FileReplacedOnce' /\ ResultIsTrue'
  BY <1>1, <1>2, <1>7, ResultIsNoOldFile DEF FileReplacedOnce, ResultIsTrue
<1>11. ExitIsTrue' /\ NoProcessOutlivesTurn'
  <2>1. exit = "none" /\ codex = "no"
    BY <1>1 DEF BackgroundInv, ExitIsTrue
  <2> QED BY <1>1, <1>7, <2>1 DEF ExitIsTrue, NoProcessOutlivesTurn
<1> QED BY <1>6, <1>8, <1>9, <1>10, <1>11 DEF BackgroundInv

LEMMA RoleExitsKeeps ==
    ASSUME BackgroundInv, NEW output \in {"result", "execution", "malformed", "contract", "empty"},
           RoleExits(output)
    PROVE  BackgroundInv'
<1>1. CASE output = "result"
  BY <1>1, RoleAnswersKeeps
<1>2. CASE output # "result"
  <2>1. /\ phase = "role" /\ phase' = "create" /\ "role" \notin group' /\ (group' = {} \/ orphaned')
        /\ failure' = IF late THEN "timeout" ELSE output
        /\ UNCHANGED <<turn, answers, temp, target, codex, exit>>
    BY <1>2 DEF RoleExits
  <2>2. failure' \in RoleFailure
    BY <1>2, <2>1 DEF RoleFailure
  <2> QED BY <2>1, <2>2, RoleFailsKeeps
<1> QED BY <1>1, <1>2

LEMMA KillGroupKeeps ==
    ASSUME BackgroundInv, KillGroup
    PROVE  BackgroundInv'
<1>1. /\ phase = "role" /\ phase' = "create" /\ group' = {} /\ failure' = "timeout"
      /\ UNCHANGED <<turn, answers, temp, target, codex, exit>>
  BY DEF KillGroup
<1>2. failure' \in RoleFailure
  BY <1>1 DEF RoleFailure
<1> QED BY <1>1, <1>2, RoleFailsKeeps

\* A result that could not be saved: the file is what it was.
LEMMA NotSavedKeeps ==
    ASSUME BackgroundInv, phase \in {"create", "write", "rename"}, NotSaved
    PROVE  BackgroundInv'
<1>1. /\ phase' = "done" /\ exit' = "failed" /\ failure' = "persistence"
      /\ UNCHANGED <<turn, answers, group, target, codex, orphaned>>
  BY DEF NotSaved
<1>2. target \in {Absent, OldFile} /\ codex = "no" /\ "role" \notin group /\ (group = {} \/ orphaned)
  BY DEF BackgroundInv, FileReplacedOnce, ExitIsTrue, NoProcessOutlivesTurn
<1>3. BackgroundTypeOK'
  BY <1>1 DEF BackgroundInv, BackgroundTypeOK, BackgroundPhase
<1>4. AnswersSoFar'
  BY <1>1, SameAnswers DEF BackgroundInv
<1>5. WholeOrFailed'
  BY <1>1 DEF WholeOrFailed, RoleFailure
<1>6. FileReplacedOnce' /\ ResultIsTrue'
  BY <1>1, <1>2, ResultIsNoOldFile DEF FileReplacedOnce, ResultIsTrue
<1>7. ExitIsTrue' /\ NoProcessOutlivesTurn'
  BY <1>1, <1>2 DEF ExitIsTrue, NoProcessOutlivesTurn
<1> QED BY <1>3, <1>4, <1>5, <1>6, <1>7 DEF BackgroundInv

\* CreateTemp, WriteTemp and RenameTemp.
LEMMA SavingKeeps ==
    ASSUME BackgroundInv, CreateTemp \/ WriteTemp \/ RenameTemp
    PROVE  BackgroundInv'
<1>1. CASE phase \in {"create", "write", "rename"} /\ NotSaved
  BY <1>1, NotSavedKeeps
<1>2. CASE ~NotSaved
  <2>1. /\ UNCHANGED <<turn, answers, failure, group, codex, exit, orphaned>>
        /\ \/ phase = "create" /\ phase' = "write" /\ target' = target
           \/ phase = "write" /\ phase' = "rename" /\ temp' = RunResult /\ target' = target
           \/ phase = "rename" /\ phase' = "exit?" /\ target' = temp
    BY <1>2 DEF CreateTemp, WriteTemp, RenameTemp
  <2>2. RunResult' = RunResult
    BY <2>1, SameResult
  <2>3. /\ target' \in {Absent, OldFile} \/ target' = RunResult
        /\ phase' \in {"write", "rename"} => target' \in {Absent, OldFile}
        /\ phase' = "exit?" => target' = RunResult
    BY <2>1 DEF BackgroundInv, FileReplacedOnce
  <2>4. BackgroundTypeOK'
    BY <2>1 DEF BackgroundInv, BackgroundTypeOK, BackgroundPhase
  <2>5. AnswersSoFar'
    BY <2>1, SameAnswers DEF BackgroundInv
  <2>6. WholeOrFailed'
    BY <2>1 DEF BackgroundInv, WholeOrFailed
  <2>7. FileReplacedOnce'
    BY <2>1, <2>2, <2>3 DEF FileReplacedOnce
  <2>8. ResultIsTrue'
    <3>1. CASE phase' \in {"write", "rename"}
      BY <2>3, <3>1, ResultIsNoOldFile DEF ResultIsTrue
    <3>2. CASE phase' = "exit?"
      <4>1. phase = "rename"
        BY <2>1, <3>2
      <4>2. /\ failure = "" => turn.round = DebateRounds + 1
            /\ failure \in RoleFailure => turn.round <= DebateRounds
            /\ failure \in RoleFailure \union {""}
        BY <4>1 DEF BackgroundInv, WholeOrFailed, BackgroundTypeOK
      <4>3. turn.round <= DebateRounds => turn.round # DebateRounds + 1
        BY TurnTypes, RoundsPositive
      <4>4. failure = "" => failure \notin RoleFailure
        BY DEF RoleFailure
      <4>5. failure = "" <=> turn.round = DebateRounds + 1
        BY <4>2, <4>3, <4>4, Zenon
      <4> QED BY <2>1, <4>5 DEF ResultIsTrue
    <3> QED BY <2>1, <3>1, <3>2
  <2>9. ExitIsTrue' /\ NoProcessOutlivesTurn'
    <3>1. exit = "none" /\ codex = "no" /\ "role" \notin group /\ (group = {} \/ orphaned)
      BY <2>1 DEF BackgroundInv, ExitIsTrue, NoProcessOutlivesTurn
    <3> QED BY <2>1, <3>1 DEF ExitIsTrue, NoProcessOutlivesTurn
  <2> QED BY <2>4, <2>5, <2>6, <2>7, <2>8, <2>9 DEF BackgroundInv
<1> QED BY <1>1, <1>2 DEF CreateTemp, WriteTemp, RenameTemp

\* Conclude and CodexEnds: nothing is written any more.
LEMMA ConcludingKeeps ==
    ASSUME BackgroundInv, Conclude \/ \E outcome \in {"ok", "failed"} : CodexEnds(outcome)
    PROVE  BackgroundInv'
<1>1. /\ UNCHANGED <<turn, answers, failure, group, temp, target, orphaned>>
      /\ \/ /\ phase = "exit?" /\ failure = "" /\ phase' = "codex"
            /\ codex' = "running" /\ exit' = exit
         \/ /\ phase = "exit?" /\ phase' = "done" /\ codex' = codex
            /\ exit' = IF failure = "" THEN "ok" ELSE "failed"
         \/ /\ phase = "codex" /\ phase' = "done" /\ codex' = "ended" /\ exit' \in {"ok", "failed"}
  BY DEF Conclude, CodexEnds
<1>2. RunResult' = RunResult
  BY <1>1, SameResult
<1>3. /\ target = RunResult /\ exit = "none" /\ failure # "persistence"
      /\ "role" \notin group /\ (group = {} \/ orphaned)
      /\ phase = "codex" => failure = ""
      /\ phase = "exit?" => codex = "no"
  BY <1>1 DEF BackgroundInv, FileReplacedOnce, ExitIsTrue, NoProcessOutlivesTurn, WholeOrFailed
<1>4. BackgroundTypeOK'
  BY <1>1 DEF BackgroundInv, BackgroundTypeOK, BackgroundPhase
<1>5. AnswersSoFar'
  BY <1>1, SameAnswers DEF BackgroundInv
<1>6. WholeOrFailed'
  BY <1>1 DEF BackgroundInv, WholeOrFailed
<1>7. FileReplacedOnce' /\ ResultIsTrue'
  BY <1>1, <1>2, <1>3 DEF BackgroundInv, FileReplacedOnce, ResultIsTrue
<1>8. ExitIsTrue' /\ NoProcessOutlivesTurn'
  BY <1>1, <1>2, <1>3 DEF ExitIsTrue, NoProcessOutlivesTurn
<1> QED BY <1>4, <1>5, <1>6, <1>7, <1>8 DEF BackgroundInv

\* BackgroundInv is an invariant of the background debate.
THEOREM BackgroundInductive == BackgroundSpec => []BackgroundInv
<1>1. BackgroundInit => BackgroundInv
  BY BackgroundInitInv
<1>2. BackgroundInv /\ [BackgroundNext]_backgroundVars => BackgroundInv'
  <2> SUFFICES ASSUME BackgroundInv, [BackgroundNext]_backgroundVars PROVE BackgroundInv'
    OBVIOUS
  <2>1. CASE Expire \/ StartProvider \/ AgentDeadline \/ Killed \/ UNCHANGED backgroundVars
    BY <2>1, WithoutCommandKeeps
  <2>2. CASE StartRole
    BY <2>2, StartRoleKeeps
  <2>3. CASE KillGroup
    BY <2>3, KillGroupKeeps
  <2>4. CASE CreateTemp \/ WriteTemp \/ RenameTemp
    BY <2>4, SavingKeeps
  <2>5. CASE Conclude \/ \E outcome \in {"ok", "failed"} : CodexEnds(outcome)
    BY <2>5, ConcludingKeeps
  <2>6. CASE \E output \in {"result", "execution", "malformed", "contract", "empty"} : RoleExits(output)
    BY <2>6, RoleExitsKeeps
  <2>7. (expired /\ CodexEnds("failed")) => \E outcome \in {"ok", "failed"} : CodexEnds(outcome)
    OBVIOUS
  <2> QED BY <2>1, <2>2, <2>3, <2>4, <2>5, <2>6, <2>7 DEF BackgroundNext, CommandStep
<1> QED BY <1>1, <1>2, PTL DEF BackgroundSpec

\* The answers are those of a whole debate exactly when every turn is over.
LEMMA WholeWhenOver ==
    ASSUME BackgroundInv
    PROVE  answers = WholeDebate <=> turn.round = DebateRounds + 1
<1>1. \A a : a \in WholeDebate <=> \E i \in 1 .. 3, n \in 1 .. DebateRounds : a = AnswerOf(i, n)
  BY DEF AnswerOf, WholeDebate
<1>2. CASE turn.round = DebateRounds + 1
  <2>1. \A i \in 1 .. 3, n \in 1 .. DebateRounds : Before(i, n)
    BY <1>2, RoundsPositive DEF Before
  <2>2. \A a : a \in answers <=> \E i \in 1 .. 3, n \in 1 .. DebateRounds : a = AnswerOf(i, n)
    BY <2>1 DEF BackgroundInv, AnswersSoFar
  <2>3. answers = WholeDebate
    BY <1>1, <2>2
  <2> QED BY <1>2, <2>3
<1>3. CASE turn.round # DebateRounds + 1
  <2>1. PICK i0 \in 1 .. 3, n0 \in 1 .. DebateRounds : i0 = turn.role /\ n0 = turn.round
    BY <1>3, TurnTypes, RoundsPositive
  <2>2. AnswerOf(i0, n0) \in WholeDebate
    BY <1>1
  <2>3. AnswerOf(i0, n0) \notin answers
    <3> SUFFICES ASSUME AnswerOf(i0, n0) \in answers PROVE FALSE
      OBVIOUS
    <3>1. PICK i \in 1 .. 3, n \in 1 .. DebateRounds : Before(i, n) /\ AnswerOf(i0, n0) = AnswerOf(i, n)
      BY DEF BackgroundInv, AnswersSoFar
    <3>2. Roles[i0] = Roles[i] /\ n0 = n
      BY <3>1 DEF AnswerOf, Answer
    <3>3. i0 = i
      BY <3>2 DEF Roles
    <3> QED BY <2>1, <3>1, <3>2, <3>3, RoundsPositive DEF Before
  <2> QED BY <1>3, <2>2, <2>3
<1> QED BY <1>2, <1>3

\* Whenever a role fails, is late or prints something else, the file cannot be written or
\* the command is killed: the result file is the old one or a whole result of this run,
\* success means that every role answered in every round on what it has to rest on, and
\* no process of a role outlives its turn (Run, writeAtomic, configureProcessTreeCancellation).
THEOREM BreaksOff == BackgroundSpec => []BreaksOffCleanly
<1>1. BackgroundInv => BreaksOffCleanly
  <2> SUFFICES ASSUME BackgroundInv PROVE BreaksOffCleanly
    OBVIOUS
  <2>1. target \in {Absent, OldFile} \/ target = RunResult
    BY DEF BackgroundInv, FileReplacedOnce
  <2>2. /\ target.kind \in {"none", "old", "result"}
        /\ target.kind = "result" <=> target = RunResult
    <3>1. CASE target \in {Absent, OldFile}
      BY <3>1, ResultIsNoOldFile DEF Absent, OldFile
    <3>2. CASE target = RunResult
      BY <3>2 DEF RunResult
    <3> QED BY <2>1, <3>1, <3>2
  <2>3. /\ RunResult.answers = answers /\ RunResult.completed = turn.round - 1
        /\ RunResult.success <=> failure = ""
    BY DEF RunResult
  <2>4. codex # "no" \/ exit = "ok" => target = RunResult /\ failure = ""
    BY DEF BackgroundInv, ExitIsTrue
  <2>5. target = RunResult => (failure = "" <=> turn.round = DebateRounds + 1)
    BY DEF BackgroundInv, ResultIsTrue
  <2>6. ResultFileIsWhole
    <3>1. turn.round = DebateRounds + 1 => turn.round - 1 = DebateRounds
      BY RoundsPositive
    <3>2. target.kind = "result" => target.answers = answers /\ target.completed = turn.round - 1
      BY <2>2, <2>3
    <3>3. codex # "no" => target.kind = "result" /\ target.completed = DebateRounds
      BY <2>2, <2>4, <2>5, <3>1, <3>2
    <3> QED BY <2>2, <3>2, <3>3 DEF ResultFileIsWhole
  <2>7. SuccessIsWholeDebate
    <3>1. exit = "ok" => target.kind = "result" /\ target.success
      BY <2>2, <2>3, <2>4
    <3>2. target.kind = "result" => (target.success <=> target.answers = WholeDebate)
      <4> SUFFICES ASSUME target = RunResult PROVE target.success <=> target.answers = WholeDebate
        BY <2>2
      <4>1. target.answers = answers /\ (target.success <=> failure = "")
        BY <2>3
      <4>2. answers = WholeDebate <=> turn.round = DebateRounds + 1
        BY WholeWhenOver
      <4> QED BY <2>5, <4>1, <4>2
    <3>3. target.kind = "result" /\ target.success /\ exit = "failed" => codex = "ended"
      BY <2>2, <2>3 DEF BackgroundInv, ExitIsTrue
    <3> QED BY <3>1, <3>2, <3>3 DEF SuccessIsWholeDebate
  <2> QED BY <2>6, <2>7 DEF BackgroundInv, BreaksOffCleanly
<1> QED BY <1>1, BackgroundInductive, PTL

-----------------------------------------------------------------------------
(* The pop-ups of the agent dashboard.                                     *)

\* The dashboard's pop-ups with their requests and answers, by themselves.
PopupsSpec == PopupsInit /\ [][PopupsNext]_popupVars

FlagNames == {"stopping", "pinning", "focusing", "git", "editor", "worktree"}
Modes == {"", "menu", "list", "directory", "choose", "listed", "kind", "add", "edit", "send", "custom", "start", "ready", "result"}
Ofs == (KindSet \ {"instruction"}) \union {"stop", "pin", "focus", "git", "editor"}
Actions == {"get", "add", "edit", "change", "directories", "merge", "stop", "pin", "focus", "git", "config", "list",
            "start", "create", "selection", "started", "save", "shell", "send"}
TargetType == RowAgents \union {""}
PopupType == [id: Nat, target: TargetType, mode: Modes, busy: BOOLEAN]
FeedType == [sequence: Nat, loading: BOOLEAN, loaded: BOOLEAN, shown: Nat, text: Nat, request: Nat, editor: Nat]
RequestType == [of: Ofs, action: Actions, id: Nat, target: TargetType, sequence: Nat, text: Nat,
                request: Nat, editor: Nat, reply: {"", "ok", "err"}, version: Nat]
ItemType == [text: Nat, request: Nat, editor: Nat]
QueueType == [version: Nat, added: Seq(ItemType)]

\* The pop-ups and the requests keep their types; there are finitely many requests.
PopupsTypeOK ==
    /\ popups \in [KindSet -> PopupType] /\ flags \subseteq FlagNames
    /\ flight \subseteq RequestType /\ IsFiniteSet(flight)

\* One pop-up is open at most, and one that is not leaves nothing behind.
OneOpen ==
    /\ \A k, l \in KindSet : IsOpen(k) /\ IsOpen(l) => k = l
    /\ \A k \in KindSet : ~IsOpen(k) => popups[k] = NoPopup

\* A request of a pop-up that does not go away before it is answered, and its pop-up.
Bound(r) == \/ r.of \in KindSet \ {"followups", "recent", "instruction"}
            \/ r.of = "focus" /\ r.id # 0
OwnerOf(r) == IF r.of = "focus" THEN "worktrees" ELSE r.of

\* Requests say whose they are; a request ID belongs to one opening of the editor.
RequestsOK ==
    \A r \in flight : /\ r.of \in KindSet => r.id # 0
                      /\ r.action \in {"selection", "started"} => r.of = "picker"
                      /\ r.editor = r.request

\* There is one bound request at most, and the pop-up that sent it is open and waits.
BoundOK ==
    /\ \A r \in flight : Bound(r) => popups[OwnerOf(r)].id = r.id /\ r.id # 0 /\ ~Idles(OwnerOf(r))
    /\ \A r, q \in flight : Bound(r) /\ Bound(q) => r = q

\* There is one focus request at most; one that the list sent finds no menu.
FocusOK ==
    /\ \A r \in flight : r.of = "focus" => "focusing" \in flags /\ (r.id = 0 => ~IsOpen("worktrees"))
    /\ \A r, q \in flight : r.of = "focus" /\ q.of = "focus" => r = q

\* A busy pop-up waits for a request of its own, and a flag for one that raised it.
BusyOK ==
    /\ \A k \in KindSet \ {"followups"} :
          popups[k].busy => \E r \in flight : r.id = popups[k].id /\ OwnerOf(r) = k
    /\ ~popups["naming"].busy /\ ~popups["picker"].busy
    /\ \A f \in flags : \E r \in flight : f \in FlagOf(r.of)

\* The invariant of the pop-ups and their requests.
BodyOK == PopupsTypeOK /\ OneOpen /\ RequestsOK /\ BoundOK /\ FocusOK /\ BusyOK /\ ActsOnItsTarget

\* The requests of the follow-up pop-up that is open.
Ours(r) == r.of = "followups" /\ r.id = popups["followups"].id

FeedTypeOK == feed \in FeedType /\ daemon \in QueueType

\* The items of the queue: one of each request ID, which is that of one editor.
ItemsOK ==
    /\ \A i \in DOMAIN daemon.added : daemon.added[i].editor = daemon.added[i].request
    /\ \A i, j \in DOMAIN daemon.added : daemon.added[i].request = daemon.added[j].request => i = j

\* The item of the add r is in the queue.
Queued(r) == \E i \in DOMAIN daemon.added : daemon.added[i].editor = r.editor /\ daemon.added[i].text = r.text

\* While one change is asked for the list waits, so there is no other, and one that
\* succeeded stays as it is.
ChangesOK ==
    /\ \A r \in flight : Ours(r) /\ r.action # "get" => Expected(r) /\ popups["followups"].busy
    /\ \A r \in flight : Ours(r) /\ r.action = "add" /\ r.reply = "ok" => Queued(r)

\* The follow-up list: a closed one leaves nothing behind; of its requests one has the
\* latest sequence, if any, and that one's answer is not older than what is shown.
FeedOK ==
    /\ FeedTypeOK /\ ItemsOK /\ ChangesOK
    /\ ~IsOpen("followups") => feed = NoFeed
    /\ feed.editor = feed.request /\ feed.shown <= daemon.version
    /\ \A r \in flight : Ours(r) => r.sequence <= feed.sequence /\ r.version <= daemon.version
    /\ \A r, q \in flight : Ours(r) /\ Ours(q) /\ r.sequence = q.sequence => r = q
    /\ \A r \in flight : Ours(r) /\ Expected(r) /\ r.reply = "ok" => feed.shown <= r.version
    /\ popups["followups"].busy => \E r \in flight : Ours(r) /\ Expected(r) /\ r.action # "get"
    /\ feed.loading => \E r \in flight : Ours(r) /\ Expected(r) /\ r.action = "get"

ListOK == selected \in TargetType /\ cooling \in BOOLEAN /\ quitting \in BOOLEAN

\* The inductive invariant.
PopupsInv == BodyOK /\ FeedOK /\ ListOK
-----------------------------------------------------------------------------
(* Numbers that are not in use.                                            *)

\* A set of natural numbers has a least one.
LEMMA LeastOf ==
    ASSUME NEW T \in SUBSET Nat, T # {}
    PROVE  \E n \in T : \A m \in T : n <= m
<1>1. PICK n \in T : \A m \in T : ~(<<m, n>> \in OpToRel(<, Nat))
  BY NatLessThanWellFounded, WFMin, Zenon
<1>2. \A m \in T : <<m, n>> \in Nat \X Nat
  OBVIOUS
<1>3. \A m \in T : m < n => <<m, n>> \in OpToRel(<, Nat)
  BY <1>2 DEF OpToRel
<1>4. ASSUME NEW m \in T PROVE n <= m
  <2>1. ~(m < n)
    BY <1>1, <1>3
  <2>2. m \in Nat /\ n \in Nat
    OBVIOUS
  <2> QED BY <2>1, <2>2
<1> QED BY <1>4

\* Unused is not in use.
LEMMA UnusedIsFree ==
    ASSUME NEW used, IsFiniteSet(used)
    PROVE  Unused(used) \in Nat \ {0} /\ Unused(used) \notin used
<1>1. PICK c \in Nat : c = Cardinality(used)
  BY FS_CardinalityType
<1>2. PICK T : T = {n \in 1 .. c + 1 : n \notin used}
  BY Zenon
<1>3. T # {}
  <2> SUFFICES ASSUME T = {} PROVE FALSE
    OBVIOUS
  <2>1. 1 .. c + 1 \in SUBSET used
    BY <1>2
  <2>2. Cardinality(1 .. c + 1) = c + 1
    <3>1. 1 \in Int /\ c + 1 \in Int /\ ~(1 > c + 1) /\ (c + 1) - 1 + 1 = c + 1
      OBVIOUS
    <3> QED BY <3>1, FS_Interval, Zenon
  <2>3. Cardinality(1 .. c + 1) <= c
    BY <1>1, <2>1, FS_Subset
  <2> QED BY <2>2, <2>3
<1>4. T \in SUBSET Nat
  BY <1>2
<1>5. PICK n \in T : \A m \in T : n <= m
  BY <1>3, <1>4, LeastOf
<1>6. n \in 1 .. c + 1 /\ n \notin used
  BY <1>2, <1>5
<1>7. ASSUME NEW m \in 1 .. n - 1 PROVE m \in used
  <2>1. m \in 1 .. c + 1 /\ ~(n <= m)
    BY <1>6
  <2> QED BY <1>2, <1>5, <2>1
<1>8. \E k \in 1 .. c + 1 : k \notin used /\ \A m \in 1 .. k - 1 : m \in used
  BY <1>6, <1>7
<1>9. Unused(used) \in 1 .. c + 1 /\ Unused(used) \notin used
  BY <1>1, <1>8 DEF Unused
<1> QED BY <1>9

\* The numbers of finitely many things are finitely many.
LEMMA FiniteImage ==
    ASSUME NEW S, IsFiniteSet(S), NEW f, DOMAIN f = S
    PROVE  IsFiniteSet({f[x] : x \in S})
<1>1. PICK g, T : g = [x \in S |-> f[x]] /\ T = {f[x] : x \in S}
  BY Zenon
<1>2. g \in Surjection(S, T)
  BY <1>1 DEF Surjection
<1> QED BY <1>1, <1>2, FS_Surjection

LEMMA KindsAre ==
    KindSet = {"instruction", "followups", "worktrees", "recent", "ticket", "merge", "naming", "picker", "input", "alias"}
<1>1. DOMAIN Kinds = 1 .. 10
  BY DEF Kinds
<1>2. 1 .. 10 = {1, 2, 3, 4, 5, 6, 7, 8, 9, 10}
  OBVIOUS
<1>3. /\ Kinds[1] = "instruction" /\ Kinds[2] = "followups" /\ Kinds[3] = "worktrees" /\ Kinds[4] = "recent"
      /\ Kinds[5] = "ticket" /\ Kinds[6] = "merge" /\ Kinds[7] = "naming" /\ Kinds[8] = "picker"
      /\ Kinds[9] = "input" /\ Kinds[10] = "alias"
  BY DEF Kinds
<1> QED BY <1>1, <1>2, <1>3 DEF KindSet

LEMMA NewIDIsNew ==
    ASSUME PopupsTypeOK
    PROVE  /\ NewID \in Nat \ {0}
           /\ \A k \in KindSet : popups[k].id # NewID
           /\ \A r \in flight : r.id # NewID
<1>1. PICK A, B : A = {popups[k].id : k \in KindSet} /\ B = {r.id : r \in flight}
  BY Zenon
<1>2. IsFiniteSet(KindSet)
  <2>1. DOMAIN Kinds = 1 .. 10 /\ IsFiniteSet(1 .. 10)
    <3>1. 1 \in Int /\ 10 \in Int
      OBVIOUS
    <3>2. IsFiniteSet(1 .. 10)
      BY <3>1, FS_Interval, Zenon
    <3> QED BY <3>2 DEF Kinds
  <2> QED BY <2>1, FiniteImage DEF KindSet
<1>3. IsFiniteSet(A)
  <2>1. PICK f : f = [k \in KindSet |-> popups[k].id]
    BY Zenon
  <2>2. A = {f[k] : k \in KindSet} /\ DOMAIN f = KindSet
    BY <1>1, <2>1
  <2> QED BY <1>2, <2>2, FiniteImage
<1>4. IsFiniteSet(B)
  <2>1. PICK f : f = [r \in flight |-> r.id]
    BY Zenon
  <2>2. B = {f[r] : r \in flight} /\ DOMAIN f = flight
    BY <1>1, <2>1
  <2> QED BY <2>2, FiniteImage DEF PopupsTypeOK
<1>5. IsFiniteSet(A \union B)
  BY <1>3, <1>4, FS_Union
<1>6. NewID = Unused(A \union B)
  BY <1>1 DEF NewID
<1>7. NewID \in Nat \ {0} /\ NewID \notin A \union B
  BY <1>5, <1>6, UnusedIsFree
<1> QED BY <1>1, <1>7

LEMMA NewRequestIsNumber ==
    ASSUME PopupsTypeOK, FeedTypeOK
    PROVE  NewRequest \in Nat
<1>1. PICK A, B, C, D : /\ A = {i.request : i \in Items} /\ B = {i.editor : i \in Items}
                        /\ C = {r.request : r \in flight} /\ D = {r.editor : r \in flight}
  BY Zenon
<1>2. IsFiniteSet(Items)
  <2>1. PICK s : s = daemon.added
    BY Zenon
  <2>2. s \in Seq(ItemType)
    BY <2>1 DEF FeedTypeOK, QueueType
  <2>3. DOMAIN s = 1 .. Len(s) /\ Len(s) \in Int /\ 1 \in Int
    BY <2>2
  <2>4. IsFiniteSet(1 .. Len(s))
    BY <2>3, FS_Interval, Zenon
  <2>5. IsFiniteSet(DOMAIN s)
    BY <2>3, <2>4
  <2>6. Items = {s[i] : i \in DOMAIN s}
    BY <2>1 DEF Items
  <2> QED BY <2>5, <2>6, FiniteImage
<1>3. IsFiniteSet(A) /\ IsFiniteSet(B)
  <2>1. PICK f, g : f = [i \in Items |-> i.request] /\ g = [i \in Items |-> i.editor]
    BY Zenon
  <2>2. A = {f[i] : i \in Items} /\ DOMAIN f = Items /\ B = {g[i] : i \in Items} /\ DOMAIN g = Items
    BY <1>1, <2>1
  <2> QED BY <1>2, <2>2, FiniteImage
<1>4. IsFiniteSet(C) /\ IsFiniteSet(D)
  <2>1. PICK f, g : f = [r \in flight |-> r.request] /\ g = [r \in flight |-> r.editor]
    BY Zenon
  <2>2. C = {f[r] : r \in flight} /\ DOMAIN f = flight /\ D = {g[r] : r \in flight} /\ DOMAIN g = flight
    BY <1>1, <2>1
  <2> QED BY <2>2, FiniteImage DEF PopupsTypeOK
<1>5. IsFiniteSet(A \union B) /\ IsFiniteSet((A \union B) \union C) /\ IsFiniteSet(((A \union B) \union C) \union D)
  BY <1>3, <1>4, FS_Union
<1>6. NewRequest = Unused(((A \union B) \union C) \union D)
  BY <1>1 DEF NewRequest
<1> QED BY <1>5, <1>6, UnusedIsFree

-----------------------------------------------------------------------------
(* The pop-up that is open, and its requests.                              *)

LEMMA NoPopupIs ==
    /\ NoPopup \in PopupType /\ NoPopup.id = 0 /\ NoPopup.busy = FALSE /\ NoPopup.target = ""
    /\ NoFeed \in FeedType /\ NoFeed.loading = FALSE /\ NoFeed.text = 0 /\ NoFeed.request = 0 /\ NoFeed.editor = 0 /\ NoFeed.shown = 0
    /\ NoFeed.sequence = 0
    /\ NoQueue \in QueueType /\ NoQueue.version = 0 /\ NoQueue.added = <<>>
<1>1. "" \in Modes /\ "" \in TargetType
  BY DEF TargetType, Modes
<1>2. NoPopup \in PopupType /\ NoPopup.id = 0 /\ NoPopup.busy = FALSE /\ NoPopup.target = ""
  BY <1>1 DEF NoPopup, PopupType
<1>3. NoFeed \in FeedType
  BY DEF NoFeed, FeedType
<1>4. /\ NoFeed.loading = FALSE /\ NoFeed.text = 0 /\ NoFeed.request = 0 /\ NoFeed.editor = 0 /\ NoFeed.shown = 0
      /\ NoFeed.sequence = 0
  BY DEF NoFeed
<1>5. NoQueue \in QueueType /\ NoQueue.version = 0 /\ NoQueue.added = <<>>
  BY DEF NoQueue, QueueType
<1> QED BY <1>2, <1>3, <1>4, <1>5

\* The other pop-ups are closed.
LEMMA OthersClosed ==
    ASSUME BodyOK
    PROVE  /\ \A k, l \in KindSet : IsOpen(k) /\ l # k => popups[l] = NoPopup /\ ~IsOpen(l)
           /\ MainScreen => \A l \in KindSet : popups[l] = NoPopup
BY DEF BodyOK, OneOpen, MainScreen

LEMMA NothingBound ==
    ASSUME BodyOK, \A k \in KindSet : IsOpen(k) => Idles(k) \/ k \in {"recent", "followups", "instruction"}
    PROVE  \A r \in flight : ~Bound(r)
<1> SUFFICES ASSUME NEW r \in flight, Bound(r) PROVE FALSE
  OBVIOUS
<1>1. OwnerOf(r) \in KindSet \ {"recent", "followups", "instruction"}
  BY KindsAre DEF Bound, OwnerOf
<1>2. popups[OwnerOf(r)].id # 0 /\ ~Idles(OwnerOf(r))
  BY DEF BodyOK, BoundOK
<1> QED BY <1>1, <1>2 DEF IsOpen

\* No answer for the follow-up list is expected while it is closed.
LEMMA NoneOurs ==
    ASSUME BodyOK, FeedOK, ~IsOpen("followups")
    PROVE  feed = NoFeed /\ popups["followups"] = NoPopup /\ \A r \in flight : ~Ours(r)
<1>1. "followups" \in KindSet
  BY KindsAre
<1>2. popups["followups"].id = 0
  BY DEF IsOpen
<1>3. \A r \in flight : r.of = "followups" => r.id # 0
  BY <1>1 DEF BodyOK, RequestsOK
<1> QED BY <1>1, <1>2, <1>3 DEF BodyOK, FeedOK, OneOpen, Ours

\* A new request of the pop-up p.
Asks(q, of, action, p) ==
    /\ q \in RequestType /\ q.of = of /\ q.action = action /\ q.id = p.id /\ q.target = p.target
    /\ q.text = 0 /\ q.request = 0 /\ q.editor = 0 /\ q.sequence = 0 /\ q.reply = "" /\ q.version = 0

\* The same, with the target left open for lazygit.
AsksFor(q, of, action, p) ==
    /\ q \in RequestType /\ q.of = of /\ q.action = action /\ q.id = p.id /\ (of # "git" => q.target = p.target)
    /\ q.editor = q.request

LEMMA AsksItself ==
    ASSUME NEW q, NEW of, NEW action, NEW p, Asks(q, of, action, p)
    PROVE  AsksFor(q, of, action, p)
BY DEF Asks, AsksFor

LEMMA RequestIs ==
    ASSUME NEW of \in Ofs, NEW action \in Actions, NEW p \in PopupType
    PROVE  Asks(Request(of, action, p), of, action, p)
<1>0. SUFFICES ASSUME NEW q, q = Request(of, action, p)
               PROVE  Asks(q, of, action, p)
  OBVIOUS
<1>1. PICK id \in Nat, agent \in TargetType, reply \in {"", "ok", "err"} : id = p.id /\ agent = p.target /\ reply = ""
  BY DEF PopupType
<1>2. q = [of |-> of, action |-> action, id |-> id, target |-> agent,
           sequence |-> 0, text |-> 0, request |-> 0, editor |-> 0, reply |-> reply, version |-> 0]
  BY <1>0, <1>1 DEF Request
<1>3. /\ q \in RequestType /\ q.of = of /\ q.action = action /\ q.id = id /\ q.target = agent
      /\ q.text = 0 /\ q.request = 0 /\ q.editor = 0 /\ q.sequence = 0 /\ q.reply = reply /\ q.version = 0
  <2>1. id \in Nat /\ agent \in TargetType /\ reply \in {"", "ok", "err"}
    BY <1>1
  <2>2. q \in RequestType
    BY <2>1, <1>2 DEF RequestType
  <2>3. q.of = of /\ q.action = action /\ q.id = id /\ q.target = agent
    BY <1>2
  <2>4. q.text = 0 /\ q.request = 0 /\ q.editor = 0 /\ q.sequence = 0 /\ q.reply = reply /\ q.version = 0
    BY <1>2
  <2> QED BY <2>2, <2>3, <2>4
<1> QED BY <1>1, <1>3 DEF Asks

\* The flags that a request raises.
LEMMA FlagOfIs ==
    ASSUME NEW of
    PROVE  /\ FlagOf(of) \subseteq FlagNames
           /\ of = "focus" => FlagOf(of) = {"focusing"}
           /\ of \in {"naming", "picker"} => FlagOf(of) = {"worktree"}
           /\ of \in {"instruction", "followups", "worktrees", "recent", "ticket", "merge", "input", "alias"} => FlagOf(of) = {}
           /\ "worktree" \in FlagOf(of) => of \in {"naming", "picker"}
           /\ "focusing" \in FlagOf(of) => of = "focus"
BY DEF FlagOf, FlagNames

\* One request at most is added.
Few(requests) == requests = {} \/ \E q : requests = {q}

LEMMA AddedRequests ==
    ASSUME PopupsTypeOK, NEW requests \in SUBSET RequestType, Few(requests), flight' = flight \union requests
    PROVE  flight' \subseteq RequestType /\ IsFiniteSet(flight')
<1>1. flight' \subseteq RequestType
  BY DEF PopupsTypeOK
<1>2. CASE requests = {}
  BY <1>1, <1>2 DEF PopupsTypeOK
<1>3. ASSUME NEW q, requests = {q} PROVE IsFiniteSet(flight')
  <2>1. flight' = flight \union {q} /\ IsFiniteSet(flight)
    BY <1>3 DEF PopupsTypeOK
  <2> QED BY <2>1, FS_AddElement
<1> QED BY <1>1, <1>2, <1>3 DEF Few

LEMMA UpdateEffect ==
    ASSUME NEW k, NEW p, NEW requests, Few(requests), Update(k, p, requests)
    PROVE  /\ popups' = [popups EXCEPT ![k] = p] /\ flight' = flight \union requests
           /\ flags \subseteq flags' /\ \A f \in flags' : f \in flags \/ \E q \in requests : f \in FlagOf(q.of)
           /\ \A q \in requests : FlagOf(q.of) \subseteq flags'
           /\ requests = {} => flags' = flags
BY DEF Update, Few

-----------------------------------------------------------------------------
(* Steps of the pop-ups.                                                   *)

\* Pop-up k, if any, is now p, and the others are closed.
OnlyOpen(k, p) == popups' = [l \in KindSet |-> IF l = k THEN p ELSE NoPopup]

LEMMA OnlyOpenEffect ==
    ASSUME NEW k \in KindSet, NEW p \in PopupType, OnlyOpen(k, p), p.id # 0 \/ p = NoPopup
    PROVE  /\ popups' \in [KindSet -> PopupType] /\ popups'[k] = p
           /\ \A l \in KindSet : l # k => popups'[l] = NoPopup /\ popups'[l].id = 0 /\ ~popups'[l].busy
           /\ OneOpen'
<1>1. /\ popups' \in [KindSet -> PopupType] /\ popups'[k] = p
      /\ \A l \in KindSet : l # k => popups'[l] = NoPopup
  BY NoPopupIs DEF OnlyOpen
<1>2. \A l \in KindSet : l # k => popups'[l] = NoPopup /\ popups'[l].id = 0 /\ ~popups'[l].busy
  BY <1>1, NoPopupIs
<1>3. OneOpen'
  BY <1>1, <1>2, NoPopupIs DEF OneOpen, IsOpen
<1> QED BY <1>1, <1>2, <1>3

\* What pop-up k, as p, may ask for.
MayAsk(k, p, q) ==
    /\ q.id = p.id /\ (q.of # "git" => q.target = p.target) /\ q.editor = q.request
    /\ q.action \in {"selection", "started"} => q.of = "picker"
    /\ \/ q.of = k /\ (p.busy \/ k \in {"naming", "picker", "followups"})
       \/ q.of = "focus" /\ k = "worktrees" /\ p.busy
       \/ q.of \in {"git", "editor"}

\* While no bound request is on the way, the pop-up that is open asks, closes or is
\* replaced.
LEMMA AskStep ==
    ASSUME BodyOK, \A r \in flight : ~Bound(r),
           NEW k \in KindSet, NEW p \in PopupType, NEW requests \in SUBSET RequestType, Few(requests),
           OnlyOpen(k, p), p.id # 0 \/ (p = NoPopup /\ requests = {}),
           \/ p.id = popups[k].id /\ p.target = popups[k].target
           \/ \A r \in flight : r.id # p.id
           \/ p = NoPopup,
           \A q \in requests : MayAsk(k, p, q),
           k # "followups" /\ p.busy => \E q \in requests : OwnerOf(q) = k,
           k \in {"naming", "picker"} => ~p.busy,
           k = "worktrees" => \A r \in flight : r.of # "focus",
           flight' = flight \union requests,
           flags \subseteq flags', \A f \in flags' : f \in flags \/ \E q \in requests : f \in FlagOf(q.of),
           \A q \in requests : FlagOf(q.of) \subseteq flags'
    PROVE  BodyOK'
<1>0. /\ PopupsTypeOK /\ OneOpen /\ RequestsOK /\ BoundOK /\ FocusOK /\ BusyOK /\ ActsOnItsTarget
  BY DEF BodyOK
<1>1. /\ popups' \in [KindSet -> PopupType] /\ popups'[k] = p
      /\ \A l \in KindSet : l # k => popups'[l] = NoPopup /\ popups'[l].id = 0 /\ ~popups'[l].busy
      /\ OneOpen'
  BY OnlyOpenEffect
<1>2. PopupsTypeOK'
  <2>1. flight' \subseteq RequestType /\ IsFiniteSet(flight')
    BY <1>0, AddedRequests
  <2>2. flags' \subseteq FlagNames
    BY <1>0, FlagOfIs DEF PopupsTypeOK
  <2> QED BY <1>1, <2>1, <2>2 DEF PopupsTypeOK
<1>3. \A r \in flight' : r \in flight \/ (r \in requests /\ p.id # 0 /\ MayAsk(k, p, r))
  OBVIOUS
<1>4. RequestsOK'
  BY <1>0, <1>3 DEF RequestsOK, MayAsk
<1>5. \A r \in flight' : Bound(r) => r \in requests
  OBVIOUS
<1>6. \A r, q \in requests : r = q
  BY DEF Few
<1>7. BoundOK'
  <2>1. ASSUME NEW r \in flight', Bound(r) PROVE popups'[OwnerOf(r)].id = r.id /\ r.id # 0 /\ ~Idles(OwnerOf(r))'
    <3>1. r \in requests /\ p.id # 0 /\ MayAsk(k, p, r)
      BY <1>3, <1>5, <2>1
    <3>2. OwnerOf(r) = k
      BY <2>1, <3>1, KindsAre DEF Bound, MayAsk, OwnerOf
    <3>3. p.busy \/ (r.of = k /\ k \in {"naming", "picker"})
      BY <2>1, <3>1, KindsAre DEF Bound, MayAsk
    <3>4. k \in {"naming", "picker"} /\ r.of = k => "worktree" \in flags'
      BY <3>1, FlagOfIs
    <3>5. ~Idles(k)'
      BY <1>1, <3>3, <3>4 DEF Idles
    <3>6. r.id = p.id
      BY <3>1 DEF MayAsk
    <3> QED BY <1>1, <3>1, <3>2, <3>5, <3>6
  <2> QED BY <2>1, <1>5, <1>6 DEF BoundOK
<1>8. FocusOK'
  <2>1. ASSUME NEW r \in flight', r.of = "focus" PROVE "focusing" \in flags' /\ (r.id = 0 => ~IsOpen("worktrees")')
    <3>1. CASE r \in flight
      <4>1. "focusing" \in flags'
        BY <1>0, <3>1, <2>1 DEF FocusOK
      <4>2. k # "worktrees" /\ "worktrees" \in KindSet
        BY <3>1, <2>1, KindsAre
      <4> QED BY <1>1, <4>1, <4>2 DEF IsOpen
    <3>2. CASE r \in requests /\ p.id # 0 /\ MayAsk(k, p, r)
      BY <2>1, <3>2, FlagOfIs DEF MayAsk
    <3> QED BY <1>3, <3>1, <3>2
  <2>2. ASSUME NEW r \in flight', NEW q \in flight', r.of = "focus", q.of = "focus" PROVE r = q
    <3>1. \A s \in requests : s.of = "focus" => k = "worktrees"
      BY KindsAre DEF MayAsk
    <3> QED BY <1>0, <1>3, <1>6, <2>2, <3>1 DEF FocusOK
  <2> QED BY <2>1, <2>2 DEF FocusOK
<1>9. BusyOK'
  <2>1. ASSUME NEW l \in KindSet \ {"followups"}, popups'[l].busy
        PROVE  \E r \in flight' : r.id = popups'[l].id /\ OwnerOf(r) = l
    <3>1. l = k /\ p.busy
      BY <1>1, <2>1
    <3>2. PICK q \in requests : OwnerOf(q) = k
      BY <3>1
    <3> QED BY <1>1, <3>1, <3>2 DEF MayAsk
  <2>2. \A f \in flags' : \E r \in flight' : f \in FlagOf(r.of)
    BY <1>0 DEF BusyOK
  <2>3. ~popups'["naming"].busy /\ ~popups'["picker"].busy
    BY <1>1, KindsAre
  <2> QED BY <2>1, <2>2, <2>3 DEF BusyOK
<1>10. ActsOnItsTarget'
  <2>1. ASSUME NEW r \in flight', r.of \in KindSet, popups'[r.of].id = r.id PROVE r.target = popups'[r.of].target
    <3>1. r.id # 0
      BY <1>4, <2>1 DEF RequestsOK
    <3>2. r.of = k /\ r.id = p.id
      BY <1>1, <2>1, <3>1
    <3>3. CASE r \in flight
      <4>1. p.id = popups[k].id /\ p.target = popups[k].target
        BY <3>1, <3>2, <3>3, NoPopupIs
      <4> QED BY <1>0, <1>1, <2>1, <3>2, <3>3, <4>1 DEF ActsOnItsTarget
    <3>4. CASE r \in requests /\ MayAsk(k, p, r)
      <4>1. r.of # "git"
        BY <2>1, KindsAre
      <4> QED BY <1>1, <3>2, <3>4, <4>1 DEF MayAsk
    <3> QED BY <1>3, <3>3, <3>4
  <2>2. ASSUME NEW r \in flight', r.of = "focus", r.id # 0 PROVE r.target = popups'["worktrees"].target
    <3>1. Bound(r)
      BY <2>2 DEF Bound
    <3>2. r \in requests /\ MayAsk(k, p, r)
      BY <1>3, <1>5, <3>1
    <3>3. k = "worktrees" /\ r.target = p.target
      BY <2>2, <3>2, KindsAre DEF MayAsk
    <3> QED BY <1>1, <3>3
  <2> QED BY <2>1, <2>2 DEF ActsOnItsTarget
<1> QED BY <1>1, <1>2, <1>4, <1>7, <1>8, <1>9, <1>10 DEF BodyOK

\* A request that is answered is gone, with its flag.
LEMMA AnsweredRequest ==
    ASSUME BodyOK, NEW r \in flight, flight' = flight \ {r}, flags' = flags \ FlagOf(r.of)
    PROVE  /\ flight' \subseteq RequestType /\ IsFiniteSet(flight') /\ flags' \subseteq FlagNames
           /\ RequestsOK'
           /\ \A f \in flags' : \E q \in flight' : f \in FlagOf(q.of)
           /\ \A s, q \in flight' : s.of = "focus" /\ q.of = "focus" => s = q
           /\ \A s \in flight' : s.of = "focus" => "focusing" \in flags'
           /\ \A s, q \in flight' : Bound(s) /\ Bound(q) => s = q
<1>1. PopupsTypeOK /\ RequestsOK /\ FocusOK /\ BusyOK /\ BoundOK
  BY DEF BodyOK
<1>2. flight' \subseteq flight
  OBVIOUS
<1>3. flight' \subseteq RequestType /\ IsFiniteSet(flight') /\ flags' \subseteq FlagNames
  BY <1>1, <1>2, FS_Subset DEF PopupsTypeOK
<1>4. RequestsOK'
  BY <1>1, <1>2 DEF RequestsOK
<1>5. \A f \in flags' : \E q \in flight' : f \in FlagOf(q.of)
  BY <1>1 DEF BusyOK
<1>6. \A s, q \in flight' : s.of = "focus" /\ q.of = "focus" => s = q
  BY <1>1, <1>2 DEF FocusOK
<1>7. \A s \in flight' : s.of = "focus" => "focusing" \in flags'
  <2> SUFFICES ASSUME NEW s \in flight', s.of = "focus" PROVE "focusing" \in flags'
    OBVIOUS
  <2>1. s \in flight /\ s # r
    OBVIOUS
  <2>2. r.of # "focus" /\ "focusing" \in flags
    BY <1>1, <2>1 DEF FocusOK
  <2> QED BY <2>2, FlagOfIs
<1> QED BY <1>1, <1>2, <1>3, <1>4, <1>5, <1>6, <1>7 DEF BoundOK

\* The pop-up that waits is answered: it is released, closed or replaced.
LEMMA ReleaseStep ==
    ASSUME BodyOK, NEW r \in flight, OwnerOf(r) \in KindSet \ {"followups"},
           popups[OwnerOf(r)].id = r.id, r.id # 0,
           NEW k \in KindSet \ {"followups"}, NEW p \in PopupType, OnlyOpen(k, p), p.id # 0 \/ p = NoPopup,
           ~p.busy,
           \/ p.id = popups[k].id /\ p.target = popups[k].target
           \/ \A q \in flight : q.id # p.id
           \/ p = NoPopup,
           k = "worktrees" => OwnerOf(r) = "worktrees",
           flight' = flight \ {r}, flags' = flags \ FlagOf(r.of)
    PROVE  BodyOK'
<1>0. /\ PopupsTypeOK /\ OneOpen /\ RequestsOK /\ BoundOK /\ FocusOK /\ BusyOK /\ ActsOnItsTarget
  BY DEF BodyOK
<1>1. /\ popups' \in [KindSet -> PopupType] /\ popups'[k] = p
      /\ \A l \in KindSet : l # k => popups'[l] = NoPopup /\ popups'[l].id = 0 /\ ~popups'[l].busy
      /\ OneOpen'
  BY OnlyOpenEffect
<1>2. /\ flight' \subseteq RequestType /\ IsFiniteSet(flight') /\ flags' \subseteq FlagNames
      /\ RequestsOK'
      /\ \A f \in flags' : \E q \in flight' : f \in FlagOf(q.of)
      /\ \A s, q \in flight' : s.of = "focus" /\ q.of = "focus" => s = q
      /\ \A s \in flight' : s.of = "focus" => "focusing" \in flags'
      /\ \A s, q \in flight' : Bound(s) /\ Bound(q) => s = q
  BY AnsweredRequest
<1>3. PopupsTypeOK'
  BY <1>1, <1>2 DEF PopupsTypeOK
<1>4. \A q \in flight' : ~Bound(q)
  <2> SUFFICES ASSUME NEW q \in flight', Bound(q) PROVE FALSE
    OBVIOUS
  <2>1. q \in flight /\ q # r
    OBVIOUS
  <2>2. ~Bound(r)
    BY <1>0, <2>1 DEF BoundOK
  <2>3. OwnerOf(q) \in KindSet /\ IsOpen(OwnerOf(q))
    BY <1>0, <2>1, KindsAre DEF BoundOK, IsOpen, OwnerOf, Bound
  <2>4. IsOpen(OwnerOf(r))
    BY DEF IsOpen
  <2>5. OwnerOf(q) = OwnerOf(r)
    BY <1>0, <2>3, <2>4 DEF OneOpen
  <2>6. OwnerOf(q) \notin {"recent", "instruction", "followups"}
    BY KindsAre DEF OwnerOf, Bound
  <2>7. OwnerOf(r) \in {"recent", "instruction", "followups"}
    BY <2>2 DEF OwnerOf, Bound
  <2> QED BY <2>5, <2>6, <2>7
<1>5. BoundOK'
  BY <1>4 DEF BoundOK
<1>6. FocusOK'
  <2>1. ASSUME NEW s \in flight', s.of = "focus", s.id = 0 PROVE ~IsOpen("worktrees")'
    <3>1. ~IsOpen("worktrees")
      BY <1>0, <2>1 DEF FocusOK
    <3>2. k # "worktrees" /\ "worktrees" \in KindSet
      BY <3>1, KindsAre DEF IsOpen
    <3> QED BY <1>1, <3>2 DEF IsOpen
  <2> QED BY <1>2, <2>1 DEF FocusOK
<1>7. BusyOK'
  <2>1. \A l \in KindSet : ~popups'[l].busy
    BY <1>1
  <2> QED BY <1>2, <2>1, KindsAre DEF BusyOK
<1>8. ActsOnItsTarget'
  <2>1. ASSUME NEW s \in flight', s.of \in KindSet, popups'[s.of].id = s.id PROVE s.target = popups'[s.of].target
    <3>1. s.id # 0 /\ s \in flight
      BY <1>2, <2>1 DEF RequestsOK
    <3>2. s.of = k /\ s.id = p.id
      BY <1>1, <2>1, <3>1
    <3>3. p.id = popups[k].id /\ p.target = popups[k].target
      BY <3>1, <3>2, NoPopupIs
    <3> QED BY <1>0, <1>1, <2>1, <3>1, <3>2, <3>3 DEF ActsOnItsTarget
  <2>2. ASSUME NEW s \in flight' PROVE ~(s.of = "focus" /\ s.id # 0)
    BY <1>4 DEF Bound
  <2> QED BY <2>1, <2>2 DEF ActsOnItsTarget
<1> QED BY <1>1, <1>2, <1>3, <1>5, <1>6, <1>7, <1>8 DEF BodyOK

\* The pop-ups stay as they are, but for what the follow-up list shows.
SamePopups ==
    /\ popups' \in [KindSet -> PopupType] /\ \A l \in KindSet \ {"followups"} : popups'[l] = popups[l]
    /\ popups'["followups"].id = popups["followups"].id /\ popups'["followups"].target = popups["followups"].target
    /\ ~IsOpen("followups") => popups'["followups"] = popups["followups"]

LEMMA SamePopupsEffect ==
    ASSUME BodyOK, SamePopups
    PROVE  /\ popups' \in [KindSet -> PopupType] /\ OneOpen'
           /\ \A l \in KindSet : popups'[l].id = popups[l].id /\ popups'[l].target = popups[l].target
           /\ \A l \in KindSet \ {"followups"} : popups'[l] = popups[l]
<1>1. \A l \in KindSet : popups'[l].id = popups[l].id /\ popups'[l].target = popups[l].target
  BY DEF SamePopups
<1>2. \A l \in KindSet : ~IsOpen(l) => popups'[l] = popups[l]
  BY DEF SamePopups
<1>3. OneOpen
  BY DEF BodyOK
<1>4. OneOpen'
  BY <1>1, <1>2, <1>3 DEF OneOpen, IsOpen
<1> QED BY <1>1, <1>4 DEF SamePopups

\* An answer that no pop-up waits for.
LEMMA DropStep ==
    ASSUME BodyOK, NEW r \in flight, ~Bound(r), SamePopups,
           OwnerOf(r) \in KindSet \ {"followups"} => popups[OwnerOf(r)].id # r.id \/ ~popups[OwnerOf(r)].busy,
           flight' = flight \ {r}, flags' = flags \ FlagOf(r.of)
    PROVE  BodyOK'
<1>0. /\ PopupsTypeOK /\ OneOpen /\ RequestsOK /\ BoundOK /\ FocusOK /\ BusyOK /\ ActsOnItsTarget
  BY DEF BodyOK
<1>1. /\ popups' \in [KindSet -> PopupType] /\ OneOpen'
      /\ \A l \in KindSet : popups'[l].id = popups[l].id /\ popups'[l].target = popups[l].target
      /\ \A l \in KindSet \ {"followups"} : popups'[l] = popups[l]
  BY SamePopupsEffect
<1>2. /\ flight' \subseteq RequestType /\ IsFiniteSet(flight') /\ flags' \subseteq FlagNames
      /\ RequestsOK'
      /\ \A f \in flags' : \E q \in flight' : f \in FlagOf(q.of)
      /\ \A s, q \in flight' : s.of = "focus" /\ q.of = "focus" => s = q
      /\ \A s \in flight' : s.of = "focus" => "focusing" \in flags'
      /\ \A s, q \in flight' : Bound(s) /\ Bound(q) => s = q
  BY AnsweredRequest
<1>3. PopupsTypeOK'
  BY <1>1, <1>2 DEF PopupsTypeOK
<1>4. "worktree" \in flags => "worktree" \in flags'
  <2>1. r.of \notin {"naming", "picker"}
    BY KindsAre DEF Bound
  <2> QED BY <2>1, FlagOfIs
<1>5. BoundOK'
  <2>1. ASSUME NEW s \in flight', Bound(s) PROVE popups'[OwnerOf(s)].id = s.id /\ s.id # 0 /\ ~Idles(OwnerOf(s))'
    <3>1. PICK l \in KindSet \ {"followups"} : l = OwnerOf(s)
      BY <2>1, KindsAre DEF Bound, OwnerOf
    <3>2. popups[l].id = s.id /\ s.id # 0 /\ ~Idles(l)
      BY <1>0, <2>1, <3>1 DEF BoundOK
    <3>3. ~Idles(l)'
      BY <1>1, <1>4, <3>1, <3>2 DEF Idles
    <3> QED BY <1>1, <3>1, <3>2, <3>3
  <2> QED BY <1>2, <2>1 DEF BoundOK
<1>6. FocusOK'
  <2>1. ASSUME NEW s \in flight', s.of = "focus", s.id = 0 PROVE ~IsOpen("worktrees")'
    <3>1. ~IsOpen("worktrees") /\ "worktrees" \in KindSet
      BY <1>0, <2>1, KindsAre DEF FocusOK
    <3> QED BY <1>1, <3>1 DEF IsOpen
  <2> QED BY <1>2, <2>1 DEF FocusOK
<1>7. BusyOK'
  <2>1. ASSUME NEW l \in KindSet \ {"followups"}, popups'[l].busy
        PROVE  \E q \in flight' : q.id = popups'[l].id /\ OwnerOf(q) = l
    <3>1. popups'[l] = popups[l] /\ popups[l].busy
      BY <1>1, <2>1
    <3>2. PICK q \in flight : q.id = popups[l].id /\ OwnerOf(q) = l
      BY <1>0, <3>1 DEF BusyOK
    <3>3. q # r
      BY <3>1, <3>2
    <3> QED BY <3>1, <3>2, <3>3
  <2>2. ~popups'["naming"].busy /\ ~popups'["picker"].busy
    BY <1>0, <1>1, KindsAre DEF BusyOK
  <2> QED BY <1>2, <2>1, <2>2 DEF BusyOK
<1>8. ActsOnItsTarget'
  BY <1>0, <1>1, KindsAre DEF ActsOnItsTarget
<1> QED BY <1>1, <1>2, <1>3, <1>5, <1>6, <1>7, <1>8 DEF BodyOK

\* A request turns into another of the same pop-up.
LEMMA TurnedStep ==
    ASSUME BodyOK, NEW r \in flight, NEW q \in RequestType, q.of = r.of, q.id = r.id, q.target = r.target,
           q.editor = q.request, q.action \in {"selection", "started"} => q.of = "picker",
           flight' = (flight \ {r}) \union {q}, popups' = popups, flags' = flags
    PROVE  BodyOK'
<1>0. /\ PopupsTypeOK /\ OneOpen /\ RequestsOK /\ BoundOK /\ FocusOK /\ BusyOK /\ ActsOnItsTarget
  BY DEF BodyOK
<1>1. Bound(q) <=> Bound(r)
  BY DEF Bound
<1>2. OwnerOf(q) = OwnerOf(r)
  BY DEF OwnerOf
<1>3. PopupsTypeOK' /\ OneOpen'
  <2>1. IsFiniteSet(flight \ {r})
    BY <1>0, FS_Subset DEF PopupsTypeOK
  <2>2. IsFiniteSet(flight')
    BY <2>1, FS_AddElement
  <2> QED BY <1>0, <2>2 DEF PopupsTypeOK, OneOpen, IsOpen
<1>4. RequestsOK'
  BY <1>0 DEF RequestsOK
<1>5. BoundOK'
  <2>1. \A s \in flight' : Bound(s) => popups[OwnerOf(s)].id = s.id /\ s.id # 0 /\ ~Idles(OwnerOf(s))
    BY <1>0, <1>1, <1>2 DEF BoundOK
  <2>2. \A s, t \in flight' : Bound(s) /\ Bound(t) => s = t
    BY <1>0, <1>1 DEF BoundOK
  <2>3. \A l : Idles(l)' <=> Idles(l)
    BY DEF Idles
  <2> QED BY <2>1, <2>2, <2>3 DEF BoundOK
<1>6. FocusOK'
  BY <1>0 DEF FocusOK, IsOpen
<1>7. BusyOK'
  <2>1. ASSUME NEW l \in KindSet \ {"followups"}, popups[l].busy
        PROVE  \E s \in flight' : s.id = popups[l].id /\ OwnerOf(s) = l
    <3>1. PICK s \in flight : s.id = popups[l].id /\ OwnerOf(s) = l
      BY <1>0, <2>1 DEF BusyOK
    <3>2. CASE s = r
      BY <1>2, <3>1, <3>2
    <3>3. CASE s # r
      BY <3>1, <3>3
    <3> QED BY <3>2, <3>3
  <2>2. ASSUME NEW f \in flags PROVE \E s \in flight' : f \in FlagOf(s.of)
    <3>1. PICK s \in flight : f \in FlagOf(s.of)
      BY <1>0, <2>2 DEF BusyOK
    <3>2. CASE s = r
      BY <3>1, <3>2
    <3>3. CASE s # r
      BY <3>1, <3>3
    <3> QED BY <3>2, <3>3
  <2> QED BY <1>0, <2>1, <2>2 DEF BusyOK
<1>8. ActsOnItsTarget'
  BY <1>0 DEF ActsOnItsTarget
<1> QED BY <1>3, <1>4, <1>5, <1>6, <1>7, <1>8 DEF BodyOK

LEMMA OutdatedIs ==
    ASSUME NEW r \in RequestType, NEW q, q = Outdated(r, "followups"), r.editor = r.request, r.of = "followups"
    PROVE  q \in RequestType /\ q.of = r.of /\ q.id = r.id /\ q.action = "get" /\ q.editor = q.request
<1>1. PICK z : z = Request("followups", "get", NoPopup)
  BY Zenon
<1>2. "followups" \in Ofs /\ "get" \in Actions /\ NoPopup \in PopupType
  BY KindsAre, NoPopupIs DEF Ofs, Actions
<1>3. z \in RequestType /\ z.of = "followups" /\ z.action = "get" /\ z.editor = 0 /\ z.request = 0
  <2>1. Asks(z, "followups", "get", NoPopup)
    BY <1>1, <1>2, RequestIs
  <2> QED BY <2>1 DEF Asks
<1>4. q = [z EXCEPT !.id = r.id]
  BY <1>1 DEF Outdated
<1>5. r.id \in Nat
  BY DEF RequestType
<1>6. [z EXCEPT !.id = r.id] \in RequestType
  BY <1>3, <1>5 DEF RequestType
<1>7. q.id = r.id /\ q.of = z.of /\ q.action = z.action /\ q.editor = z.editor /\ q.request = z.request
  BY <1>3, <1>4 DEF RequestType
<1> QED BY <1>3, <1>4, <1>6, <1>7

\* The follow-up list closes.
LEMMA OutdateStep ==
    ASSUME BodyOK, IsOpen("followups"),
           OnlyOpen("followups", NoPopup), flight' = {Outdated(r, "followups") : r \in flight}, flags' = flags
    PROVE  BodyOK'
<1>0. /\ PopupsTypeOK /\ OneOpen /\ RequestsOK /\ BoundOK /\ FocusOK /\ BusyOK /\ ActsOnItsTarget
  BY DEF BodyOK
<1>1. "followups" \in KindSet /\ "worktrees" \in KindSet /\ "naming" \in KindSet /\ "picker" \in KindSet
  BY KindsAre
<1>2. /\ popups' \in [KindSet -> PopupType]
      /\ \A l \in KindSet : popups'[l] = NoPopup /\ popups'[l].id = 0 /\ ~popups'[l].busy
      /\ OneOpen'
  <2>1. NoPopup \in PopupType /\ NoPopup.id = 0 /\ ~NoPopup.busy
    BY NoPopupIs
  <2> QED BY <1>1, <2>1, OnlyOpenEffect
<1>3. \A r \in flight : Outdated(r, "followups") = r \/ r.of = "followups"
  BY DEF Outdated
<1>4. ASSUME NEW q \in flight'
      PROVE  q \in RequestType /\ (q \in flight \/ (q.of = "followups" /\ q.id # 0 /\ q.action = "get" /\ q.editor = q.request))
  <2>1. PICK r \in flight : q = Outdated(r, "followups")
    BY Zenon
  <2>2. r \in RequestType /\ r.editor = r.request
    BY <1>0 DEF PopupsTypeOK, RequestsOK
  <2>3. CASE r.of = "followups"
    <3>1. q \in RequestType /\ q.of = r.of /\ q.id = r.id /\ q.action = "get" /\ q.editor = q.request
      BY <2>1, <2>2, <2>3, OutdatedIs
    <3>2. r.id # 0
      BY <1>0, <1>1, <2>3 DEF RequestsOK
    <3> QED BY <2>3, <3>1, <3>2
  <2>4. CASE r.of # "followups"
    BY <1>3, <2>1, <2>2, <2>4
  <2> QED BY <2>3, <2>4
<1>5. PopupsTypeOK'
  <2>1. PICK f : f = [r \in flight |-> Outdated(r, "followups")]
    BY Zenon
  <2>2. flight' = {f[r] : r \in flight} /\ DOMAIN f = flight
    BY <2>1
  <2>3. IsFiniteSet(flight')
    BY <1>0, <2>2, FiniteImage DEF PopupsTypeOK
  <2> QED BY <1>0, <1>2, <1>4, <2>3 DEF PopupsTypeOK
<1>6. RequestsOK'
  BY <1>0, <1>4 DEF RequestsOK
<1>7. \A q \in flight' : ~Bound(q)
  <2>1. \A k \in KindSet : IsOpen(k) => Idles(k) \/ k \in {"recent", "followups", "instruction"}
    BY <1>0, <1>1 DEF OneOpen
  <2>2. \A r \in flight : ~Bound(r)
    BY <2>1, NothingBound
  <2> QED BY <1>4, <2>2 DEF Bound
<1>8. BoundOK'
  BY <1>7 DEF BoundOK
<1>9. FocusOK'
  <2>1. \A q \in flight' : q.of = "focus" => q \in flight
    BY <1>4
  <2> QED BY <1>0, <1>1, <1>2, <2>1 DEF FocusOK, IsOpen
<1>10. BusyOK'
  <2>1. ASSUME NEW f \in flags PROVE \E q \in flight' : f \in FlagOf(q.of)
    <3>1. PICK r \in flight : f \in FlagOf(r.of)
      BY <1>0, <2>1 DEF BusyOK
    <3>2. r.of # "followups"
      BY <3>1, FlagOfIs
    <3>3. r \in flight'
      BY <1>3, <3>2
    <3> QED BY <3>1, <3>3
  <2> QED BY <1>1, <1>2, <2>1 DEF BusyOK
<1>11. ActsOnItsTarget'
  BY <1>2, <1>6, <1>7 DEF ActsOnItsTarget, RequestsOK, Bound
<1> QED BY <1>2, <1>5, <1>6, <1>8, <1>9, <1>10, <1>11 DEF BodyOK

\* A step that is not about the follow-up list.
LEMMA FeedKept ==
    ASSUME FeedOK, feed' = feed, daemon' = daemon, popups'["followups"] = popups["followups"],
           \A r : r.of = "followups" => (r \in flight' <=> r \in flight)
    PROVE  FeedOK'
<1>1. \A r : Ours(r)' <=> Ours(r)
  BY DEF Ours
<1>2. \A r : Expected(r)' <=> Expected(r)
  BY DEF Expected
<1>3. IsOpen("followups")' <=> IsOpen("followups")
  BY DEF IsOpen
<1>4. \A r : Ours(r) => (r \in flight' <=> r \in flight)
  BY DEF Ours
<1>5. \A r : Queued(r)' <=> Queued(r)
  BY DEF Queued
<1>6. ItemsOK' /\ ChangesOK'
  BY <1>1, <1>2, <1>4, <1>5 DEF FeedOK, ItemsOK, ChangesOK
<1> QED BY <1>1, <1>2, <1>3, <1>4, <1>6 DEF FeedOK, FeedTypeOK

\* A pop-up that opens.
IsNew(p, busy) == p \in PopupType /\ p.id # 0 /\ (\A r \in flight : r.id # p.id) /\ p.busy = busy

LEMMA OpenedIs ==
    ASSUME PopupsInv, NEW mode \in Modes, NEW busy \in BOOLEAN
    PROVE  IsNew(Opened(mode, busy), busy) /\ Opened(mode, busy).target = selected
<1>1. PICK p, n : p = Opened(mode, busy) /\ n = NewID
  BY Zenon
<1>2. n \in Nat \ {0} /\ \A r \in flight : r.id # n
  BY <1>1, NewIDIsNew DEF PopupsInv, BodyOK
<1>3. selected \in TargetType
  BY DEF PopupsInv, ListOK
<1>4. p = [id |-> n, target |-> selected, mode |-> mode, busy |-> busy]
  BY <1>1 DEF Opened
<1>5. p \in PopupType /\ p.id = n /\ p.busy = busy /\ p.target = selected
  BY <1>2, <1>3, <1>4 DEF PopupType
<1> QED BY <1>1, <1>2, <1>5 DEF IsNew

\* No focus request is on the way while its menu is idle or about to open.
LEMMA NoFocus ==
    ASSUME BodyOK, \A r \in flight : ~Bound(r), IsOpen("worktrees") \/ Free(Acting)
    PROVE  \A r \in flight : r.of # "focus"
<1> SUFFICES ASSUME NEW r \in flight, r.of = "focus" PROVE FALSE
  OBVIOUS
<1>1. r.id = 0
  BY DEF Bound
<1>2. "focusing" \in flags /\ ~IsOpen("worktrees")
  BY <1>1 DEF BodyOK, FocusOK
<1> QED BY <1>2 DEF Free, Acting

\* When the open pop-up may get keys: it waits for nothing that must be answered.
Ready(k) == IsOpen(k) /\ (Idles(k) \/ k \in {"recent", "followups", "instruction"})

LEMMA ReadyMeans ==
    ASSUME BodyOK, MainScreen \/ \E l \in KindSet : Ready(l)
    PROVE  \A r \in flight : ~Bound(r)
<1>1. \A k \in KindSet : IsOpen(k) => Idles(k) \/ k \in {"recent", "followups", "instruction"}
  BY DEF MainScreen, Ready, BodyOK, OneOpen
<1> QED BY <1>1, NothingBound

\* A key of the list opens p, or one of the pop-up that is open changes it to p or closes it.
Leads(k, p, requests) ==
    \/ MainScreen /\ p.id # 0 /\ (\A r \in flight : r.id # p.id) /\ (k = "worktrees" => Free(Acting))
    \/ Ready(k) /\ p.id = popups[k].id /\ p.target = popups[k].target
    \/ Ready(k) /\ p = NoPopup /\ requests = {}

Updated(k, p, requests) ==
    /\ popups' = [popups EXCEPT ![k] = p] /\ flight' = flight \union requests
    /\ flags \subseteq flags' /\ \A f \in flags' : f \in flags \/ \E q \in requests : f \in FlagOf(q.of)
    /\ \A q \in requests : FlagOf(q.of) \subseteq flags'

LEMMA UpdateIs ==
    ASSUME NEW k, NEW p, NEW requests, Few(requests), Update(k, p, requests)
    PROVE  Updated(k, p, requests)
BY UpdateEffect DEF Updated

LEMMA UpdateStep ==
    ASSUME PopupsInv, NEW k \in KindSet, NEW p \in PopupType, NEW requests \in SUBSET RequestType, Few(requests),
           Updated(k, p, requests), Leads(k, p, requests),
           \A q \in requests : MayAsk(k, p, q),
           k # "followups" /\ p.busy => \E q \in requests : OwnerOf(q) = k,
           k \in {"naming", "picker"} => ~p.busy
    PROVE  BodyOK' /\ (k # "followups" /\ feed' = feed /\ daemon' = daemon => FeedOK')
<1>0. BodyOK /\ FeedOK /\ popups \in [KindSet -> PopupType]
  BY DEF PopupsInv, BodyOK, PopupsTypeOK
<1>1. /\ popups' = [popups EXCEPT ![k] = p] /\ flight' = flight \union requests
      /\ flags \subseteq flags' /\ \A f \in flags' : f \in flags \/ \E q \in requests : f \in FlagOf(q.of)
      /\ \A q \in requests : FlagOf(q.of) \subseteq flags'
  BY DEF Updated
<1>2. \A l \in KindSet : l # k => popups[l] = NoPopup
  BY <1>0, OthersClosed DEF Leads, Ready
<1>3. OnlyOpen(k, p)
  BY <1>0, <1>1, <1>2 DEF OnlyOpen
<1>4. \A r \in flight : ~Bound(r)
  BY <1>0, ReadyMeans DEF Leads
<1>5. k = "worktrees" => \A r \in flight : r.of # "focus"
  BY <1>0, <1>4, NoFocus DEF Leads, Ready
<1>6. /\ p.id # 0 \/ (p = NoPopup /\ requests = {})
      /\ \/ p.id = popups[k].id /\ p.target = popups[k].target
         \/ \A r \in flight : r.id # p.id
         \/ p = NoPopup
  BY DEF Leads, Ready, IsOpen
<1>7. BodyOK'
  BY <1>0, <1>1, <1>3, <1>4, <1>5, <1>6, AskStep
<1>8. ASSUME k # "followups", feed' = feed, daemon' = daemon PROVE FeedOK'
  <2>1. "followups" \in KindSet
    BY KindsAre
  <2>2. popups'["followups"] = popups["followups"]
    BY <1>0, <1>1, <1>8, <2>1
  <2>3. \A q \in requests : q.of # "followups"
    BY <1>8 DEF MayAsk
  <2>4. \A r : r.of = "followups" => (r \in flight' <=> r \in flight)
    BY <1>1, <2>3
  <2> QED BY <1>0, <1>8, <2>2, <2>4, FeedKept
<1> QED BY <1>7, <1>8

LEMMA ListKept ==
    ASSUME ListOK, UNCHANGED <<cooling, selected, quitting>>
    PROVE  ListOK'
BY DEF ListOK

\* The steps of a pop-up other than the follow-up list.
LEMMA PlainUpdate ==
    ASSUME PopupsInv, NEW k \in KindSet \ {"followups"}, NEW p \in PopupType, Updated(k, p, {}), Leads(k, p, {}), ~p.busy,
           UNCHANGED <<cooling, selected, feed, daemon, quitting>>
    PROVE  PopupsInv'
<1>1. Few({}) /\ {} \in SUBSET RequestType
  BY DEF Few
<1>2. BodyOK' /\ FeedOK'
  BY <1>1, UpdateStep
<1>3. ListOK'
  BY ListKept DEF PopupsInv
<1> QED BY <1>2, <1>3 DEF PopupsInv

LEMMA AskingUpdate ==
    ASSUME PopupsInv, NEW k \in KindSet \ {"followups"}, NEW p \in PopupType, NEW of, NEW action, NEW q,
           AsksFor(q, of, action, p), Updated(k, p, {q}), Leads(k, p, {q}),
           action \in {"selection", "started"} => of = "picker",
           \/ of = k /\ (p.busy \/ k \in {"naming", "picker"})
           \/ of = "focus" /\ k = "worktrees" /\ p.busy
           \/ of \in {"git", "editor"} /\ ~p.busy,
           k \in {"naming", "picker"} => ~p.busy,
           UNCHANGED <<cooling, selected, feed, daemon, quitting>>
    PROVE  PopupsInv'
<1>1. Few({q}) /\ {q} \in SUBSET RequestType
  BY DEF Few, AsksFor
<1>2. MayAsk(k, p, q)
  BY DEF MayAsk, AsksFor
<1>3. p.busy => OwnerOf(q) = k
  BY KindsAre DEF OwnerOf, AsksFor
<1>4. \A s \in {q} : MayAsk(k, p, s)
  BY <1>2
<1>5. k # "followups" /\ p.busy => \E s \in {q} : OwnerOf(s) = k
  BY <1>3
<1>6. BodyOK' /\ FeedOK'
  BY <1>1, <1>4, <1>5, UpdateStep
<1>7. ListOK'
  BY ListKept DEF PopupsInv
<1> QED BY <1>6, <1>7 DEF PopupsInv

-----------------------------------------------------------------------------
(* Keys.                                                                   *)

LEMMA OpenPlainKeeps ==
    ASSUME PopupsInv, NEW k \in {"instruction", "ticket", "worktrees", "input", "alias"}, OpenPlain(k)
    PROVE  PopupsInv'
<1>1. PICK p : p = Opened("menu", FALSE)
  BY Zenon
<1>2. IsNew(p, FALSE)
  BY <1>1, OpenedIs DEF Modes
<1>3. /\ MainScreen /\ (k = "worktrees" => Free(Acting)) /\ Update(k, p, {})
      /\ UNCHANGED <<cooling, selected, feed, daemon, quitting>>
  BY <1>1 DEF OpenPlain
<1>4. k \in KindSet \ {"followups"}
  BY KindsAre
<1>5. Leads(k, p, {}) /\ ~p.busy /\ p \in PopupType
  BY <1>2, <1>3 DEF IsNew, Leads
<1>6. Updated(k, p, {})
  BY <1>3, UpdateIs DEF Few
<1> QED BY <1>3, <1>4, <1>5, <1>6, PlainUpdate

LEMMA OpenRecentKeeps ==
    ASSUME PopupsInv, OpenRecent
    PROVE  PopupsInv'
<1>1. PICK p, q : p = Opened("directory", TRUE) /\ q = Request("recent", "directories", p)
  BY Zenon
<1>2. IsNew(p, TRUE)
  BY <1>1, OpenedIs DEF Modes
<1>3. /\ MainScreen /\ Update("recent", p, {q})
      /\ UNCHANGED <<cooling, selected, feed, daemon, quitting>>
  BY <1>1 DEF OpenRecent
<1>4. "recent" \in KindSet \ {"followups"} /\ "recent" \in Ofs /\ "directories" \in Actions
  BY KindsAre DEF Ofs, Actions
<1>5. Leads("recent", p, {q}) /\ p.busy /\ p \in PopupType
  BY <1>2, <1>3 DEF IsNew, Leads
<1>6. Updated("recent", p, {q})
  BY <1>3, UpdateIs DEF Few
<1>7. Asks(q, "recent", "directories", p)
  BY <1>1, <1>4, <1>5, RequestIs
<1> QED BY <1>3, <1>4, <1>5, <1>6, <1>7, AskingUpdate, AsksItself

LEMMA OpenEditorKeeps ==
    ASSUME PopupsInv, OpenEditor
    PROVE  PopupsInv'
<1>1. PICK p, q : p = Opened("menu", FALSE) /\ q = Request("editor", "edit", p)
  BY Zenon
<1>2. IsNew(p, FALSE)
  BY <1>1, OpenedIs DEF Modes
<1>3. /\ MainScreen /\ (Update("input", p, {q}) \/ Update("input", p, {}))
      /\ UNCHANGED <<cooling, selected, feed, daemon, quitting>>
  BY <1>1 DEF OpenEditor
<1>4. "input" \in KindSet \ {"followups"} /\ "editor" \in Ofs /\ "edit" \in Actions
  BY KindsAre DEF Ofs, Actions
<1>5. (\A s : Leads("input", p, s)) /\ ~p.busy /\ p \in PopupType
  BY <1>2, <1>3 DEF IsNew, Leads
<1>6. Asks(q, "editor", "edit", p)
  BY <1>1, <1>4, <1>5, RequestIs
<1>7. CASE Update("input", p, {q})
  <2>1. Updated("input", p, {q})
    BY <1>7, UpdateIs DEF Few
  <2> QED BY <1>3, <1>4, <1>5, <1>6, <2>1, AskingUpdate, AsksItself
<1>8. CASE Update("input", p, {})
  <2>1. Updated("input", p, {})
    BY <1>8, UpdateIs DEF Few
  <2> QED BY <1>3, <1>4, <1>5, <2>1, PlainUpdate
<1> QED BY <1>3, <1>7, <1>8

LEMMA TurnsAre ==
    ASSUME NEW t \in Turns
    PROVE  t[1] \in KindSet \ {"followups"} /\ t[3] \in Modes
<1>1. t[1] \in {"recent", "ticket", "worktrees", "alias"} /\ t[3] \in {"kind", "listed", "add", "send", "custom"}
  BY DEF Turns, RecentTurns
<1> QED BY <1>1, KindsAre DEF Modes

LEMMA TurnToKeeps ==
    ASSUME PopupsInv, NEW t \in Turns, TurnTo(t[1], t[2], t[3])
    PROVE  PopupsInv'
<1>1. PICK k \in KindSet \ {"followups"}, mode \in Modes : k = t[1] /\ mode = t[3]
  BY TurnsAre
<1>2. PICK p : p = [popups[k] EXCEPT !.mode = mode]
  BY Zenon
<1>3. popups[k] \in PopupType
  BY <1>1 DEF PopupsInv, BodyOK, PopupsTypeOK
<1>4. p \in PopupType /\ p.id = popups[k].id /\ p.target = popups[k].target /\ p.busy = popups[k].busy
  BY <1>1, <1>2, <1>3 DEF PopupType
<1>5. Takes(k) /\ Idles(k) /\ Update(k, p, {}) /\ UNCHANGED <<cooling, selected, feed, daemon, quitting>>
  BY <1>1, <1>2 DEF TurnTo
<1>6. Leads(k, p, {}) /\ ~p.busy
  BY <1>4, <1>5 DEF Leads, Ready, Takes, Idles
<1>7. Updated(k, p, {})
  BY <1>5, UpdateIs DEF Few
<1> QED BY <1>1, <1>4, <1>5, <1>6, <1>7, PlainUpdate

LEMMA SendsAre ==
    ASSUME NEW s \in Sends
    PROVE  /\ s[1] \in KindSet \ {"followups", "instruction"} /\ s[3] \in Actions /\ s[4] \in Modes
           /\ s[3] \in {"selection", "started"} => s[1] = "picker"
<1>1. s \in TicketSends => s[1] = "ticket" /\ s[3] \in {"config", "list", "start", "add"} /\ s[4] \in {"start", "list", "ready", "add"}
  BY DEF TicketSends
<1>2. s \in WorktreeSends => s[1] \in {"naming", "picker"} /\ s[3] \in {"create", "selection"} /\ s[4] = "menu"
                            /\ (s[3] = "selection" => s[1] = "picker")
  BY DEF WorktreeSends
<1>3. s \in AliasSends \union RecentSends =>
         s[1] \in {"alias", "recent"} /\ s[3] \in {"save", "start"} /\ s[4] \in {"menu", "custom", "kind"}
  BY DEF AliasSends, RecentSends
<1>4. s \in {<<"worktrees", "send", "shell", "send">>, <<"merge", "choose", "merge", "choose">>, <<"input", "menu", "send", "menu">>} =>
         s[1] \in {"worktrees", "merge", "input"} /\ s[3] \in {"shell", "merge", "send"} /\ s[4] \in {"send", "choose", "menu"}
  OBVIOUS
<1>5. \/ s \in TicketSends \/ s \in WorktreeSends \/ s \in AliasSends \union RecentSends
      \/ s \in {<<"worktrees", "send", "shell", "send">>, <<"merge", "choose", "merge", "choose">>, <<"input", "menu", "send", "menu">>}
  BY DEF Sends
<1>6. /\ s[1] \in KindSet \ {"followups", "instruction"}
  BY <1>1, <1>2, <1>3, <1>4, <1>5, KindsAre
<1>7. s[3] \in Actions
  BY <1>1, <1>2, <1>3, <1>4, <1>5 DEF Actions
<1>8. s[4] \in Modes
  BY <1>1, <1>2, <1>3, <1>4, <1>5 DEF Modes
<1>9. s[3] \in {"selection", "started"} => s[1] = "picker"
  BY <1>1, <1>2, <1>3, <1>4, <1>5
<1> QED BY <1>6, <1>7, <1>8, <1>9

LEMMA SubmitKeeps ==
    ASSUME PopupsInv, NEW s \in Sends, Submit(s[1], s[2], s[3], s[4])
    PROVE  PopupsInv'
<1>1. PICK k \in KindSet \ {"followups", "instruction"}, action \in Actions, mode \in Modes, busy \in BOOLEAN :
         k = s[1] /\ action = s[3] /\ mode = s[4] /\ busy = (k \notin {"naming", "picker"})
         /\ (action \in {"selection", "started"} => k = "picker")
  BY SendsAre
<1>2. PICK p, q : p = [popups[k] EXCEPT !.mode = mode, !.busy = busy] /\ q = Request(k, action, p)
  BY Zenon
<1>3. popups[k] \in PopupType
  BY <1>1 DEF PopupsInv, BodyOK, PopupsTypeOK
<1>4. p \in PopupType /\ p.id = popups[k].id /\ p.target = popups[k].target /\ p.busy = busy
  BY <1>1, <1>2, <1>3 DEF PopupType
<1>5. Takes(k) /\ Idles(k) /\ Update(k, p, {q}) /\ UNCHANGED <<cooling, selected, feed, daemon, quitting>>
  BY <1>1, <1>2 DEF Submit
<1>6. Leads(k, p, {q})
  BY <1>4, <1>5 DEF Leads, Ready, Takes, Idles
<1>7. Updated(k, p, {q})
  BY <1>5, UpdateIs DEF Few
<1>8. Asks(q, k, action, p)
  BY <1>1, <1>2, <1>4, RequestIs DEF Ofs
<1>9. (p.busy \/ k \in {"naming", "picker"}) /\ (k \in {"naming", "picker"} => ~p.busy)
  BY <1>1, <1>4
<1> QED BY <1>1, <1>4, <1>5, <1>6, <1>7, <1>8, <1>9, AskingUpdate, AsksItself

LEMMA MergeRefusedKeeps ==
    ASSUME PopupsInv, MergeRefused
    PROVE  PopupsInv'
<1>1. /\ Takes("merge") /\ Idles("merge") /\ Update("merge", NoPopup, {})
      /\ UNCHANGED <<cooling, selected, feed, daemon, quitting>>
  BY DEF MergeRefused
<1>2. "merge" \in KindSet \ {"followups"} /\ NoPopup \in PopupType /\ ~NoPopup.busy
  BY KindsAre, NoPopupIs
<1>3. Leads("merge", NoPopup, {})
  BY <1>1 DEF Leads, Ready, Takes
<1>4. Updated("merge", NoPopup, {})
  BY <1>1, UpdateIs DEF Few
<1> QED BY <1>1, <1>2, <1>3, <1>4, PlainUpdate

LEMMA LazygitKeeps ==
    ASSUME PopupsInv, openLazygit
    PROVE  PopupsInv'
<1>1. PICK k, p, z, q : /\ k = "worktrees" /\ p = popups[k] /\ z = Request("git", "git", p)
                        /\ q = [z EXCEPT !.target = selected]
  BY Zenon
<1>2. k \in KindSet \ {"followups"} /\ "git" \in Ofs /\ "git" \in Actions /\ selected \in TargetType
  BY <1>1, KindsAre DEF Ofs, Actions, PopupsInv, ListOK
<1>3. p \in PopupType
  BY <1>1, <1>2 DEF PopupsInv, BodyOK, PopupsTypeOK
<1>4. Takes(k) /\ Idles(k) /\ Update(k, p, {q}) /\ UNCHANGED <<cooling, selected, feed, daemon, quitting>>
  BY <1>1 DEF openLazygit, MenuTakes
<1>5. ~p.busy /\ Leads(k, p, {q})
  BY <1>1, <1>4 DEF Leads, Ready, Takes, Idles
<1>6. Updated(k, p, {q})
  BY <1>4, UpdateIs DEF Few
<1>7. Asks(z, "git", "git", p)
  BY <1>1, <1>2, <1>3, RequestIs
<1>8. AsksFor(q, "git", "git", p)
  BY <1>1, <1>2, <1>7 DEF Asks, AsksFor, RequestType
<1> QED BY <1>1, <1>2, <1>3, <1>4, <1>5, <1>6, <1>8, AskingUpdate

LEMMA FocusChildKeeps ==
    ASSUME PopupsInv, focusChildWorktree
    PROVE  PopupsInv'
<1>1. PICK k, o, p, q : /\ k = "worktrees" /\ o = popups[k] /\ p = [o EXCEPT !.busy = TRUE]
                        /\ q = Request("focus", "focus", o)
  BY Zenon
<1>2. k \in KindSet \ {"followups"} /\ "focus" \in Ofs /\ "focus" \in Actions
  BY <1>1, KindsAre DEF Ofs, Actions
<1>3. o \in PopupType
  BY <1>1, <1>2 DEF PopupsInv, BodyOK, PopupsTypeOK
<1>4. p \in PopupType /\ p.id = o.id /\ p.target = o.target /\ p.busy
  BY <1>1, <1>3 DEF PopupType
<1>5. Takes(k) /\ Idles(k) /\ Update(k, p, {q}) /\ UNCHANGED <<cooling, selected, feed, daemon, quitting>>
  BY <1>1 DEF focusChildWorktree, MenuTakes
<1>6. Leads(k, p, {q})
  BY <1>1, <1>4, <1>5 DEF Leads, Ready, Takes
<1>7. Updated(k, p, {q})
  BY <1>5, UpdateIs DEF Few
<1>8. Asks(q, "focus", "focus", o)
  BY <1>1, <1>2, <1>3, RequestIs
<1>9. AsksFor(q, "focus", "focus", p)
  BY <1>4, <1>8 DEF Asks, AsksFor
<1> QED BY <1>1, <1>2, <1>4, <1>5, <1>6, <1>7, <1>9, AskingUpdate

\* A pop-up that opens over the list or in place of the worktree menu.
LEMMA ReplaceMenu ==
    ASSUME PopupsInv, MainScreen \/ Ready("worktrees"), NEW k \in {"merge", "naming"}, NEW busy, NEW p, IsNew(p, busy),
           OnlyOpen(k, p), NEW requests, requests = {} \/ \E q : requests = {q} /\ Asks(q, "merge", "merge", p),
           busy => requests # {}, k = "naming" => requests = {} /\ ~busy, requests # {} => busy,
           flight' = flight \union requests,
           UNCHANGED <<flags, cooling, selected, feed, daemon, quitting>>
    PROVE  PopupsInv'
<1>0. BodyOK /\ FeedOK /\ popups \in [KindSet -> PopupType]
  BY DEF PopupsInv, BodyOK, PopupsTypeOK
<1>1. "worktrees" \in KindSet /\ k \in KindSet \ {"followups"} /\ "followups" \in KindSet /\ "merge" \in KindSet
  BY KindsAre
<1>2. \A r \in flight : ~Bound(r)
  BY <1>0, <1>1, ReadyMeans
<1>3. p \in PopupType /\ p.id # 0 /\ (\A r \in flight : r.id # p.id) /\ p.busy = busy
  BY DEF IsNew
<1>4. \A q \in requests : Asks(q, "merge", "merge", p) /\ k = "merge" /\ p.busy
  BY <1>3
<1>5. \A q \in requests : MayAsk(k, p, q) /\ OwnerOf(q) = k /\ FlagOf(q.of) = {} /\ q \in RequestType /\ q.of = "merge"
  BY <1>4, FlagOfIs DEF MayAsk, Asks, OwnerOf
<1>6. Few(requests) /\ requests \in SUBSET RequestType
  BY <1>5 DEF Few
<1>7. p.busy => \E q \in requests : OwnerOf(q) = k
  BY <1>3, <1>5
<1>8. (k \in {"naming", "picker"} => ~p.busy) /\ k # "worktrees"
  BY <1>3
<1>9. \A q \in requests : FlagOf(q.of) \subseteq flags'
  BY <1>5
<1>10. flags \subseteq flags' /\ \A f \in flags' : f \in flags \/ \E q \in requests : f \in FlagOf(q.of)
  OBVIOUS
<1>11. BodyOK'
  BY <1>0, <1>1, <1>2, <1>3, <1>5, <1>6, <1>7, <1>8, <1>9, <1>10, AskStep
<1>12. FeedOK'
  <2>1. popups["followups"] = NoPopup
    <3>1. IsOpen("worktrees") => popups["followups"] = NoPopup
      BY <1>0, <1>1, OthersClosed
    <3> QED BY <1>0, <1>1, <3>1, OthersClosed DEF Ready
  <2>2. popups'["followups"] = NoPopup
    BY <1>1 DEF OnlyOpen
  <2>3. \A r : r.of = "followups" => (r \in flight' <=> r \in flight)
    BY <1>5
  <2> QED BY <1>0, <2>1, <2>2, <2>3, FeedKept
<1>13. ListOK'
  BY ListKept DEF PopupsInv
<1> QED BY <1>11, <1>12, <1>13 DEF PopupsInv

LEMMA OpenMergeKeeps ==
    ASSUME PopupsInv, NEW from \in {"list", "worktrees"}, OpenMerge(from)
    PROVE  PopupsInv'
<1>1. PICK p, q, b : p = Opened("choose", FALSE) /\ q = Request("merge", "merge", p) /\ b = [p EXCEPT !.busy = TRUE]
  BY Zenon
<1>2. IsNew(p, FALSE)
  BY <1>1, OpenedIs DEF Modes
<1>3. b \in PopupType /\ b.id = p.id /\ b.target = p.target /\ b.busy = TRUE
  BY <1>1, <1>2 DEF IsNew, PopupType
<1>4. IsNew(b, TRUE)
  BY <1>2, <1>3 DEF IsNew
<1>5. "worktrees" \in KindSet /\ "merge" \in KindSet /\ "merge" \in Ofs /\ "merge" \in Actions
  BY KindsAre DEF Ofs, Actions
<1>6. Asks(q, "merge", "merge", b)
  <2>1. Asks(q, "merge", "merge", p)
    BY <1>1, <1>2, <1>5, RequestIs DEF IsNew
  <2> QED BY <1>3, <2>1 DEF Asks
<1>7. MainScreen \/ Ready("worktrees")
  BY DEF OpenMerge, Takes, Ready, Idles
<1>8. PICK closed : /\ closed = IF from = "list" THEN popups ELSE [popups EXCEPT !["worktrees"] = NoPopup]
                    /\ \/ popups' = [closed EXCEPT !["merge"] = p] /\ flight' = flight
                       \/ popups' = [closed EXCEPT !["merge"] = b] /\ flight' = flight \union {q}
  BY <1>1 DEF OpenMerge
<1>9. closed = [l \in KindSet |-> NoPopup]
  <2>1. BodyOK /\ popups \in [KindSet -> PopupType]
    BY DEF PopupsInv, BodyOK, PopupsTypeOK
  <2>2. CASE from = "list"
    <3>1. \A l \in KindSet : popups[l] = NoPopup
      BY <2>1, <2>2, OthersClosed DEF OpenMerge
    <3> QED BY <1>8, <2>1, <2>2, <3>1
  <2>3. CASE from = "worktrees"
    <3>1. \A l \in KindSet : l # "worktrees" => popups[l] = NoPopup
      BY <1>5, <2>1, <2>3, OthersClosed DEF OpenMerge, Takes
    <3> QED BY <1>8, <2>1, <2>3, <3>1
  <2> QED BY <2>2, <2>3
<1>10. UNCHANGED <<flags, cooling, selected, feed, daemon, quitting>>
  BY DEF OpenMerge
<1>11. CASE popups' = [closed EXCEPT !["merge"] = p] /\ flight' = flight
  <2>1. OnlyOpen("merge", p)
    BY <1>5, <1>9, <1>11 DEF OnlyOpen
  <2>2. flight' = flight \union {}
    BY <1>11
  <2> QED BY <1>2, <1>7, <1>10, <2>1, <2>2, ReplaceMenu
<1>12. CASE popups' = [closed EXCEPT !["merge"] = b] /\ flight' = flight \union {q}
  <2>1. OnlyOpen("merge", b)
    BY <1>5, <1>9, <1>12 DEF OnlyOpen
  <2>2. flight' = flight \union {q} /\ {q} # {}
    BY <1>12
  <2> QED BY <1>4, <1>6, <1>7, <1>10, <2>1, <2>2, ReplaceMenu
<1> QED BY <1>8, <1>11, <1>12

LEMMA MenuToNamingKeeps ==
    ASSUME PopupsInv, MenuToNaming
    PROVE  PopupsInv'
<1>1. PICK p : p = Opened("menu", FALSE)
  BY Zenon
<1>2. IsNew(p, FALSE)
  BY <1>1, OpenedIs DEF Modes
<1>3. /\ Ready("worktrees") /\ popups' = [popups EXCEPT !["worktrees"] = NoPopup, !["naming"] = p]
      /\ UNCHANGED <<flags, cooling, selected, feed, flight, daemon, quitting>>
  BY <1>1 DEF MenuToNaming, MenuTakes, Ready, Takes
<1>4. BodyOK /\ popups \in [KindSet -> PopupType] /\ "worktrees" \in KindSet /\ "naming" \in KindSet
  BY KindsAre DEF PopupsInv, BodyOK, PopupsTypeOK
<1>5. \A l \in KindSet : l # "worktrees" => popups[l] = NoPopup
  BY <1>3, <1>4, OthersClosed DEF Ready
<1>6. OnlyOpen("naming", p)
  BY <1>3, <1>4, <1>5 DEF OnlyOpen
<1>7. flight' = flight \union {} /\ UNCHANGED <<flags, cooling, selected, feed, daemon, quitting>>
  BY <1>3
<1> QED BY <1>2, <1>3, <1>6, <1>7, ReplaceMenu

LEMMA EscapeKeeps ==
    ASSUME PopupsInv, NEW k \in KindSet \ {"followups"}, Escape(k)
    PROVE  PopupsInv'
<1>0. BodyOK /\ popups \in [KindSet -> PopupType] /\ popups[k] \in PopupType /\ "menu" \in Modes
  BY DEF PopupsInv, BodyOK, PopupsTypeOK, Modes
<1>1. Ready(k)
  BY DEF Escape, Takes, MayClose, Ready
<1>2. UNCHANGED <<flags, cooling, selected, quitting>>
  BY DEF Escape
<1>3. \A r \in flight : Outdated(r, k) = r
  BY DEF Outdated
<1>4. {Outdated(r, k) : r \in flight} = flight
  BY <1>3
<1>5. PICK m : m = [popups[k] EXCEPT !.mode = "menu"]
  BY Zenon
<1>6. \E p \in {m, NoPopup} : /\ popups' = [popups EXCEPT ![k] = p] /\ UNCHANGED <<feed, flight, daemon>>
                              /\ p = m => k = "alias" /\ MayClose(k)
  <2>1. \/ k = "alias" /\ popups' = [popups EXCEPT ![k].mode = "menu"] /\ UNCHANGED <<feed, flight, daemon>> /\ MayClose(k)
        \/ popups' = [popups EXCEPT ![k] = NoPopup] /\ feed' = feed /\ daemon' = daemon /\ flight' = {Outdated(r, k) : r \in flight}
    BY DEF Escape
  <2>2. [popups EXCEPT ![k].mode = "menu"] = [popups EXCEPT ![k] = m]
    BY <1>0, <1>5
  <2>3. m # NoPopup
    BY <1>0, <1>1, <1>5, NoPopupIs DEF Ready, IsOpen, PopupType
  <2> QED BY <1>4, <2>1, <2>2, <2>3
<1>7. PICK p \in {m, NoPopup} : /\ popups' = [popups EXCEPT ![k] = p] /\ UNCHANGED <<feed, flight, daemon>>
                                /\ p = m => k = "alias" /\ MayClose(k)
  BY <1>6
<1>8. p \in PopupType /\ ~p.busy
  <2>1. m \in PopupType /\ m.busy = popups[k].busy
    BY <1>0, <1>5 DEF PopupType
  <2>2. p = m => ~popups[k].busy
    BY <1>7 DEF MayClose, Idles
  <2> QED BY <1>7, <2>1, <2>2, NoPopupIs
<1>9. Leads(k, p, {})
  <2>1. m.id = popups[k].id /\ m.target = popups[k].target
    BY <1>0, <1>5 DEF PopupType
  <2> QED BY <1>1, <1>7, <2>1 DEF Leads
<1>10. Updated(k, p, {})
  BY <1>2, <1>7 DEF Updated
<1> QED BY <1>2, <1>7, <1>8, <1>9, <1>10, PlainUpdate

LEMMA ActOnSelectedKeeps ==
    ASSUME PopupsInv, NEW of \in {"stop", "pin", "focus"}, ActOnSelected(of)
    PROVE  PopupsInv'
<1>0. /\ BodyOK /\ FeedOK /\ popups \in [KindSet -> PopupType] /\ selected \in TargetType
      /\ PopupsTypeOK /\ OneOpen /\ RequestsOK /\ BoundOK /\ FocusOK /\ BusyOK /\ ActsOnItsTarget
  BY DEF PopupsInv, BodyOK, PopupsTypeOK, ListOK
<1>1. PICK p, q : p = [NoPopup EXCEPT !.target = selected] /\ q = Request(of, of, p)
  BY Zenon
<1>2. p \in PopupType /\ p.id = 0
  BY <1>0, <1>1, NoPopupIs DEF PopupType
<1>3. of \in Ofs /\ of \in Actions /\ of \notin KindSet /\ "worktrees" \in KindSet /\ "naming" \in KindSet /\ "picker" \in KindSet
  BY KindsAre DEF Ofs, Actions
<1>4. Asks(q, of, of, p)
  BY <1>1, <1>2, <1>3, RequestIs
<1>5. q \in RequestType /\ q.of = of /\ q.action = of /\ q.id = 0 /\ q.editor = q.request
  BY <1>2, <1>4 DEF Asks
<1>6. /\ MainScreen /\ flags' = flags \union FlagOf(of) /\ flight' = flight \union {q}
      /\ UNCHANGED <<popups, cooling, selected, feed, daemon, quitting>>
      /\ of = "focus" => "focusing" \notin flags
  BY <1>1 DEF ActOnSelected, Free
<1>7. \A l \in KindSet : popups[l] = NoPopup /\ popups[l].id = 0 /\ ~popups[l].busy
  BY <1>0, <1>6, OthersClosed, NoPopupIs
<1>8. \A r \in flight : ~Bound(r)
  BY <1>0, <1>6, ReadyMeans
<1>9. PopupsTypeOK' /\ OneOpen'
  <2>1. IsFiniteSet(flight')
    BY <1>0, <1>6, FS_AddElement DEF PopupsTypeOK
  <2>2. flight' \subseteq RequestType /\ flags' \subseteq FlagNames
    BY <1>0, <1>5, <1>6, FlagOfIs DEF PopupsTypeOK
  <2> QED BY <1>0, <1>6, <2>1, <2>2 DEF PopupsTypeOK, OneOpen, IsOpen
<1>10. RequestsOK'
  BY <1>0, <1>3, <1>5, <1>6 DEF RequestsOK
<1>11. BoundOK'
  <2>1. ~Bound(q)
    BY <1>3, <1>5 DEF Bound
  <2> QED BY <1>6, <1>8, <2>1 DEF BoundOK
<1>12. FocusOK'
  <2>1. of = "focus" => \A r \in flight : r.of # "focus"
    BY <1>0, <1>6 DEF FocusOK
  <2>2. of = "focus" => "focusing" \in flags'
    BY <1>6, FlagOfIs
  <2>3. ~IsOpen("worktrees")'
    BY <1>3, <1>6, <1>7 DEF IsOpen
  <2>4. \A r \in flight : r.of = "focus" => "focusing" \in flags'
    BY <1>0, <1>6 DEF FocusOK
  <2>5. \A r, s \in flight : r.of = "focus" /\ s.of = "focus" => r = s
    BY <1>0 DEF FocusOK
  <2> QED BY <1>5, <1>6, <2>1, <2>2, <2>3, <2>4, <2>5 DEF FocusOK
<1>13. BusyOK'
  <2>1. \A f \in flags' : \E r \in flight' : f \in FlagOf(r.of)
    BY <1>0, <1>5, <1>6 DEF BusyOK
  <2> QED BY <1>3, <1>6, <1>7, <2>1 DEF BusyOK
<1>14. ActsOnItsTarget'
  BY <1>0, <1>3, <1>5, <1>6, <1>8 DEF ActsOnItsTarget
<1>15. FeedOK'
  <2>1. \A r : r.of = "followups" => (r \in flight' <=> r \in flight)
    BY <1>5, <1>6
  <2> QED BY <1>0, <1>6, <2>1, FeedKept
<1>16. ListOK'
  BY <1>6, ListKept DEF PopupsInv
<1> QED BY <1>9, <1>10, <1>11, <1>12, <1>13, <1>14, <1>15, <1>16 DEF PopupsInv, BodyOK

\* What BodyOK is about does not change.
LEMMA BodyKept ==
    ASSUME BodyOK, UNCHANGED <<popups, flags, flight>>
    PROVE  BodyOK'
<1>1. \A k : (IsOpen(k)' <=> IsOpen(k)) /\ (Idles(k)' <=> Idles(k))
  BY DEF IsOpen, Idles
<1> QED BY <1>1 DEF BodyOK, PopupsTypeOK, OneOpen, RequestsOK, BoundOK, FocusOK, BusyOK, ActsOnItsTarget

LEMMA ListMovesKeep ==
    ASSUME PopupsInv, SelectionMoves \/ CooldownEnds
    PROVE  PopupsInv'
<1>1. UNCHANGED <<popups, flags, flight, feed, daemon, quitting>>
  BY DEF SelectionMoves, CooldownEnds
<1>2. BodyOK'
  BY <1>1, BodyKept DEF PopupsInv
<1>3. FeedOK'
  BY <1>1, FeedKept DEF PopupsInv
<1>4. ListOK'
  BY DEF PopupsInv, ListOK, SelectionMoves, CooldownEnds, TargetType
<1> QED BY <1>2, <1>3, <1>4 DEF PopupsInv

\* Nothing is open and nothing on the way.
Blank == popups = [k \in KindSet |-> NoPopup] /\ flags = {} /\ feed = NoFeed /\ flight = {} /\ daemon = NoQueue

LEMMA BlankIsRight ==
    Blank => BodyOK /\ FeedOK
<1> SUFFICES ASSUME Blank PROVE BodyOK /\ FeedOK
  OBVIOUS
<1>0. "worktrees" \in KindSet /\ "naming" \in KindSet /\ "picker" \in KindSet /\ "followups" \in KindSet
  BY KindsAre
<1>1. \A k \in KindSet : popups[k] = NoPopup /\ popups[k].id = 0 /\ ~popups[k].busy
  BY NoPopupIs DEF Blank
<1>2. PopupsTypeOK
  <2>1. IsFiniteSet({})
    BY FS_EmptySet
  <2> QED BY <2>1, NoPopupIs DEF Blank, PopupsTypeOK
<1>3. OneOpen
  BY <1>1 DEF OneOpen, IsOpen
<1>4. RequestsOK /\ BoundOK /\ FocusOK /\ ActsOnItsTarget
  BY DEF Blank, RequestsOK, BoundOK, FocusOK, ActsOnItsTarget
<1>5. BusyOK
  BY <1>0, <1>1 DEF Blank, BusyOK
<1>6. FeedTypeOK
  BY NoPopupIs DEF Blank, FeedTypeOK
<1>7. /\ feed = NoFeed /\ feed.editor = feed.request /\ feed.shown <= daemon.version
      /\ DOMAIN daemon.added = {} /\ flight = {} /\ ~popups["followups"].busy /\ ~feed.loading
  <2>1. feed = NoFeed /\ daemon = NoQueue /\ flight = {}
    BY DEF Blank
  <2>2. NoFeed.editor = NoFeed.request /\ NoFeed.shown <= NoQueue.version /\ DOMAIN NoQueue.added = {} /\ ~NoFeed.loading
    BY DEF NoFeed, NoQueue
  <2> QED BY <1>0, <1>1, <2>1, <2>2
<1>8. FeedOK
  BY <1>6, <1>7 DEF FeedOK, ItemsOK, ChangesOK
<1> QED BY <1>2, <1>3, <1>4, <1>5, <1>8 DEF BodyOK

LEMMA InitIsRight ==
    ASSUME PopupsInit
    PROVE  PopupsInv
<1>1. Blank /\ ListOK
  BY DEF PopupsInit, Blank, ListOK, TargetType, NoFlags
<1> QED BY <1>1, BlankIsRight DEF PopupsInv

LEMMA GoneKeeps ==
    ASSUME Gone
    PROVE  PopupsInv'
<1>1. Blank'
  BY DEF Gone, Blank, NoFlags
<1>2. Blank' => (BodyOK /\ FeedOK)'
  BY BlankIsRight, PTL
<1>3. ListOK'
  BY DEF Gone, ListOK, TargetType
<1> QED BY <1>1, <1>2, <1>3 DEF PopupsInv

-----------------------------------------------------------------------------
(* Answers.                                                                *)

LEMMA AnswerAside ==
    ASSUME FeedOK, NEW r \in flight, r.of # "followups", flight' = flight \ {r},
           popups'["followups"] = popups["followups"], feed' = feed, daemon' = daemon
    PROVE  FeedOK'
<1>1. \A q : q.of = "followups" => (q \in flight' <=> q \in flight)
  OBVIOUS
<1> QED BY <1>1, FeedKept

LEMMA AnsweredIs ==
    ASSUME NEW r, NEW ok \in BOOLEAN, NEW o \in PopupType
    PROVE  \E p \in PopupType : /\ p = AnsweredPopup(r, ok, o) /\ ~p.busy
                                /\ p = NoPopup \/ (p.id = o.id /\ p.target = o.target)
<1>1. PICK p : p = AnsweredPopup(r, ok, o)
  BY Zenon
<1>2. \A m \in Modes : /\ [Released(o) EXCEPT !.mode = m] \in PopupType /\ [Released(o) EXCEPT !.mode = m].id = o.id
                       /\ [Released(o) EXCEPT !.mode = m].target = o.target /\ ~[Released(o) EXCEPT !.mode = m].busy
  BY DEF Released, PopupType
<1>3. Released(o) \in PopupType /\ Released(o).id = o.id /\ Released(o).target = o.target /\ ~Released(o).busy
  BY DEF Released, PopupType
<1>4. p = NoPopup \/ p = Released(o) \/ \E m \in Modes : p = [Released(o) EXCEPT !.mode = m]
  <2>1. "ready" \in Modes /\ "listed" \in Modes /\ "result" \in Modes
    BY DEF Modes
  <2>2. CASE r.of = "ticket"
    BY <1>1, <2>1, <2>2 DEF AnsweredPopup, AnsweredTicket
  <2>3. CASE r.of = "recent"
    BY <1>1, <2>1, <2>3 DEF AnsweredPopup, AnsweredRecent
  <2>4. CASE r.of = "worktrees"
    BY <1>1, <2>1, <2>4 DEF AnsweredPopup, AnsweredWorktrees
  <2>5. CASE r.of \notin {"ticket", "recent", "worktrees"}
    BY <1>1, <2>5 DEF AnsweredPopup
  <2> QED BY <2>2, <2>3, <2>4, <2>5
<1>5. NoPopup \in PopupType /\ ~NoPopup.busy
  BY NoPopupIs
<1> QED BY <1>1, <1>2, <1>3, <1>4, <1>5

\* The pop-up k that is answered becomes p.
LEMMA AnsweredOnly ==
    ASSUME BodyOK, NEW k \in KindSet, IsOpen(k), NEW p, popups' = [popups EXCEPT ![k] = p]
    PROVE  OnlyOpen(k, p)
<1>1. \A l \in KindSet : l # k => popups[l] = NoPopup
  BY OthersClosed
<1> QED BY <1>1 DEF OnlyOpen, BodyOK, PopupsTypeOK

LEMMA AnswerPopupKeeps ==
    ASSUME PopupsInv, NEW r \in flight, NEW ok \in BOOLEAN, AnswerPopup(r, ok)
    PROVE  PopupsInv'
<1>0. /\ BodyOK /\ FeedOK /\ popups \in [KindSet -> PopupType] /\ RequestsOK /\ BoundOK
  BY DEF PopupsInv, BodyOK, PopupsTypeOK
<1>1. PICK k \in KindSet \ {"followups", "instruction", "naming", "picker"} : k = r.of /\ k # "focus"
  BY KindsAre DEF AnswerPopup
<1>2. OwnerOf(r) = k /\ FlagOf(r.of) = {} /\ (k # "recent" => Bound(r))
  BY <1>1, FlagOfIs, KindsAre DEF OwnerOf, Bound
<1>3. /\ flight' = flight \ {r} /\ UNCHANGED <<flags, selected, feed, daemon, quitting>>
      /\ cooling' = (cooling \/ k = "merge")
      /\ popups' = IF IsOpen(k) /\ (Recognised(r) => popups[k].id = r.id)
                   THEN [popups EXCEPT ![k] = AnsweredPopup(r, ok, @)] ELSE popups
  BY <1>1 DEF AnswerPopup
<1>4. flags' = flags \ FlagOf(r.of) /\ r.id # 0 /\ "followups" \in KindSet
  BY <1>0, <1>1, <1>2, <1>3, KindsAre DEF RequestsOK
<1>5. k # "recent" => popups[k].id = r.id
  BY <1>0, <1>2 DEF BoundOK
<1>6. k = "recent" => Recognised(r)
  BY <1>1 DEF Recognised
<1>7. ASSUME popups[k].id = r.id PROVE BodyOK' /\ popups'["followups"] = popups["followups"]
  <2>1. popups[k] \in PopupType
    BY <1>0, <1>1
  <2>2. PICK p \in PopupType : /\ p = AnsweredPopup(r, ok, popups[k]) /\ ~p.busy
                               /\ p = NoPopup \/ (p.id = popups[k].id /\ p.target = popups[k].target)
    BY <2>1, AnsweredIs
  <2>3. IsOpen(k)
    BY <1>4, <1>7 DEF IsOpen
  <2>4. popups' = [popups EXCEPT ![k] = p]
    BY <1>0, <1>1, <1>3, <1>7, <2>2, <2>3
  <2>5. OnlyOpen(k, p)
    BY <1>0, <1>1, <2>3, <2>4, AnsweredOnly
  <2>6. p.id # 0 \/ p = NoPopup
    BY <2>2, <1>4, <1>7
  <2>7. BodyOK'
    BY <1>0, <1>1, <1>2, <1>3, <1>4, <1>7, <2>2, <2>5, <2>6, ReleaseStep
  <2>8. popups'["followups"] = popups["followups"]
    BY <1>0, <1>1, <1>4, <2>4
  <2> QED BY <2>7, <2>8
<1>8. ASSUME popups[k].id # r.id PROVE BodyOK' /\ popups'["followups"] = popups["followups"]
  <2>1. k = "recent" /\ popups' = popups
    BY <1>3, <1>5, <1>6, <1>8
  <2>2. SamePopups
    BY <1>0, <2>1 DEF SamePopups
  <2>3. ~Bound(r)
    BY <1>1, <2>1 DEF Bound
  <2>4. BodyOK'
    BY <1>0, <1>2, <1>3, <1>4, <1>8, <2>2, <2>3, DropStep
  <2> QED BY <2>1, <2>4
<1>9. BodyOK' /\ popups'["followups"] = popups["followups"]
  BY <1>7, <1>8
<1>10. FeedOK'
  BY <1>0, <1>1, <1>3, <1>9, AnswerAside
<1>11. ListOK'
  BY <1>3 DEF PopupsInv, ListOK
<1> QED BY <1>9, <1>10, <1>11 DEF PopupsInv

LEMMA AnswerCreateKeeps ==
    ASSUME PopupsInv, NEW r \in flight, NEW ok \in BOOLEAN, AnswerCreate(r, ok)
    PROVE  PopupsInv'
<1>0. /\ BodyOK /\ FeedOK /\ popups \in [KindSet -> PopupType] /\ RequestsOK /\ BoundOK /\ BusyOK /\ PopupsTypeOK
  BY DEF PopupsInv, BodyOK, PopupsTypeOK
<1>1. r.of = "naming" /\ flight' = flight \ {r} /\ UNCHANGED <<cooling, selected, feed, daemon, quitting>>
  BY DEF AnswerCreate
<1>2. /\ "naming" \in KindSet \ {"followups"} /\ "picker" \in KindSet \ {"followups"} /\ "followups" \in KindSet
      /\ OwnerOf(r) = "naming" /\ FlagOf(r.of) = {"worktree"} /\ Bound(r)
  BY <1>1, FlagOfIs, KindsAre DEF OwnerOf, Bound
<1>3. flags' = flags \ FlagOf(r.of)
  BY <1>2 DEF AnswerCreate
<1>4. popups["naming"].id = r.id /\ r.id # 0 /\ popups["naming"] \in PopupType /\ ~popups["naming"].busy
  BY <1>0, <1>2 DEF BoundOK, BusyOK
<1>5. IsOpen("naming")
  BY <1>4 DEF IsOpen
<1>6. ASSUME ok PROVE BodyOK' /\ popups'["followups"] = popups["followups"]
  <2>1. PICK n : n = NewID /\ n \in Nat \ {0} /\ \A q \in flight : q.id # n
    BY <1>0, NewIDIsNew
  <2>2. PICK p : p = [id |-> n, target |-> popups["naming"].target, mode |-> "menu", busy |-> FALSE]
    BY Zenon
  <2>3. p \in PopupType /\ p.id = n /\ ~p.busy
    BY <1>4, <2>1, <2>2 DEF PopupType, Modes
  <2>4. popups' = [popups EXCEPT !["naming"] = NoPopup, !["picker"] = p]
    BY <1>6, <2>1, <2>2 DEF AnswerCreate
  <2>5. \A l \in KindSet : l # "naming" => popups[l] = NoPopup
    BY <1>0, <1>2, <1>5, OthersClosed
  <2>6. OnlyOpen("picker", p)
    BY <1>0, <1>2, <2>4, <2>5 DEF OnlyOpen
  <2>7. BodyOK'
    BY <1>0, <1>1, <1>2, <1>3, <1>4, <2>1, <2>3, <2>6, ReleaseStep
  <2>8. popups'["followups"] = popups["followups"]
    BY <1>0, <1>2, <2>4
  <2> QED BY <2>7, <2>8
<1>7. ASSUME ~ok PROVE BodyOK' /\ popups'["followups"] = popups["followups"]
  <2>1. popups' = popups
    BY <1>7 DEF AnswerCreate
  <2>2. popups' = [popups EXCEPT !["naming"] = popups["naming"]]
    BY <1>0, <2>1
  <2>3. OnlyOpen("naming", popups["naming"])
    BY <1>0, <1>2, <1>5, <2>2, AnsweredOnly
  <2>4. BodyOK'
    BY <1>0, <1>1, <1>2, <1>3, <1>4, <2>3, ReleaseStep
  <2> QED BY <2>1, <2>4
<1>8. BodyOK' /\ popups'["followups"] = popups["followups"]
  BY <1>6, <1>7
<1>9. FeedOK'
  BY <1>0, <1>1, <1>8, AnswerAside
<1>10. ListOK'
  BY <1>1, ListKept DEF PopupsInv
<1> QED BY <1>8, <1>9, <1>10 DEF PopupsInv

\* A request of the picker: the picker is open, and waits by the flag.
LEMMA OfPicker ==
    ASSUME BodyOK, NEW r \in flight, r.action \in {"selection", "started"}
    PROVE  /\ r.of = "picker" /\ OwnerOf(r) = "picker" /\ FlagOf(r.of) = {"worktree"} /\ "picker" \in KindSet \ {"followups"}
           /\ popups["picker"].id = r.id /\ r.id # 0 /\ ~popups["picker"].busy /\ IsOpen("picker") /\ "worktree" \in flags
<1>1. r.of = "picker"
  BY DEF BodyOK, RequestsOK
<1>2. "picker" \in KindSet \ {"followups"} /\ OwnerOf(r) = "picker" /\ FlagOf(r.of) = {"worktree"} /\ Bound(r)
  BY <1>1, FlagOfIs, KindsAre DEF OwnerOf, Bound
<1>3. popups["picker"].id = r.id /\ r.id # 0 /\ ~popups["picker"].busy /\ ~Idles("picker")
  BY <1>2 DEF BodyOK, BoundOK, BusyOK
<1> QED BY <1>1, <1>2, <1>3 DEF IsOpen, Idles

LEMMA StartWorktreeKeeps ==
    ASSUME PopupsInv, NEW r \in flight, StartWorktree(r)
    PROVE  PopupsInv'
<1>0. BodyOK /\ FeedOK /\ RequestsOK /\ flight \subseteq RequestType
  BY DEF PopupsInv, BodyOK, PopupsTypeOK
<1>1. r.action = "selection"
  BY DEF StartWorktree
<1>2. r.of = "picker" /\ IsOpen("picker") /\ "worktree" \in flags
  BY <1>0, <1>1, OfPicker
<1>3. PICK q : q = [r EXCEPT !.action = "started"]
  BY Zenon
<1>4. flight' = (flight \ {r}) \union {q} /\ flags' = flags /\ UNCHANGED <<popups, cooling, selected, feed, daemon, quitting>>
  BY <1>2, <1>3 DEF StartWorktree
<1>5. r \in RequestType /\ "started" \in Actions
  BY <1>0 DEF Actions
<1>6. q \in RequestType /\ q.of = r.of /\ q.id = r.id /\ q.target = r.target /\ q.editor = r.editor /\ q.request = r.request
  BY <1>3, <1>5 DEF RequestType
<1>7. q.editor = q.request
  BY <1>0, <1>6 DEF RequestsOK
<1>8. BodyOK'
  BY <1>0, <1>2, <1>4, <1>6, <1>7, TurnedStep
<1>9. FeedOK'
  <2>1. \A s : s.of = "followups" => (s \in flight' <=> s \in flight)
    BY <1>2, <1>4, <1>6
  <2> QED BY <1>0, <1>4, <2>1, FeedKept
<1>10. ListOK'
  BY <1>4, ListKept DEF PopupsInv
<1> QED BY <1>8, <1>9, <1>10 DEF PopupsInv

LEMMA AnswerStartedKeeps ==
    ASSUME PopupsInv, NEW r \in flight, NEW ok \in BOOLEAN, AnswerStarted(r, ok)
    PROVE  PopupsInv'
<1>0. BodyOK /\ FeedOK /\ popups \in [KindSet -> PopupType]
  BY DEF PopupsInv, BodyOK, PopupsTypeOK
<1>1. r.action = "started"
  BY DEF AnswerStarted
<1>2. /\ r.of = "picker" /\ OwnerOf(r) = "picker" /\ FlagOf(r.of) = {"worktree"} /\ "picker" \in KindSet \ {"followups"}
      /\ popups["picker"].id = r.id /\ r.id # 0 /\ ~popups["picker"].busy /\ IsOpen("picker")
  BY <1>0, <1>1, OfPicker
<1>3. flight' = flight \ {r} /\ flags' = flags \ FlagOf(r.of) /\ UNCHANGED <<cooling, selected, feed, daemon, quitting>>
  BY <1>2 DEF AnswerStarted
<1>4. PICK p \in PopupType : p = (IF ok THEN NoPopup ELSE popups["picker"])
  BY <1>0, <1>2, NoPopupIs
<1>5. popups' = [popups EXCEPT !["picker"] = p]
  BY <1>0, <1>4 DEF AnswerStarted
<1>6. OnlyOpen("picker", p)
  BY <1>0, <1>2, <1>5, AnsweredOnly
<1>7. ~p.busy /\ (p.id # 0 \/ p = NoPopup) /\ (p = NoPopup \/ (p.id = popups["picker"].id /\ p.target = popups["picker"].target))
  BY <1>2, <1>4, NoPopupIs
<1>8. BodyOK'
  BY <1>0, <1>2, <1>3, <1>4, <1>6, <1>7, ReleaseStep
<1>9. popups'["followups"] = popups["followups"]
  BY <1>0, <1>5, KindsAre
<1>10. FeedOK'
  BY <1>0, <1>2, <1>3, <1>9, AnswerAside
<1>11. ListOK'
  BY <1>3, ListKept DEF PopupsInv
<1> QED BY <1>8, <1>10, <1>11 DEF PopupsInv

LEMMA AnswerFlagKeeps ==
    ASSUME PopupsInv, NEW r \in flight, NEW ok \in BOOLEAN, AnswerFlag(r, ok)
    PROVE  PopupsInv'
<1>0. BodyOK /\ FeedOK /\ popups \in [KindSet -> PopupType] /\ BoundOK /\ FocusOK
  BY DEF PopupsInv, BodyOK, PopupsTypeOK
<1>1. CASE r.of = "focus" /\ ok
  BY <1>1, GoneKeeps DEF AnswerFlag
<1>2. CASE ~(r.of = "focus" /\ ok)
  <2>1. /\ r.of \in {"stop", "pin", "focus", "git", "editor"} /\ flight' = flight \ {r} /\ flags' = flags \ FlagOf(r.of)
        /\ popups' = IF r.of = "focus" /\ IsOpen("worktrees") THEN [popups EXCEPT !["worktrees"].busy = FALSE] ELSE popups
        /\ UNCHANGED <<cooling, selected, feed, daemon, quitting>>
    BY <1>2 DEF AnswerFlag
  <2>2. "worktrees" \in KindSet \ {"followups"} /\ r.of \notin KindSet /\ "followups" \in KindSet
    BY <2>1, KindsAre
  <2>3. ASSUME r.of = "focus", r.id # 0 PROVE BodyOK' /\ popups'["followups"] = popups["followups"]
    <3>1. OwnerOf(r) = "worktrees" /\ Bound(r)
      BY <2>3 DEF OwnerOf, Bound
    <3>2. popups["worktrees"].id = r.id /\ popups["worktrees"] \in PopupType
      BY <1>0, <2>2, <3>1 DEF BoundOK
    <3>3. IsOpen("worktrees")
      BY <2>3, <3>2 DEF IsOpen
    <3>4. PICK p : p = [popups["worktrees"] EXCEPT !.busy = FALSE]
      BY Zenon
    <3>5. p \in PopupType /\ p.id = popups["worktrees"].id /\ p.target = popups["worktrees"].target /\ ~p.busy
      BY <3>2, <3>4 DEF PopupType
    <3>6. popups' = [popups EXCEPT !["worktrees"] = p]
      BY <1>0, <2>1, <2>3, <3>3, <3>4
    <3>7. OnlyOpen("worktrees", p)
      BY <1>0, <2>2, <3>3, <3>6, AnsweredOnly
    <3>8. BodyOK'
      BY <1>0, <2>1, <2>2, <2>3, <3>1, <3>2, <3>5, <3>7, ReleaseStep
    <3> QED BY <1>0, <2>2, <3>6, <3>8
  <2>4. ASSUME r.of # "focus" \/ r.id = 0 PROVE BodyOK' /\ popups'["followups"] = popups["followups"]
    <3>1. popups' = popups
      BY <1>0, <2>1, <2>4 DEF FocusOK
    <3>2. SamePopups
      BY <1>0, <3>1 DEF SamePopups
    <3>3. ~Bound(r)
      BY <2>2, <2>4 DEF Bound
    <3>4. OwnerOf(r) \in KindSet \ {"followups"} => popups[OwnerOf(r)].id # r.id \/ ~popups[OwnerOf(r)].busy
      <4>1. CASE r.of = "focus"
        <5>1. ~IsOpen("worktrees")
          BY <1>0, <2>4, <4>1 DEF FocusOK
        <5>2. popups["worktrees"] = NoPopup
          BY <1>0, <2>2, <5>1 DEF BodyOK, OneOpen
        <5> QED BY <4>1, <5>2, NoPopupIs DEF OwnerOf
      <4>2. CASE r.of # "focus"
        BY <4>2, <2>2 DEF OwnerOf
      <4> QED BY <4>1, <4>2
    <3> QED BY <1>0, <2>1, <3>1, <3>2, <3>3, <3>4, DropStep
  <2>5. BodyOK' /\ popups'["followups"] = popups["followups"]
    BY <2>3, <2>4
  <2>6. FeedOK'
    BY <1>0, <2>1, <2>5, AnswerAside
  <2>7. ListOK'
    BY <2>1, ListKept DEF PopupsInv
  <2> QED BY <2>5, <2>6, <2>7 DEF PopupsInv
<1> QED BY <1>1, <1>2

-----------------------------------------------------------------------------
(* Follow-ups.                                                             *)

LEMMA InOrder ==
    /\ \A a \in Nat, b \in Nat : a < b => a # b /\ a <= b
    /\ \A a \in Nat : a <= a /\ 0 <= a /\ a + 1 \in Nat /\ a < a + 1
    /\ \A a \in Nat, b \in Nat : a <= b => a < b + 1 /\ a <= b + 1
    /\ \A a \in Nat, b \in Nat, c \in Nat : a <= b /\ b <= c => a <= c
OBVIOUS

\* The list asks once more: the new request is the one that it expects.
LEMMA FeedAsk ==
    ASSUME FeedOK, flight \subseteq RequestType, NEW p \in PopupType, popups'["followups"] = p, p.id # 0,
           NEW q \in RequestType, flight' = flight \union {q},
           q.of = "followups", q.id = p.id, q.version = 0, q.reply = "", daemon' = daemon,
           feed' \in FeedType, feed'.sequence = q.sequence, feed'.editor = feed'.request, feed'.shown <= daemon.version,
           \A r \in flight : r.of = "followups" /\ r.id = p.id => r.sequence < q.sequence /\ r.version <= daemon.version,
           p.id = popups["followups"].id \/ \A r \in flight : r.id # p.id,
           p.busy => q.action # "get", feed'.loading => q.action = "get", q.action # "get" => p.busy,
           \A r \in flight : r.of = "followups" /\ r.id = p.id => r.action = "get"
    PROVE  FeedOK'
<1>0. FeedTypeOK /\ daemon.version \in Nat /\ ItemsOK
  BY DEF FeedOK, FeedTypeOK, QueueType
<1>1. \A r : Ours(r)' <=> r.of = "followups" /\ r.id = p.id
  BY DEF Ours
<1>2. \A r : Expected(r)' <=> p.id = r.id /\ q.sequence = r.sequence
  BY DEF Expected
<1>3. Ours(q)' /\ Expected(q)'
  BY <1>1, <1>2
<1>4. ASSUME NEW r \in flight', Ours(r)', r # q
      PROVE  r \in flight /\ r.sequence # q.sequence /\ r.sequence <= q.sequence /\ r.version <= daemon.version
  <2>1. r \in flight /\ r.sequence < q.sequence /\ r.version <= daemon.version
    BY <1>1, <1>4
  <2>2. r.sequence \in Nat /\ q.sequence \in Nat
    BY <2>1 DEF RequestType
  <2> QED BY <2>1, <2>2, InOrder, Zenon
<1>5. q.sequence <= q.sequence /\ q.version <= daemon.version
  <2>1. q.sequence \in Nat
    BY DEF RequestType
  <2>2. q.sequence <= q.sequence
    BY <2>1, InOrder, Zenon
  <2>3. q.version <= daemon.version
    <3>1. 0 <= daemon.version
      BY <1>0, InOrder, Zenon
    <3> QED BY <3>1, Zenon
  <2> QED BY <2>2, <2>3
<1>6. FeedTypeOK'
  BY <1>0 DEF FeedTypeOK
<1>7. IsOpen("followups")'
  BY DEF IsOpen
<1>8. \A r \in flight' : Ours(r)' => r.sequence <= q.sequence /\ r.version <= daemon.version
  BY <1>4, <1>5
<1>9. \A r, s \in flight' : Ours(r)' /\ Ours(s)' /\ r.sequence = s.sequence => r = s
  <2> SUFFICES ASSUME NEW r \in flight', NEW s \in flight', Ours(r)', Ours(s)', r.sequence = s.sequence PROVE r = s
    OBVIOUS
  <2>1. r # q => r \in flight /\ r.sequence # q.sequence
    BY <1>4
  <2>2. s # q => s \in flight /\ s.sequence # q.sequence
    BY <1>4
  <2>3. CASE r = q
    BY <2>2, <2>3
  <2>4. CASE s = q
    BY <2>1, <2>4
  <2>5. CASE r # q /\ s # q
    <3>1. r \in flight /\ s \in flight
      BY <2>1, <2>2, <2>5
    <3>2. Ours(r) /\ Ours(s)
      BY <1>1, <3>1 DEF Ours
    <3> QED BY <3>1, <3>2 DEF FeedOK
  <2> QED BY <2>3, <2>4, <2>5
<1>10. \A r \in flight' : Ours(r)' /\ Expected(r)' => r = q
  BY <1>2, <1>4
<1>11. \A r \in flight' : Ours(r)' /\ Expected(r)' /\ r.reply = "ok" => feed'.shown <= r.version
  BY <1>10
<1>12. p.busy => \E r \in flight' : Ours(r)' /\ Expected(r)' /\ r.action # "get"
  BY <1>3
<1>13. feed'.loading => \E r \in flight' : Ours(r)' /\ Expected(r)' /\ r.action = "get"
  BY <1>3
<1>14. ItemsOK'
  BY <1>0 DEF ItemsOK
<1>15. ChangesOK'
  <2>1. \A r \in flight' : Ours(r)' /\ r.action # "get" => r = q
    BY <1>1
  <2> QED BY <1>3, <2>1 DEF ChangesOK
<1> QED BY <1>0, <1>6, <1>7, <1>8, <1>9, <1>11, <1>12, <1>13, <1>14, <1>15 DEF FeedOK

\* What is being edited does not matter to the requests.
OnlyEdits ==
    /\ feed' \in FeedType /\ feed'.editor = feed'.request
    /\ feed'.sequence = feed.sequence /\ feed'.shown = feed.shown /\ feed'.loading = feed.loading

LEMMA FeedEdited ==
    ASSUME FeedOK, NEW p \in PopupType, popups'["followups"] = p, p.id = popups["followups"].id, p.id # 0,
           p.busy = popups["followups"].busy, flight' = flight, daemon' = daemon, OnlyEdits
    PROVE  FeedOK'
<1>0. FeedTypeOK /\ ItemsOK /\ ChangesOK
  BY DEF FeedOK
<1>1. /\ feed' \in FeedType /\ feed'.editor = feed'.request /\ feed'.sequence = feed.sequence
      /\ feed'.shown = feed.shown /\ feed'.loading = feed.loading
  BY DEF OnlyEdits
<1>2. \A r : (Ours(r)' <=> Ours(r)) /\ (Expected(r)' <=> Expected(r)) /\ (Queued(r)' <=> Queued(r))
  BY <1>1 DEF Ours, Expected, Queued
<1>3. IsOpen("followups")' /\ FeedTypeOK'
  BY <1>0, <1>1 DEF IsOpen, FeedTypeOK
<1>4. ItemsOK' /\ ChangesOK'
  BY <1>0, <1>2 DEF ItemsOK, ChangesOK
<1> QED BY <1>1, <1>2, <1>3, <1>4 DEF FeedOK

LEMMA OpenFollowupsKeeps ==
    ASSUME PopupsInv, OpenFollowups
    PROVE  PopupsInv'
<1>0. BodyOK /\ FeedOK /\ flight \subseteq RequestType /\ popups \in [KindSet -> PopupType] /\ daemon \in QueueType
  BY DEF PopupsInv, BodyOK, PopupsTypeOK, FeedOK, FeedTypeOK
<1>1. PICK p, z, q, k : /\ p = Opened("list", FALSE) /\ z = Request("followups", "get", p) /\ q = [z EXCEPT !.sequence = 1]
                        /\ k = "followups"
  BY Zenon
<1>2. IsNew(p, FALSE)
  BY <1>1, OpenedIs DEF Modes
<1>3. /\ MainScreen /\ Update(k, p, {q}) /\ feed' = [NoFeed EXCEPT !.sequence = 1, !.loading = TRUE]
      /\ UNCHANGED <<cooling, selected, daemon, quitting>>
  BY <1>1 DEF OpenFollowups
<1>4. k \in KindSet /\ k \in Ofs /\ "get" \in Actions
  BY <1>1, KindsAre DEF Ofs, Actions
<1>5. p \in PopupType /\ p.id # 0 /\ (\A r \in flight : r.id # p.id) /\ p.busy = FALSE
  BY <1>2 DEF IsNew
<1>6. Asks(z, k, "get", p)
  BY <1>1, <1>4, <1>5, RequestIs
<1>7. /\ q \in RequestType /\ q.of = k /\ q.id = p.id /\ q.target = p.target /\ q.editor = q.request /\ q.action = "get"
      /\ q.sequence = 1 /\ q.version = 0 /\ q.reply = ""
  BY <1>1, <1>6 DEF Asks, RequestType
<1>8. Few({q}) /\ {q} \in SUBSET RequestType
  BY <1>7 DEF Few
<1>9. Updated(k, p, {q}) /\ Leads(k, p, {q})
  BY <1>1, <1>3, <1>5, <1>8, UpdateIs DEF Leads
<1>10. \A s \in {q} : MayAsk(k, p, s)
  BY <1>1, <1>7 DEF MayAsk
<1>11. BodyOK'
  BY <1>1, <1>4, <1>5, <1>8, <1>9, <1>10, UpdateStep
<1>12. popups'["followups"] = p /\ flight' = flight \union {q}
  BY <1>0, <1>1, <1>4, <1>9 DEF Updated
<1>13. /\ feed' \in FeedType /\ feed'.sequence = 1 /\ feed'.editor = 0 /\ feed'.request = 0 /\ feed'.shown = 0
  BY <1>3 DEF NoFeed, FeedType
<1>14. daemon.version \in Nat
  BY <1>0 DEF QueueType
<1>15. feed'.shown <= daemon.version
  BY <1>13, <1>14
<1>16. FeedOK'
  <2>1. q.of = "followups" /\ feed'.sequence = q.sequence /\ feed'.editor = feed'.request /\ daemon' = daemon
    BY <1>1, <1>3, <1>7, <1>13
  <2>2. \A r \in flight : r.of = "followups" /\ r.id = p.id => /\ r.sequence < q.sequence /\ r.version <= daemon.version
                                                               /\ r.action = "get"
    BY <1>5
  <2> QED BY <1>0, <1>5, <1>7, <1>12, <1>13, <1>15, <2>1, <2>2, FeedAsk
<1>17. ListOK'
  BY <1>3, ListKept DEF PopupsInv
<1> QED BY <1>11, <1>16, <1>17 DEF PopupsInv

\* The open list asks.
LEMMA ListAsks ==
    ASSUME PopupsInv, IsOpen("followups"), NEW p \in PopupType, p.id = popups["followups"].id,
           p.target = popups["followups"].target, NEW q \in RequestType,
           q.of = "followups", q.id = p.id, q.target = p.target, q.editor = q.request, q.version = 0, q.reply = "",
           q.action \notin {"selection", "started"}, q.sequence = feed.sequence + 1,
           Update("followups", p, {q}),
           feed' \in FeedType, feed'.sequence = q.sequence, feed'.editor = feed'.request, feed'.shown = feed.shown,
           ~popups["followups"].busy, p.busy <=> q.action # "get", feed'.loading => q.action = "get",
           UNCHANGED <<cooling, selected, daemon, quitting>>
    PROVE  PopupsInv'
<1>0. BodyOK /\ FeedOK /\ flight \subseteq RequestType /\ popups \in [KindSet -> PopupType] /\ daemon \in QueueType /\ feed \in FeedType
  BY DEF PopupsInv, BodyOK, PopupsTypeOK, FeedOK, FeedTypeOK
<1>1. "followups" \in KindSet /\ p.id # 0
  BY KindsAre DEF IsOpen
<1>2. Few({q}) /\ {q} \in SUBSET RequestType
  BY DEF Few
<1>3. Updated("followups", p, {q}) /\ Leads("followups", p, {q})
  BY <1>2, UpdateIs DEF Leads, Ready
<1>4. \A s \in {q} : MayAsk("followups", p, s)
  BY DEF MayAsk
<1>5. BodyOK'
  BY <1>1, <1>2, <1>3, <1>4, UpdateStep
<1>6. popups'["followups"] = p /\ flight' = flight \union {q} /\ daemon' = daemon
  BY <1>0, <1>1, <1>3 DEF Updated
<1>7. feed'.shown <= daemon.version
  BY <1>0 DEF FeedOK
<1>8. \A r \in flight : r.of = "followups" /\ r.id = p.id => r.sequence < q.sequence /\ r.version <= daemon.version
  <2> SUFFICES ASSUME NEW r \in flight, r.of = "followups", r.id = p.id
               PROVE  r.sequence < q.sequence /\ r.version <= daemon.version
    OBVIOUS
  <2>1. Ours(r)
    BY DEF Ours
  <2>2. r.sequence <= feed.sequence /\ r.version <= daemon.version
    BY <1>0, <2>1 DEF FeedOK
  <2>3. r.sequence \in Nat /\ feed.sequence \in Nat
    BY <1>0 DEF RequestType, FeedType
  <2>4. r.sequence < feed.sequence + 1
    BY <2>2, <2>3, InOrder, Zenon
  <2> QED BY <2>2, <2>4, Zenon
<1>9. FeedOK'
  <2>1. \A r \in flight : r.of = "followups" /\ r.id = p.id => r.action = "get"
    BY <1>0 DEF FeedOK, ChangesOK, Ours
  <2> QED BY <1>0, <1>1, <1>6, <1>7, <1>8, <2>1, FeedAsk
<1>10. ListOK'
  BY ListKept DEF PopupsInv
<1> QED BY <1>5, <1>9, <1>10 DEF PopupsInv

LEMMA RefreshFollowupsKeeps ==
    ASSUME PopupsInv, RefreshFollowups
    PROVE  PopupsInv'
<1>0. BodyOK /\ FeedOK /\ popups \in [KindSet -> PopupType] /\ feed \in FeedType /\ feed.editor = feed.request
  BY DEF PopupsInv, BodyOK, PopupsTypeOK, FeedOK, FeedTypeOK
<1>1. PICK p, z, q, n : /\ p = popups["followups"] /\ z = Request("followups", "get", p) /\ n = feed.sequence + 1
                        /\ q = [z EXCEPT !.sequence = n]
  BY Zenon
<1>2. /\ IsOpen("followups") /\ ~p.busy /\ Update("followups", p, {q})
      /\ feed' = [feed EXCEPT !.loading = TRUE, !.sequence = n]
      /\ UNCHANGED <<cooling, selected, daemon, quitting>>
  BY <1>1 DEF RefreshFollowups
<1>3. "followups" \in KindSet /\ "followups" \in Ofs /\ "get" \in Actions
  BY KindsAre DEF Ofs, Actions
<1>4. p \in PopupType /\ n \in Nat
  <2>1. feed.sequence \in Nat
    BY <1>0 DEF FeedType
  <2>2. feed.sequence + 1 \in Nat
    BY <2>1, InOrder, Zenon
  <2> QED BY <1>0, <1>1, <1>3, <2>2
<1>5. Asks(z, "followups", "get", p)
  BY <1>1, <1>3, <1>4, RequestIs
<1>6. /\ q \in RequestType /\ q.of = "followups" /\ q.id = p.id /\ q.target = p.target /\ q.editor = q.request /\ q.action = "get"
      /\ q.sequence = n /\ q.version = 0 /\ q.reply = ""
  BY <1>1, <1>4, <1>5 DEF Asks, RequestType
<1>7. /\ feed' \in FeedType /\ feed'.sequence = n /\ feed'.editor = feed.editor /\ feed'.request = feed.request
      /\ feed'.shown = feed.shown
  BY <1>0, <1>2, <1>4 DEF FeedType
<1>8. /\ p.id = popups["followups"].id /\ p.target = popups["followups"].target /\ q.sequence = feed.sequence + 1
      /\ feed'.sequence = q.sequence /\ feed'.editor = feed'.request /\ q.action \notin {"selection", "started"}
      /\ ~popups["followups"].busy /\ (p.busy <=> q.action # "get")
  BY <1>0, <1>1, <1>2, <1>6, <1>7
<1> QED BY <1>2, <1>4, <1>6, <1>7, <1>8, ListAsks

LEMMA RunFollowupKeeps ==
    ASSUME PopupsInv, NEW action \in {"add", "edit", "change"}, RunFollowup(action)
    PROVE  PopupsInv'
<1>0. BodyOK /\ FeedOK /\ popups \in [KindSet -> PopupType] /\ feed \in FeedType /\ feed.editor = feed.request
  BY DEF PopupsInv, BodyOK, PopupsTypeOK, FeedOK, FeedTypeOK
<1>a. PICK o, n : o = popups["followups"] /\ n = feed.sequence + 1
  BY Zenon
<1>b. PICK p, z : p = [o EXCEPT !.busy = TRUE] /\ z = Request("followups", action, o)
  BY Zenon
<1>c. PICK q : q = [z EXCEPT !.sequence = n, !.text = feed.text, !.request = feed.request, !.editor = feed.editor]
  BY Zenon
<1>1. /\ o = popups["followups"] /\ p = [o EXCEPT !.busy = TRUE] /\ z = Request("followups", action, o)
      /\ n = feed.sequence + 1
      /\ q = [z EXCEPT !.sequence = n, !.text = feed.text, !.request = feed.request, !.editor = feed.editor]
  BY <1>a, <1>b, <1>c, Zenon
<1>2. /\ IsOpen("followups") /\ ~o.busy /\ Update("followups", p, {q})
      /\ feed' = [feed EXCEPT !.loading = FALSE, !.sequence = n]
      /\ UNCHANGED <<cooling, selected, daemon, quitting>>
  BY <1>1 DEF RunFollowup, Runs, Takes, Idles, Mutation
<1>3. "followups" \in KindSet /\ "followups" \in Ofs /\ action \in Actions
  BY KindsAre DEF Ofs, Actions
<1>4. o \in PopupType /\ n \in Nat /\ feed.text \in Nat /\ feed.request \in Nat
  <2>1. feed.sequence \in Nat /\ feed.text \in Nat /\ feed.request \in Nat
    BY <1>0 DEF FeedType
  <2>2. feed.sequence + 1 \in Nat
    BY <2>1, InOrder, Zenon
  <2> QED BY <1>0, <1>1, <1>3, <2>1, <2>2
<1>5. p \in PopupType /\ p.id = o.id /\ p.target = o.target /\ p.busy
  BY <1>1, <1>4 DEF PopupType
<1>6. Asks(z, "followups", action, o)
  BY <1>1, <1>3, <1>4, RequestIs
<1>7. PICK t \in Nat, m \in Nat : t = feed.text /\ m = feed.request /\ m = feed.editor
  BY <1>0, <1>4
<1>8. q = [z EXCEPT !.sequence = n, !.text = t, !.request = m, !.editor = m]
  BY <1>1, <1>7
<1>9. /\ q \in RequestType /\ q.of = "followups" /\ q.id = o.id /\ q.target = o.target /\ q.editor = m /\ q.request = m
      /\ q.action = action /\ q.sequence = n /\ q.version = 0 /\ q.reply = ""
  <2>1. t \in Nat /\ m \in Nat
    BY <1>7
  <2> QED BY <1>4, <1>6, <1>8, <2>1 DEF Asks, RequestType
<1>10. /\ feed' \in FeedType /\ feed'.sequence = n /\ feed'.editor = feed.editor /\ feed'.request = feed.request
       /\ feed'.shown = feed.shown /\ ~feed'.loading
  BY <1>0, <1>2, <1>4 DEF FeedType
<1>11. /\ p.id = popups["followups"].id /\ p.target = popups["followups"].target /\ q.sequence = feed.sequence + 1
       /\ feed'.sequence = q.sequence /\ feed'.editor = feed'.request /\ q.action \notin {"selection", "started", "get"}
       /\ ~popups["followups"].busy /\ q.id = p.id /\ q.target = p.target /\ q.editor = q.request
  BY <1>0, <1>1, <1>2, <1>5, <1>9, <1>10
<1> QED BY <1>2, <1>5, <1>9, <1>10, <1>11, ListAsks

\* The list itself changes.
LEMMA ListEdits ==
    ASSUME PopupsInv, IsOpen("followups"), NEW p \in PopupType, p.id = popups["followups"].id,
           p.target = popups["followups"].target, p.busy = popups["followups"].busy,
           Updated("followups", p, {}), OnlyEdits,
           UNCHANGED <<cooling, selected, daemon, quitting>>
    PROVE  PopupsInv'
<1>0. BodyOK /\ FeedOK /\ popups \in [KindSet -> PopupType]
  BY DEF PopupsInv, BodyOK, PopupsTypeOK
<1>1. "followups" \in KindSet /\ p.id # 0
  BY KindsAre DEF IsOpen
<1>2. Few({}) /\ {} \in SUBSET RequestType /\ Leads("followups", p, {})
  BY DEF Few, Leads, Ready
<1>3. BodyOK'
  BY <1>1, <1>2, UpdateStep
<1>4. popups'["followups"] = p /\ flight' = flight /\ daemon' = daemon
  BY <1>0, <1>1 DEF Updated
<1>5. FeedOK'
  BY <1>0, <1>1, <1>4, FeedEdited
<1>6. ListOK'
  BY ListKept DEF PopupsInv
<1> QED BY <1>3, <1>5, <1>6 DEF PopupsInv

LEMMA EditFollowupKeeps ==
    ASSUME PopupsInv, NEW mode \in {"add", "edit"}, EditFollowup(mode)
    PROVE  PopupsInv'
<1>0. /\ BodyOK /\ FeedOK /\ popups \in [KindSet -> PopupType] /\ "followups" \in KindSet /\ mode \in Modes
      /\ PopupsTypeOK /\ FeedTypeOK /\ feed \in FeedType
  BY KindsAre DEF PopupsInv, BodyOK, PopupsTypeOK, Modes, FeedOK, FeedTypeOK
<1>1. PICK p, new : p = [popups["followups"] EXCEPT !.mode = mode] /\ new = IF mode = "add" THEN NewRequest ELSE 0
  BY Zenon
<1>2. /\ IsOpen("followups") /\ Update("followups", p, {}) /\ feed' = [feed EXCEPT !.text = 0, !.request = new, !.editor = new]
      /\ UNCHANGED <<cooling, selected, daemon, quitting>>
  BY <1>1 DEF EditFollowup, Takes
<1>3. new \in Nat
  BY <1>0, <1>1, NewRequestIsNumber
<1>4. popups["followups"] \in PopupType
  BY <1>0
<1>5. /\ p \in PopupType /\ p.id = popups["followups"].id /\ p.target = popups["followups"].target
      /\ p.busy = popups["followups"].busy
  BY <1>0, <1>1, <1>4 DEF PopupType
<1>6. Updated("followups", p, {})
  BY <1>2, UpdateIs DEF Few
<1>7. OnlyEdits
  BY <1>0, <1>2, <1>3 DEF OnlyEdits, FeedType
<1> QED BY <1>2, <1>5, <1>6, <1>7, ListEdits

LEMMA TypeTextKeeps ==
    ASSUME PopupsInv, NEW text \in 1 .. WordN, TypeText(text)
    PROVE  PopupsInv'
<1>0. /\ popups \in [KindSet -> PopupType] /\ "followups" \in KindSet /\ feed \in FeedType /\ feed.editor = feed.request
  BY KindsAre DEF PopupsInv, BodyOK, PopupsTypeOK, FeedOK, FeedTypeOK
<1>1. /\ IsOpen("followups") /\ feed' = [feed EXCEPT !.text = text]
      /\ UNCHANGED <<popups, flags, cooling, selected, flight, daemon, quitting>>
  BY DEF TypeText, Takes
<1>2. PICK p \in PopupType : p = popups["followups"]
  BY <1>0
<1>3. [popups EXCEPT !["followups"] = p] = popups
  BY <1>0, <1>2
<1>4. Updated("followups", p, {})
  BY <1>1, <1>3 DEF Updated
<1>5. text \in Nat
  BY PopupsAssumption
<1>6. OnlyEdits
  BY <1>0, <1>1, <1>5 DEF OnlyEdits, FeedType
<1> QED BY <1>1, <1>2, <1>4, <1>6, ListEdits

LEMMA EscapeFollowupsKeeps ==
    ASSUME PopupsInv, Escape("followups")
    PROVE  PopupsInv'
<1>0. BodyOK /\ FeedOK /\ popups \in [KindSet -> PopupType] /\ "followups" \in KindSet /\ "list" \in Modes
  BY KindsAre DEF PopupsInv, BodyOK, PopupsTypeOK, Modes
<1>1. IsOpen("followups") /\ UNCHANGED <<flags, cooling, selected, quitting>> /\ popups["followups"] \in PopupType
  BY <1>0 DEF Escape, Takes
<1>2. \/ /\ popups' = [popups EXCEPT !["followups"].mode = "list"] /\ feed' = [feed EXCEPT !.text = 0, !.request = 0, !.editor = 0]
         /\ UNCHANGED <<flight, daemon>>
      \/ /\ popups' = [popups EXCEPT !["followups"] = NoPopup] /\ feed' = NoFeed /\ daemon' = NoQueue
         /\ flight' = {Outdated(r, "followups") : r \in flight}
  BY DEF Escape
<1>3. CASE /\ popups' = [popups EXCEPT !["followups"].mode = "list"] /\ feed' = [feed EXCEPT !.text = 0, !.request = 0, !.editor = 0]
           /\ UNCHANGED <<flight, daemon>>
  <2>1. PICK p : p = [popups["followups"] EXCEPT !.mode = "list"]
    BY Zenon
  <2>2. /\ p \in PopupType /\ p.id = popups["followups"].id /\ p.target = popups["followups"].target
        /\ p.busy = popups["followups"].busy
    BY <1>0, <1>1, <2>1 DEF PopupType
  <2>3. popups' = [popups EXCEPT !["followups"] = p]
    BY <1>0, <1>3, <2>1
  <2>4. Updated("followups", p, {})
    BY <1>1, <1>3, <2>3 DEF Updated
  <2>5. OnlyEdits
    BY <1>3 DEF PopupsInv, FeedOK, FeedTypeOK, OnlyEdits, FeedType
  <2> QED BY <1>1, <1>3, <2>2, <2>4, <2>5, ListEdits
<1>4. CASE /\ popups' = [popups EXCEPT !["followups"] = NoPopup] /\ feed' = NoFeed /\ daemon' = NoQueue
           /\ flight' = {Outdated(r, "followups") : r \in flight}
  <2>1. OnlyOpen("followups", NoPopup)
    BY <1>0, <1>1, <1>4, AnsweredOnly
  <2>2. BodyOK'
    BY <1>0, <1>1, <1>4, <2>1, OutdateStep
  <2>3. popups'["followups"] = NoPopup /\ popups'["followups"].id = 0 /\ ~popups'["followups"].busy
    BY <1>0, <1>4, NoPopupIs
  <2>4. \A r \in flight' : ~Ours(r)'
    BY <1>0, <2>2, <2>3 DEF BodyOK, RequestsOK, Ours
  <2>5. FeedTypeOK'
    BY <1>4, NoPopupIs DEF FeedTypeOK
  <2>6. feed' = NoFeed /\ feed'.editor = feed'.request /\ feed'.shown <= daemon'.version /\ DOMAIN daemon'.added = {} /\ ~feed'.loading
    <3>1. NoFeed.editor = NoFeed.request /\ NoFeed.shown <= NoQueue.version /\ DOMAIN NoQueue.added = {} /\ ~NoFeed.loading
      BY DEF NoFeed, NoQueue
    <3> QED BY <1>4, <3>1
  <2>7. FeedOK'
    BY <2>3, <2>4, <2>5, <2>6 DEF FeedOK, ItemsOK, ChangesOK
  <2>8. ListOK'
    BY <1>1, ListKept DEF PopupsInv
  <2> QED BY <2>2, <2>7, <2>8 DEF PopupsInv
<1> QED BY <1>2, <1>3, <1>4

LEMMA QueueMovesKeeps ==
    ASSUME PopupsInv, QueueMoves
    PROVE  PopupsInv'
<1>0. BodyOK /\ FeedOK /\ daemon \in QueueType /\ flight \subseteq RequestType /\ feed \in FeedType
  BY DEF PopupsInv, BodyOK, PopupsTypeOK, FeedOK, FeedTypeOK
<1>1. UNCHANGED <<popups, flags, cooling, selected, feed, flight, quitting>> /\ daemon' = [daemon EXCEPT !.version = @ + 1]
  BY DEF QueueMoves
<1>2. BodyOK'
  BY <1>0, <1>1, BodyKept
<1>3. daemon.version \in Nat /\ daemon.version + 1 \in Nat
  <2>1. daemon.version \in Nat
    BY <1>0 DEF QueueType
  <2> QED BY <2>1, InOrder, Zenon
<1>4. daemon' \in QueueType /\ daemon'.version = daemon.version + 1 /\ daemon'.added = daemon.added
  BY <1>0, <1>1, <1>3 DEF QueueType
<1>5. ASSUME NEW n \in Nat, n <= daemon.version PROVE n <= daemon'.version
  <2>1. n <= daemon.version + 1
    BY <1>3, <1>5, InOrder, Zenon
  <2> QED BY <1>4, <2>1
<1>6. \A r : (Ours(r)' <=> Ours(r)) /\ (Expected(r)' <=> Expected(r))
  BY <1>1 DEF Ours, Expected
<1>7. feed.shown \in Nat /\ \A r \in flight : r.version \in Nat
  BY <1>0 DEF FeedType, RequestType
<1>8. feed'.shown <= daemon'.version
  BY <1>0, <1>1, <1>5, <1>7 DEF FeedOK
<1>9. \A r \in flight' : Ours(r)' => r.sequence <= feed'.sequence /\ r.version <= daemon'.version
  BY <1>0, <1>1, <1>5, <1>6, <1>7 DEF FeedOK
<1>10. IsOpen("followups")' <=> IsOpen("followups")
  BY <1>1 DEF IsOpen
<1>11. FeedTypeOK'
  BY <1>0, <1>1, <1>4 DEF FeedTypeOK
<1>12. FeedOK'
  <2>1. \A r : Queued(r)' <=> Queued(r)
    BY <1>4 DEF Queued
  <2>2. ItemsOK' /\ ChangesOK'
    BY <1>0, <1>1, <1>4, <1>6, <2>1 DEF FeedOK, ItemsOK, ChangesOK
  <2> QED BY <1>0, <1>1, <1>4, <1>6, <1>8, <1>9, <1>10, <1>11, <2>2 DEF FeedOK
<1>13. ListOK'
  BY <1>1, ListKept DEF PopupsInv
<1> QED BY <1>2, <1>12, <1>13 DEF PopupsInv

\* The items after an add or an edit.
LEMMA ItemsAfterIs ==
    ASSUME FeedOK, NEW r \in RequestType, r.editor = r.request, NEW i \in {0} \union DOMAIN daemon.added,
           r.action = "add" => Repeated(r) = {}, NEW new, new = ItemsAfter(r, i)
    PROVE  /\ new \in Seq(ItemType)
           /\ \A j \in DOMAIN new : new[j].editor = new[j].request
           /\ \A j, k \in DOMAIN new : new[j].request = new[k].request => j = k
           /\ r.action = "add" => \E j \in DOMAIN new : new[j].editor = r.editor /\ new[j].text = r.text
<1>1. PICK s : s = daemon.added
  BY Zenon
<1>2. s \in Seq(ItemType) /\ r.text \in Nat /\ r.request \in Nat
  BY <1>1 DEF FeedOK, FeedTypeOK, QueueType, RequestType
<1>3. /\ \A j \in DOMAIN s : s[j].editor = s[j].request
      /\ \A j, k \in DOMAIN s : s[j].request = s[k].request => j = k
  BY <1>1 DEF FeedOK, ItemsOK
<1>4. CASE r.action = "add"
  <2>1. PICK e : e = [text |-> r.text, request |-> r.request, editor |-> r.editor]
    BY Zenon
  <2>2. e \in ItemType /\ e.text = r.text /\ e.request = r.request /\ e.editor = r.editor
    BY <1>2, <2>1 DEF ItemType
  <2>3. new = Append(s, e)
    BY <1>1, <1>4, <2>1 DEF ItemsAfter
  <2>4. PICK n \in Nat : n = Len(s) /\ DOMAIN s = 1 .. n
    BY <1>2
  <2>5. /\ new \in Seq(ItemType) /\ DOMAIN new = 1 .. n + 1 /\ new[n + 1] = e
        /\ \A j \in 1 .. n : new[j] = s[j]
    BY <1>2, <2>2, <2>3, <2>4
  <2>6. \A j \in DOMAIN s : s[j].request # e.request
    BY <1>1, <1>4, <2>2 DEF Repeated
  <2>7. \A j \in 1 .. n + 1 : j \in 1 .. n \/ j = n + 1
    OBVIOUS
  <2>8. \A j \in DOMAIN new : new[j].editor = new[j].request
    BY <1>3, <2>2, <2>4, <2>5, <2>7
  <2>9. \A j, k \in DOMAIN new : new[j].request = new[k].request => j = k
    BY <1>3, <2>4, <2>5, <2>6, <2>7
  <2>10. n + 1 \in DOMAIN new
    BY <2>5
  <2> QED BY <2>2, <2>5, <2>8, <2>9, <2>10
<1>5. CASE r.action # "add"
  <2>1. new = s \/ (i \in DOMAIN s /\ new = [s EXCEPT ![i] = [s[i] EXCEPT !.text = r.text]])
    BY <1>1, <1>5 DEF ItemsAfter
  <2>2. CASE new = s
    BY <1>2, <1>3, <1>5, <2>2
  <2>3. CASE i \in DOMAIN s /\ new = [s EXCEPT ![i] = [s[i] EXCEPT !.text = r.text]]
    <3>1. PICK e : e = [s[i] EXCEPT !.text = r.text]
      BY Zenon
    <3>2. s[i] \in ItemType
      BY <1>2, <2>3
    <3>3. e \in ItemType /\ e.request = s[i].request /\ e.editor = s[i].editor
      BY <1>2, <3>1, <3>2 DEF ItemType
    <3>4. new = [s EXCEPT ![i] = e]
      BY <2>3, <3>1
    <3>5. new \in Seq(ItemType) /\ DOMAIN new = DOMAIN s /\ \A j \in DOMAIN s : new[j] = IF j = i THEN e ELSE s[j]
      BY <1>2, <2>3, <3>3, <3>4
    <3>6. \A j \in DOMAIN s : new[j].request = s[j].request /\ new[j].editor = s[j].editor
      BY <3>3, <3>5
    <3> QED BY <1>3, <1>5, <3>5, <3>6
  <2> QED BY <2>1, <2>2, <2>3
<1> QED BY <1>4, <1>5

\* The queue only moves on, and gains no second item of a request ID.
LEMMA AppliedIs ==
    ASSUME FeedOK, NEW r \in RequestType, r.editor = r.request, NEW i \in {0} \union DOMAIN daemon.added,
           NEW d, d = Applied(r, i)
    PROVE  /\ d \in QueueType /\ daemon.version <= d.version
           /\ \A j \in DOMAIN d.added : d.added[j].editor = d.added[j].request
           /\ \A j, k \in DOMAIN d.added : d.added[j].request = d.added[k].request => j = k
           /\ r.action = "add" /\ ~Conflicts(r) =>
                 \E j \in DOMAIN d.added : d.added[j].editor = r.editor /\ d.added[j].text = r.text
           /\ r.action = "get" => d.added = daemon.added
<1>0. daemon \in QueueType /\ ItemsOK
  BY DEF FeedOK, FeedTypeOK
<1>1. daemon.version \in Nat /\ daemon.version + 1 \in Nat /\ daemon.version <= daemon.version /\ daemon.version <= daemon.version + 1
  <2>1. daemon.version \in Nat
    BY <1>0 DEF QueueType
  <2> QED BY <2>1, InOrder, Zenon
<1>2. CASE r.action = "get" \/ (r.action = "add" /\ Repeated(r) # {})
  <2>1. d = daemon
    BY <1>2 DEF Applied
  <2>2. ASSUME r.action = "add", ~Conflicts(r)
        PROVE  \E j \in DOMAIN daemon.added : daemon.added[j].editor = r.editor /\ daemon.added[j].text = r.text
    <3>1. PICK j \in Repeated(r) : daemon.added[j].text = r.text
      BY <1>2, <2>2 DEF Conflicts
    <3>2. j \in DOMAIN daemon.added /\ daemon.added[j].request = r.request
      BY <3>1 DEF Repeated
    <3> QED BY <1>0, <3>1, <3>2 DEF ItemsOK
  <2> QED BY <1>0, <1>1, <2>1, <2>2 DEF ItemsOK
<1>3. CASE ~(r.action = "get" \/ (r.action = "add" /\ Repeated(r) # {}))
  <2>1. PICK new : new = ItemsAfter(r, i)
    BY Zenon
  <2>2. d = [version |-> daemon.version + 1, added |-> new]
    BY <1>3, <2>1 DEF Applied
  <2>3. /\ new \in Seq(ItemType)
        /\ \A j \in DOMAIN new : new[j].editor = new[j].request
        /\ \A j, k \in DOMAIN new : new[j].request = new[k].request => j = k
        /\ r.action = "add" => \E j \in DOMAIN new : new[j].editor = r.editor /\ new[j].text = r.text
    <3>1. r.action = "add" => Repeated(r) = {}
      BY <1>3, Zenon
    <3> QED BY <2>1, <3>1, ItemsAfterIs
  <2>4. d \in QueueType /\ d.version = daemon.version + 1 /\ d.added = new
    BY <1>1, <2>2, <2>3 DEF QueueType
  <2> QED BY <1>1, <1>3, <2>3, <2>4
<1> QED BY <1>2, <1>3

LEMMA ServeKeeps ==
    ASSUME PopupsInv, NEW r \in flight, NEW i \in {0} \union DOMAIN daemon.added,
           NEW applies \in BOOLEAN, NEW reply \in {"ok", "err"}, Serve(r, i, applies, reply)
    PROVE  PopupsInv'
<1>0. /\ BodyOK /\ FeedOK /\ daemon \in QueueType /\ flight \subseteq RequestType /\ feed \in FeedType
      /\ ItemsOK /\ ChangesOK /\ RequestsOK
  BY DEF PopupsInv, BodyOK, PopupsTypeOK, FeedOK, FeedTypeOK
<1>1. PICK d : d = daemon'
  BY Zenon
<1>2. PICK q : q = [r EXCEPT !.reply = reply, !.version = d.version]
  BY Zenon
<1>3. /\ Ours(r) /\ d = (IF applies THEN Applied(r, i) ELSE daemon) /\ flight' = (flight \ {r}) \union {q}
      /\ UNCHANGED <<popups, flags, cooling, selected, feed, quitting>> /\ (reply = "ok" => applies /\ ~Conflicts(r))
  BY <1>1, <1>2 DEF Serve, Ours
<1>4. r \in RequestType /\ r.editor = r.request /\ (r.action \in {"selection", "started"} => r.of = "picker")
  BY <1>0 DEF RequestsOK
<1>5. /\ d \in QueueType /\ daemon.version <= d.version
      /\ \A j \in DOMAIN d.added : d.added[j].editor = d.added[j].request
      /\ \A j, k \in DOMAIN d.added : d.added[j].request = d.added[k].request => j = k
      /\ r.action = "add" /\ reply = "ok" => \E j \in DOMAIN d.added : d.added[j].editor = r.editor /\ d.added[j].text = r.text
      /\ r.action = "get" => d.added = daemon.added
  <2>1. CASE applies
    BY <1>0, <1>3, <1>4, <2>1, AppliedIs
  <2>2. CASE ~applies
    <3>1. daemon.version \in Nat
      BY <1>0 DEF QueueType
    <3>2. daemon.version <= daemon.version
      BY <3>1, InOrder, Zenon
    <3> QED BY <1>0, <1>3, <2>2, <3>2 DEF ItemsOK
  <2> QED BY <2>1, <2>2
<1>6. d.version \in Nat /\ daemon.version \in Nat
  BY <1>0, <1>5 DEF QueueType
<1>7. /\ q \in RequestType /\ q.of = r.of /\ q.id = r.id /\ q.target = r.target /\ q.text = r.text /\ q.request = r.request
      /\ q.editor = r.editor /\ q.action = r.action /\ q.sequence = r.sequence /\ q.version = d.version /\ q.reply = reply
  BY <1>2, <1>4, <1>6 DEF RequestType
<1>8. BodyOK'
  BY <1>0, <1>3, <1>4, <1>7, TurnedStep
<1>9. \A s : (Ours(s)' <=> Ours(s)) /\ (Expected(s)' <=> Expected(s))
  BY <1>3 DEF Ours, Expected
<1>10. Ours(q) /\ (Expected(q) <=> Expected(r))
  BY <1>3, <1>7 DEF Ours, Expected
<1>11. ASSUME NEW n \in Nat, n <= daemon.version PROVE n <= d.version
  BY <1>5, <1>6, <1>11, InOrder, Zenon
<1>12. feed.shown \in Nat /\ \A s \in flight : s.version \in Nat
  BY <1>0 DEF FeedType, RequestType
<1>13. feed.shown <= d.version
  BY <1>0, <1>11, <1>12 DEF FeedOK
<1>14. \A s \in flight' : Ours(s) => s.sequence <= feed.sequence /\ s.version <= d.version
  <2> SUFFICES ASSUME NEW s \in flight', Ours(s) PROVE s.sequence <= feed.sequence /\ s.version <= d.version
    OBVIOUS
  <2>1. CASE s = q
    <3>1. r.sequence <= feed.sequence
      BY <1>0, <1>3 DEF FeedOK
    <3>2. d.version <= d.version
      BY <1>6, InOrder, Zenon
    <3> QED BY <1>7, <2>1, <3>1, <3>2, Zenon
  <2>2. CASE s \in flight
    <3>1. s.sequence <= feed.sequence /\ s.version <= daemon.version
      BY <1>0, <2>2 DEF FeedOK
    <3> QED BY <1>11, <1>12, <2>2, <3>1
  <2> QED BY <1>3, <2>1, <2>2
<1>15. \A s, t \in flight' : Ours(s) /\ Ours(t) /\ s.sequence = t.sequence => s = t
  <2>1. \A s, t \in flight : Ours(s) /\ Ours(t) /\ s.sequence = t.sequence => s = t
    BY <1>0 DEF FeedOK
  <2>2. \A s \in flight \ {r} : Ours(s) => s.sequence # r.sequence
    BY <1>3, <2>1
  <2> QED BY <1>3, <1>7, <2>1, <2>2
<1>16. \A s \in flight' : Ours(s) /\ Expected(s) /\ s.reply = "ok" => feed.shown <= s.version
  <2>1. \A s \in flight : Ours(s) /\ Expected(s) /\ s.reply = "ok" => feed.shown <= s.version
    BY <1>0 DEF FeedOK
  <2> QED BY <1>3, <1>7, <1>13, <2>1
<1>17. ASSUME NEW s \in flight, Ours(s), Expected(s) PROVE \E t \in flight' : Ours(t) /\ Expected(t) /\ t.action = s.action
  <2>1. CASE s = r
    BY <1>3, <1>7, <1>10, <1>17, <2>1
  <2>2. CASE s # r
    BY <1>3, <1>17, <2>2
  <2> QED BY <2>1, <2>2
<1>18. popups["followups"].busy => \E s \in flight' : Ours(s) /\ Expected(s) /\ s.action # "get"
  <2> SUFFICES ASSUME popups["followups"].busy PROVE \E s \in flight' : Ours(s) /\ Expected(s) /\ s.action # "get"
    OBVIOUS
  <2>1. PICK s \in flight : Ours(s) /\ Expected(s) /\ s.action # "get"
    BY <1>0 DEF FeedOK
  <2> QED BY <1>17, <2>1
<1>19. feed.loading => \E s \in flight' : Ours(s) /\ Expected(s) /\ s.action = "get"
  <2> SUFFICES ASSUME feed.loading PROVE \E s \in flight' : Ours(s) /\ Expected(s) /\ s.action = "get"
    OBVIOUS
  <2>1. PICK s \in flight : Ours(s) /\ Expected(s) /\ s.action = "get"
    BY <1>0 DEF FeedOK
  <2> QED BY <1>17, <2>1
<1>20. ItemsOK'
  BY <1>1, <1>5 DEF ItemsOK
<1>21. ChangesOK'
  <2>1. ASSUME NEW s \in flight', Ours(s), s.action # "get" PROVE Expected(s) /\ popups["followups"].busy
    <3>1. CASE s = q
      BY <1>0, <1>3, <1>7, <1>10, <2>1, <3>1 DEF ChangesOK
    <3>2. CASE s \in flight
      BY <1>0, <2>1, <3>2 DEF ChangesOK
    <3> QED BY <1>3, <3>1, <3>2
  <2>2. ASSUME NEW s \in flight', Ours(s), s.action = "add", s.reply = "ok" PROVE Queued(s)'
    <3>1. CASE s = q
      BY <1>1, <1>5, <1>7, <2>2, <3>1 DEF Queued
    <3>2. CASE s # q
      <4>1. s \in flight /\ s # r
        BY <1>3, <3>2
      <4>2. Expected(s) /\ Queued(s)
        BY <1>0, <2>2, <4>1 DEF ChangesOK
      <4>3. r.action = "get"
        <5> SUFFICES ASSUME r.action # "get" PROVE FALSE
          OBVIOUS
        <5>1. Expected(r)
          BY <1>0, <1>3 DEF ChangesOK
        <5>2. r.sequence = s.sequence
          BY <4>2, <5>1 DEF Expected
        <5> QED BY <1>0, <1>3, <2>2, <4>1, <5>2 DEF FeedOK
      <4>4. daemon'.added = daemon.added
        BY <1>1, <1>5, <4>3
      <4> QED BY <4>2, <4>4 DEF Queued
    <3> QED BY <3>1, <3>2
  <2> QED BY <1>3, <1>9, <2>1, <2>2 DEF ChangesOK
<1>22. FeedOK'
  <2>1. IsOpen("followups")' <=> IsOpen("followups")
    BY <1>3 DEF IsOpen
  <2>2. FeedTypeOK'
    BY <1>0, <1>1, <1>3, <1>5 DEF FeedTypeOK
  <2>3. feed.editor = feed.request /\ (~IsOpen("followups") => feed = NoFeed)
    BY <1>0 DEF FeedOK
  <2> QED BY <1>1, <1>3, <1>5, <1>9, <1>13, <1>14, <1>15, <1>16, <1>18, <1>19, <1>20, <1>21, <2>1, <2>2, <2>3 DEF FeedOK
<1>23. ListOK'
  BY <1>3, ListKept DEF PopupsInv
<1> QED BY <1>8, <1>22, <1>23 DEF PopupsInv

\* What an answer leaves of the list.
LEMMA HandledEffect ==
    ASSUME PopupsInv, NEW r \in flight, HandleFollowupResult(r), Expected(r)
    PROVE  /\ Ours(r) /\ r.reply # "" /\ popups' \in [KindSet -> PopupType] /\ feed' \in FeedType
           /\ \A l \in KindSet \ {"followups"} : popups'[l] = popups[l]
           /\ popups'["followups"].id = popups["followups"].id /\ popups'["followups"].target = popups["followups"].target
           /\ popups'["followups"].busy = (r.action = "get" /\ popups["followups"].busy)
           /\ feed'.loading = (r.action # "get" /\ feed.loading) /\ feed'.sequence = feed.sequence
           /\ feed'.editor = feed'.request
           /\ feed'.shown = IF r.reply = "err" THEN feed.shown ELSE r.version
<1>0. /\ popups \in [KindSet -> PopupType] /\ feed \in FeedType /\ flight \subseteq RequestType /\ feed.editor = feed.request
      /\ "followups" \in KindSet /\ "list" \in Modes
  BY KindsAre DEF PopupsInv, BodyOK, PopupsTypeOK, FeedOK, FeedTypeOK, Modes
<1>1. r \in RequestType /\ r.version \in Nat /\ popups["followups"] \in PopupType
  BY <1>0 DEF RequestType
<1>2. Ours(r) /\ r.reply # ""
  BY DEF HandleFollowupResult, Expected, Ours
<1>3. PICK o, get, failed, saved :
         /\ o = popups["followups"] /\ get = (r.action = "get") /\ failed = (r.reply = "err")
         /\ saved = (~failed /\ r.action \in {"add", "edit"})
  BY Zenon
<1>4. PICK p, f : /\ p = [o EXCEPT !.busy = IF get THEN @ ELSE FALSE, !.mode = IF saved THEN "list" ELSE @]
                  /\ f = [feed EXCEPT !.loading = IF get THEN FALSE ELSE @,
                                      !.loaded = @ \/ ~failed, !.shown = IF failed THEN @ ELSE r.version,
                                      !.text = IF saved THEN 0 ELSE @, !.request = IF saved THEN 0 ELSE @,
                                      !.editor = IF saved THEN 0 ELSE @]
  BY Zenon
<1>5. popups' = [popups EXCEPT !["followups"] = p] /\ feed' = f
  BY <1>3, <1>4 DEF HandleFollowupResult
<1>6. p \in PopupType /\ p.id = o.id /\ p.target = o.target
  BY <1>0, <1>1, <1>3, <1>4 DEF PopupType
<1>7. p.busy = (get /\ o.busy)
  <2>1. o.busy \in BOOLEAN
    BY <1>1, <1>3 DEF PopupType
  <2>2. p.busy = IF get THEN o.busy ELSE FALSE
    BY <1>1, <1>3, <1>4 DEF PopupType
  <2>3. get \in BOOLEAN
    BY <1>3
  <2> QED BY <2>1, <2>2, <2>3
<1>8. /\ feed.loading \in BOOLEAN /\ feed.loaded \in BOOLEAN /\ feed.shown \in Nat /\ feed.text \in Nat /\ feed.request \in Nat
      /\ feed.editor \in Nat
  BY <1>0 DEF FeedType
<1>9. /\ f.loading = (IF get THEN FALSE ELSE feed.loading) /\ f.loaded = (feed.loaded \/ ~failed)
      /\ f.shown = (IF failed THEN feed.shown ELSE r.version)
      /\ f.editor = (IF saved THEN 0 ELSE feed.editor) /\ f.request = (IF saved THEN 0 ELSE feed.request)
      /\ f.sequence = feed.sequence
  BY <1>0, <1>4 DEF FeedType
<1>10. f \in FeedType
  <2>1. PICK a \in BOOLEAN, b \in BOOLEAN, c \in Nat, d \in Nat, e \in Nat :
          /\ a = (IF get THEN FALSE ELSE feed.loading) /\ b = (feed.loaded \/ ~failed)
          /\ c = (IF failed THEN feed.shown ELSE r.version) /\ d = (IF saved THEN 0 ELSE feed.text)
          /\ e = (IF saved THEN 0 ELSE feed.request)
    BY <1>1, <1>3, <1>8
  <2>2. f = [feed EXCEPT !.loading = a, !.loaded = b, !.shown = c, !.text = d, !.request = e, !.editor = e]
    BY <1>0, <1>4, <2>1
  <2>3. a \in BOOLEAN /\ b \in BOOLEAN /\ c \in Nat /\ d \in Nat /\ e \in Nat
    BY <2>1
  <2> QED BY <1>0, <2>2, <2>3 DEF FeedType
<1>11. f.loading = (~get /\ feed.loading) /\ f.editor = f.request
  BY <1>0, <1>3, <1>8, <1>9
<1>12. /\ popups' \in [KindSet -> PopupType] /\ popups'["followups"] = p
       /\ \A l \in KindSet \ {"followups"} : popups'[l] = popups[l]
  BY <1>0, <1>5, <1>6
<1> QED BY <1>2, <1>3, <1>5, <1>6, <1>7, <1>9, <1>10, <1>11, <1>12

LEMMA HandleKeeps ==
    ASSUME PopupsInv, NEW r \in flight, HandleFollowupResult(r)
    PROVE  PopupsInv'
<1>0. /\ BodyOK /\ FeedOK /\ FeedTypeOK /\ popups \in [KindSet -> PopupType] /\ feed \in FeedType /\ flight \subseteq RequestType
      /\ "followups" \in KindSet
  BY KindsAre DEF PopupsInv, BodyOK, PopupsTypeOK, FeedOK, FeedTypeOK
<1>1. r.of = "followups" /\ flight' = flight \ {r} /\ UNCHANGED <<flags, cooling, selected, daemon, quitting>>
  BY DEF HandleFollowupResult
<1>2. OwnerOf(r) = "followups" /\ ~Bound(r) /\ FlagOf(r.of) = {}
  BY <1>1, FlagOfIs DEF OwnerOf, Bound
<1>3. flags' = flags \ FlagOf(r.of)
  BY <1>1, <1>2
<1>4. ListOK'
  BY <1>1, ListKept DEF PopupsInv
<1>5. SamePopups => BodyOK'
  BY <1>0, <1>1, <1>2, <1>3, DropStep
<1>6. CASE ~Expected(r)
  <2>1. UNCHANGED <<popups, feed>>
    BY <1>6 DEF HandleFollowupResult
  <2>2. SamePopups
    BY <1>0, <2>1 DEF SamePopups
  <2>3. \A s : (Ours(s)' <=> Ours(s)) /\ (Expected(s)' <=> Expected(s))
    BY <2>1 DEF Ours, Expected
  <2>4. \A s \in flight : Expected(s) => s \in flight'
    BY <1>1, <1>6
  <2>5. IsOpen("followups")' <=> IsOpen("followups")
    BY <2>1 DEF IsOpen
  <2>6. flight' \subseteq flight
    BY <1>1
  <2>7. FeedTypeOK'
    BY <1>0, <1>1, <2>1 DEF FeedTypeOK
  <2>8. ItemsOK' /\ ChangesOK'
    <3>1. \A s : Queued(s)' <=> Queued(s)
      BY <1>1 DEF Queued
    <3> QED BY <1>0, <1>1, <2>1, <2>3, <2>6, <3>1 DEF FeedOK, ItemsOK, ChangesOK
  <2>9. FeedOK'
    BY <1>0, <1>1, <2>1, <2>3, <2>4, <2>5, <2>6, <2>7, <2>8 DEF FeedOK
  <2> QED BY <1>4, <1>5, <2>2, <2>9 DEF PopupsInv
<1>7. CASE Expected(r)
  <2>1. /\ Ours(r) /\ r.reply # "" /\ popups' \in [KindSet -> PopupType] /\ feed' \in FeedType
        /\ \A l \in KindSet \ {"followups"} : popups'[l] = popups[l]
        /\ popups'["followups"].id = popups["followups"].id /\ popups'["followups"].target = popups["followups"].target
        /\ popups'["followups"].busy = (r.action = "get" /\ popups["followups"].busy)
        /\ feed'.loading = (r.action # "get" /\ feed.loading) /\ feed'.sequence = feed.sequence
        /\ feed'.editor = feed'.request
        /\ feed'.shown = IF r.reply = "err" THEN feed.shown ELSE r.version
    BY <1>7, HandledEffect
  <2>2. IsOpen("followups") /\ IsOpen("followups")'
    <3>1. r.id # 0 /\ r.id = popups["followups"].id
      BY <1>0, <1>1, <2>1 DEF BodyOK, RequestsOK, Ours
    <3> QED BY <2>1, <3>1 DEF IsOpen
  <2>3. SamePopups
    BY <2>1, <2>2 DEF SamePopups
  <2>4. \A s : (Ours(s)' <=> Ours(s)) /\ (Expected(s)' <=> Expected(s))
    BY <2>1 DEF Ours, Expected
  <2>5. \A s \in flight : Ours(s) /\ Expected(s) => s = r
    <3>1. \A s : Expected(s) => s.sequence = r.sequence
      BY <1>7 DEF Expected
    <3> QED BY <1>0, <2>1, <3>1 DEF FeedOK
  <2>6. \A s \in flight' : ~(Ours(s) /\ Expected(s))
    BY <1>1, <2>5
  <2>7. ~popups'["followups"].busy
    <3>1. popups["followups"].busy => r.action # "get"
      BY <1>0, <2>5 DEF FeedOK
    <3> QED BY <2>1, <3>1
  <2>8. ~feed'.loading
    <3>1. feed.loading => r.action = "get"
      BY <1>0, <2>5 DEF FeedOK
    <3> QED BY <2>1, <3>1
  <2>9. feed'.shown <= daemon.version
    <3>1. feed.shown <= daemon.version /\ r.version <= daemon.version
      BY <1>0, <2>1 DEF FeedOK
    <3> QED BY <2>1, <3>1, Zenon
  <2>10. FeedTypeOK'
    BY <1>0, <1>1, <2>1 DEF FeedTypeOK
  <2>11. \A s, t \in flight' : Ours(s) /\ Ours(t) /\ s.sequence = t.sequence => s = t
    BY <1>0, <1>1 DEF FeedOK
  <2>12. \A s \in flight' : Ours(s) => s.sequence <= feed.sequence /\ s.version <= daemon.version
    BY <1>0, <1>1 DEF FeedOK
  <2>13. ItemsOK' /\ ChangesOK'
    <3>1. \A s \in flight' : Ours(s) => s.action = "get"
      BY <1>0, <1>1, <2>6 DEF FeedOK, ChangesOK
    <3> QED BY <1>0, <1>1, <2>4, <3>1 DEF FeedOK, ItemsOK, ChangesOK
  <2>14. FeedOK'
    BY <1>1, <2>1, <2>2, <2>4, <2>6, <2>7, <2>8, <2>9, <2>10, <2>11, <2>12, <2>13 DEF FeedOK
  <2> QED BY <1>4, <1>5, <2>3, <2>14 DEF PopupsInv
<1> QED BY <1>6, <1>7

-----------------------------------------------------------------------------
(* The theorems.                                                           *)

LEMMA KeysKeep ==
    ASSUME PopupsInv, Keys
    PROVE  PopupsInv'
<1>1. CASE openInstruction \/ openTickets \/ openWorktreeMenu \/ openInput \/ openAliasPicker
  BY <1>1, OpenPlainKeeps DEF openInstruction, openTickets, openWorktreeMenu, openInput, openAliasPicker
<1>2. CASE OpenFollowups \/ OpenRecent \/ OpenEditor \/ \E from \in {"list", "worktrees"} : OpenMerge(from)
  BY <1>2, OpenFollowupsKeeps, OpenRecentKeeps, OpenEditorKeeps, OpenMergeKeeps
<1>3. CASE \E of \in {"stop", "pin", "focus"} : ActOnSelected(of)
  BY <1>3, ActOnSelectedKeeps
<1>4. CASE \E k \in KindSet : Escape(k)
  BY <1>4, EscapeKeeps, EscapeFollowupsKeeps
<1>5. CASE \E t \in Turns : TurnTo(t[1], t[2], t[3])
  BY <1>5, TurnToKeeps
<1>6. CASE \E s \in Sends : Submit(s[1], s[2], s[3], s[4])
  BY <1>6, SubmitKeeps
<1>7. CASE MergeRefused \/ MenuToNaming \/ openLazygit \/ focusChildWorktree
  BY <1>7, MergeRefusedKeeps, MenuToNamingKeeps, LazygitKeeps, FocusChildKeeps
<1>8. CASE \E mode \in {"add", "edit"} : EditFollowup(mode)
  BY <1>8, EditFollowupKeeps
<1>9. CASE \E action \in {"add", "edit", "change"} : RunFollowup(action)
  BY <1>9, RunFollowupKeeps
<1>10. CASE \E text \in 1 .. WordN : TypeText(text)
  BY <1>10, TypeTextKeeps
<1> QED BY <1>1, <1>2, <1>3, <1>4, <1>5, <1>6, <1>7, <1>8, <1>9, <1>10 DEF Keys

LEMMA AnswersKeep ==
    ASSUME PopupsInv, Answers
    PROVE  PopupsInv'
<1>1. CASE \E r \in flight, i \in {0} \union DOMAIN daemon.added, applies \in BOOLEAN, reply \in {"ok", "err"} :
             Serve(r, i, applies, reply)
  BY <1>1, ServeKeeps
<1>2. CASE \E r \in flight : HandleFollowupResult(r) \/ StartWorktree(r)
  BY <1>2, HandleKeeps, StartWorktreeKeeps
<1>3. CASE \E r \in flight, ok \in BOOLEAN : AnswerPopup(r, ok) \/ AnswerCreate(r, ok) \/ AnswerStarted(r, ok) \/ AnswerFlag(r, ok)
  BY <1>3, AnswerPopupKeeps, AnswerCreateKeeps, AnswerStartedKeeps, AnswerFlagKeeps
<1> QED BY <1>1, <1>2, <1>3 DEF Answers

LEMMA NextKeeps ==
    PopupsInv /\ [PopupsNext]_popupVars => PopupsInv'
<1> SUFFICES ASSUME PopupsInv, [PopupsNext]_popupVars PROVE PopupsInv'
  OBVIOUS
<1>1. CASE UNCHANGED popupVars
  <2>1. UNCHANGED <<popups, flags, cooling, selected, feed, flight, daemon, quitting>>
    BY <1>1 DEF popupVars
  <2>2. BodyOK' /\ FeedOK' /\ ListOK'
    BY <2>1, BodyKept, FeedKept, ListKept DEF PopupsInv
  <2> QED BY <2>2 DEF PopupsInv
<1>2. CASE PopupsNext
  <2>1. Keys \/ Answers \/ RefreshFollowups \/ SelectionMoves \/ CooldownEnds \/ QueueMoves \/ Quit
    BY <1>2 DEF PopupsNext
  <2> QED BY <2>1, KeysKeep, AnswersKeep, RefreshFollowupsKeeps, ListMovesKeep, QueueMovesKeeps, GoneKeeps DEF Quit
<1> QED BY <1>1, <1>2

\* However keys, refreshes and answers interleave, one pop-up is open at most, every
\* request that must be answered has the pop-up that sent it still open and waiting,
\* and of the follow-up list's requests only the latest is still expected.
THEOREM PopupsInvariant == PopupsSpec => []PopupsInv
<1>1. PopupsInit => PopupsInv
  BY InitIsRight
<1> QED BY <1>1, NextKeeps, PTL DEF PopupsSpec

LEMMA InvMeets == PopupsInv => AnswersMeetPopups
<1> SUFFICES ASSUME PopupsInv PROVE AnswersMeetPopups
  OBVIOUS
<1>0. BodyOK /\ FeedOK /\ RequestsOK /\ BoundOK /\ BusyOK /\ ActsOnItsTarget
  BY DEF PopupsInv, BodyOK
<1>1. BusyIsAwaited
  <2>1. ASSUME NEW k \in KindSet, popups[k].busy PROVE \E r \in flight : r.id = popups[k].id
    <3>1. CASE k = "followups"
      BY <1>0, <2>1, <3>1 DEF FeedOK, Ours
    <3>2. CASE k # "followups"
      BY <1>0, <2>1, <3>2 DEF BusyOK
    <3> QED BY <3>1, <3>2
  <2>2. feed.loading => \E r \in flight : r.action = "get" /\ Expected(r)
    BY <1>0 DEF FeedOK
  <2>3. \A f \in flags : \E r \in flight : f \in FlagOf(r.of)
    BY <1>0 DEF BusyOK
  <2> QED BY <2>1, <2>2, <2>3 DEF BusyIsAwaited
<1>2. AnswerMeetsItsPopup
  <2> SUFFICES ASSUME NEW r \in flight, r.of \in KindSet \ {"followups"}, ~Recognised(r) PROVE popups[r.of].id = r.id
    BY DEF AnswerMeetsItsPopup
  <2>1. r.of # "recent" /\ r.of # "focus"
    BY KindsAre DEF Recognised
  <2>2. OwnerOf(r) = r.of
    BY <2>1 DEF OwnerOf
  <2>3. r.of # "instruction"
    <3>1. r.of \in Ofs
      BY DEF PopupsInv, BodyOK, PopupsTypeOK, RequestType
    <3> QED BY <3>1, KindsAre DEF Ofs
  <2>4. Bound(r)
    BY <2>1, <2>3 DEF Bound
  <2> QED BY <1>0, <2>2, <2>4 DEF BoundOK
<1>3. AddedOnce
  BY <1>0 DEF FeedOK, ItemsOK, AddedOnce
<1>4. AcknowledgedIsQueued
  BY <1>0 DEF FeedOK, ChangesOK, Queued, Ours, AcknowledgedIsQueued
<1> QED BY <1>0, <1>1, <1>2, <1>3, <1>4 DEF AnswersMeetPopups

\* Whatever the order of keys, refreshes and answers, what waits is waited for; an
\* answer that does not name its pop-up meets the one that asked; a pop-up acts on the
\* agent it was opened on (the worktree menu's keys g, a and m excepted, which go by the
\* selection of the moment); and what an editor holds, submitted until it is acknowledged,
\* is in the queue once and with the text acknowledged.
THEOREM AnswersMeet == PopupsSpec => []AnswersMeetPopups
BY PopupsInvariant, InvMeets, PTL

\* A step that leaves the list open does not lead it back.
NotBack == popups["followups"].id = popups'["followups"].id => feed.shown <= feed'.shown

LEMMA SameShown ==
    ASSUME PopupsInv, feed'.shown = feed.shown
    PROVE  NotBack
<1>1. feed.shown \in Nat
  BY DEF PopupsInv, FeedOK, FeedTypeOK, FeedType
<1>2. feed.shown <= feed.shown
  BY <1>1, InOrder, Zenon
<1> QED BY <1>2 DEF NotBack

LEMMA FirstShown ==
    ASSUME PopupsInv, ~IsOpen("followups"), feed' \in FeedType
    PROVE  NotBack
<1>1. feed = NoFeed
  BY DEF PopupsInv, FeedOK
<1>2. feed.shown = 0 /\ feed'.shown \in Nat
  BY <1>1, NoPopupIs DEF FeedType
<1>3. 0 <= feed'.shown
  BY <1>2, InOrder, Zenon
<1> QED BY <1>2, <1>3 DEF NotBack

LEMMA KeysNotBack ==
    ASSUME PopupsInv, Keys
    PROVE  NotBack
<1>0. /\ BodyOK /\ FeedOK /\ popups \in [KindSet -> PopupType] /\ feed \in FeedType /\ "followups" \in KindSet
  BY KindsAre DEF PopupsInv, BodyOK, PopupsTypeOK, FeedOK, FeedTypeOK
<1>1. CASE openInstruction \/ openTickets \/ openWorktreeMenu \/ openInput \/ openAliasPicker
  BY <1>1, SameShown DEF openInstruction, openTickets, openWorktreeMenu, openInput, openAliasPicker, OpenPlain
<1>2. CASE OpenFollowups
  <2>1. ~IsOpen("followups") /\ feed' = [NoFeed EXCEPT !.sequence = 1, !.loading = TRUE]
    BY <1>0, <1>2 DEF OpenFollowups, MainScreen
  <2>2. feed' \in FeedType
    BY <2>1 DEF NoFeed, FeedType
  <2> QED BY <2>1, <2>2, FirstShown
<1>3. CASE OpenRecent \/ OpenEditor \/ \E from \in {"list", "worktrees"} : OpenMerge(from)
  BY <1>3, SameShown DEF OpenRecent, OpenEditor, OpenMerge
<1>4. CASE \E of \in {"stop", "pin", "focus"} : ActOnSelected(of)
  BY <1>4, SameShown DEF ActOnSelected
<1>5. ASSUME NEW k \in KindSet, Escape(k) PROVE NotBack
  <2>1. CASE k # "followups"
    <3>1. feed' = feed
      BY <1>5, <2>1 DEF Escape
    <3> QED BY <3>1, SameShown
  <2>2. CASE k = "followups"
    <3>1. IsOpen("followups")
      BY <1>5, <2>2 DEF Escape, Takes
    <3>2. feed' = [feed EXCEPT !.text = 0, !.request = 0, !.editor = 0] \/ popups' = [popups EXCEPT !["followups"] = NoPopup]
      BY <1>5, <2>2 DEF Escape
    <3>3. CASE feed' = [feed EXCEPT !.text = 0, !.request = 0, !.editor = 0]
      <4>1. feed'.shown = feed.shown
        BY <1>0, <3>3 DEF FeedType
      <4> QED BY <4>1, SameShown
    <3>4. CASE popups' = [popups EXCEPT !["followups"] = NoPopup]
      <4>1. popups'["followups"].id = 0
        BY <1>0, <3>4, NoPopupIs
      <4> QED BY <3>1, <4>1 DEF NotBack, IsOpen
    <3> QED BY <3>2, <3>3, <3>4
  <2> QED BY <2>1, <2>2
<1>6. CASE \E t \in Turns : TurnTo(t[1], t[2], t[3])
  BY <1>6, SameShown DEF TurnTo
<1>7. CASE \E s \in Sends : Submit(s[1], s[2], s[3], s[4])
  BY <1>7, SameShown DEF Submit
<1>8. CASE MergeRefused \/ MenuToNaming \/ openLazygit \/ focusChildWorktree
  BY <1>8, SameShown DEF MergeRefused, MenuToNaming, openLazygit, focusChildWorktree
<1>9. ASSUME NEW mode, EditFollowup(mode) PROVE NotBack
  <2>1. PICK new : feed' = [feed EXCEPT !.text = 0, !.request = new, !.editor = new]
    BY <1>9 DEF EditFollowup
  <2>2. feed'.shown = feed.shown
    BY <1>0, <2>1 DEF FeedType
  <2> QED BY <2>2, SameShown
<1>10. ASSUME NEW action, RunFollowup(action) PROVE NotBack
  <2>1. PICK n : feed' = [feed EXCEPT !.loading = FALSE, !.sequence = n]
    BY <1>10 DEF RunFollowup
  <2>2. feed'.shown = feed.shown
    BY <1>0, <2>1 DEF FeedType
  <2> QED BY <2>2, SameShown
<1>11. ASSUME NEW text, TypeText(text) PROVE NotBack
  <2>1. feed'.shown = feed.shown
    BY <1>0, <1>11 DEF TypeText, FeedType
  <2> QED BY <2>1, SameShown
<1> QED BY <1>1, <1>2, <1>3, <1>4, <1>5, <1>6, <1>7, <1>8, <1>9, <1>10, <1>11 DEF Keys

LEMMA GoneNotBack ==
    ASSUME PopupsInv, Gone
    PROVE  NotBack
<1>1. "followups" \in KindSet
  BY KindsAre
<1>2. feed' \in FeedType /\ popups'["followups"].id = 0
  BY <1>1, NoPopupIs DEF Gone
<1>3. CASE IsOpen("followups")
  BY <1>2, <1>3 DEF NotBack, IsOpen
<1>4. CASE ~IsOpen("followups")
  BY <1>2, <1>4, FirstShown
<1> QED BY <1>3, <1>4

LEMMA HandleNotBack ==
    ASSUME PopupsInv, NEW r \in flight, HandleFollowupResult(r)
    PROVE  NotBack
<1>1. CASE ~Expected(r)
  <2>1. feed' = feed
    BY <1>1 DEF HandleFollowupResult
  <2> QED BY <2>1, SameShown
<1>2. CASE Expected(r)
  <2>1. Ours(r) /\ r.reply # "" /\ feed'.shown = IF r.reply = "err" THEN feed.shown ELSE r.version
    BY <1>2, HandledEffect
  <2>2. CASE r.reply = "err"
    <3>1. feed'.shown = feed.shown
      BY <2>1, <2>2
    <3> QED BY <3>1, SameShown
  <2>3. CASE r.reply # "err"
    <3>1. r.reply \in {"", "ok", "err"}
      BY DEF PopupsInv, BodyOK, PopupsTypeOK, RequestType
    <3>2. r.reply = "ok" /\ feed'.shown = r.version
      BY <2>1, <2>3, <3>1
    <3>3. feed.shown <= r.version
      BY <1>2, <2>1, <3>2 DEF PopupsInv, FeedOK
    <3> QED BY <3>2, <3>3 DEF NotBack
  <2> QED BY <2>2, <2>3
<1> QED BY <1>1, <1>2

LEMMA NextNotBack ==
    ASSUME PopupsInv, PopupsNext
    PROVE  NotBack
<1>0. feed \in FeedType
  BY DEF PopupsInv, FeedOK, FeedTypeOK
<1>1. CASE Answers
  <2>1. CASE \E r \in flight : HandleFollowupResult(r)
    BY <2>1, HandleNotBack
  <2>2. CASE \/ \E r \in flight, i \in {0} \union DOMAIN daemon.added, applies \in BOOLEAN, reply \in {"ok", "err"} :
                  Serve(r, i, applies, reply)
             \/ \E r \in flight : StartWorktree(r)
             \/ \E r \in flight, ok \in BOOLEAN : AnswerPopup(r, ok) \/ AnswerCreate(r, ok) \/ AnswerStarted(r, ok)
    <3>1. feed' = feed
      BY <2>2 DEF Serve, StartWorktree, AnswerPopup, AnswerCreate, AnswerStarted
    <3> QED BY <3>1, SameShown
  <2>3. ASSUME NEW r \in flight, NEW ok \in BOOLEAN, AnswerFlag(r, ok) PROVE NotBack
    <3>1. Gone \/ feed' = feed
      BY <2>3 DEF AnswerFlag
    <3> QED BY <3>1, GoneNotBack, SameShown
  <2> QED BY <1>1, <2>1, <2>2, <2>3 DEF Answers
<1>2. CASE RefreshFollowups
  <2>1. PICK n : feed' = [feed EXCEPT !.loading = TRUE, !.sequence = n]
    BY <1>2 DEF RefreshFollowups
  <2>2. feed'.shown = feed.shown
    BY <1>0, <2>1 DEF FeedType
  <2> QED BY <2>2, SameShown
<1>3. CASE SelectionMoves \/ CooldownEnds \/ QueueMoves
  BY <1>3, SameShown DEF SelectionMoves, CooldownEnds, QueueMoves
<1> QED BY <1>1, <1>2, <1>3, KeysNotBack, GoneNotBack DEF PopupsNext, Quit

\* However reads, edits and their answers overtake each other, what the open follow-up
\* list shows never goes back to an earlier state of the queue: a read sent before an
\* edit does not undo it.
THEOREM ListNeverGoesBack == PopupsSpec => NeverShowsOlder
<1>1. PopupsInv /\ [PopupsNext]_popupVars => [NotBack]_popupVars
  BY NextNotBack
<1>2. PopupsSpec => [][NotBack]_popupVars
  BY <1>1, PopupsInvariant, PTL DEF PopupsSpec
<1> QED BY <1>2 DEF NeverShowsOlder, NotBack

-----------------------------------------------------------------------------
(* The request table of the tab-network role.                              *)

\* The browser, the listener, the table and the screen, by themselves.
TableSpec == TableInit /\ [][TableNext]_tableVars

AnyKey == {"none", "GET", "-"} \X (Urls \union {""})
BrowserType == [state: {"new", "sent", "answered", "over"}, url: Urls, redirects: Nat]
EventType == [kind: {"request", "response", "failure", "body"}, id: RequestIDs, key: AnyKey, at: Nat]
RowType == [key: AnyKey, count: Nat, last: Nat, from: Nat, failed: BOOLEAN, body: Nat]
ScreenType == [shown: Seq(AnyKey), selected: Nat, focused: AnyKey, scroll: Nat, detail: BOOLEAN, filter: Urls \union {""}]

\* A table with its rows, its index and the IDs of every row.
WellFormed(t) ==
    /\ t = [rows |-> t.rows, index |-> t.index, seen |-> t.seen, ids |-> t.ids]
    /\ t.rows \in Seq(RowType) /\ t.seen \subseteq RequestIDs
    /\ t.index \in [DOMAIN t.index -> Nat] /\ t.ids \in [DOMAIN t.index -> SUBSET RequestIDs]
    /\ \A k \in DOMAIN t.index : k # NoKey

\* The index finds every row and nothing else.
Indexed(t) ==
    /\ \A i \in 1 .. Len(t.rows) : t.rows[i].key \in DOMAIN t.index /\ t.index[t.rows[i].key] = i
    /\ \A k \in DOMAIN t.index : t.index[k] \in 1 .. Len(t.rows) /\ t.rows[t.index[k]].key = k

\* Requests that were not redirected are counted in one row, once.
Counted(t, plain) ==
    /\ \A k \in DOMAIN t.index : t.ids[k] \subseteq plain => t.rows[t.index[k]].count = Cardinality(t.ids[k])
    /\ \A r \in t.seen : \E k \in DOMAIN t.index : r \in t.ids[k]
    /\ \A k \in DOMAIN t.index : \A r \in t.ids[k] : r \in plain => r \in t.seen
    /\ \A k, l \in DOMAIN t.index : \A r \in plain : r \in t.ids[k] /\ r \in t.ids[l] => k = l

GoodTable(t, plain) == WellFormed(t) /\ Indexed(t) /\ Counted(t, plain)

Plain == {r \in RequestIDs : browser[r].redirects = 0}

TableTypeOK ==
    /\ browser \in [RequestIDs -> BrowserType] /\ captured \in [RequestIDs -> AnyKey]
    /\ fetching \subseteq EventType /\ messages \in Seq(EventType) /\ clock \in Nat
    /\ screen \in ScreenType

\* Request r is known under key k: by the listener, in a message, in a row.
KnownAs(r, k) ==
    \/ captured[r] = k
    \/ \E m \in fetching : m.id = r /\ m.key = k
    \/ \E n \in 1 .. Len(messages) : messages[n].id = r /\ messages[n].key = k
    \/ k \in DOMAIN table.index /\ r \in table.ids[k]

\* A request that was not redirected is known under one key, and under none before the
\* listener has one.
KeysOK ==
    /\ \A r \in Plain : \A k, l \in AnyKey \ {NoKey} : KnownAs(r, k) /\ KnownAs(r, l) => k = l
    /\ \A r \in RequestIDs :
          browser[r].state \in {"new", "sent"} /\ captured[r] = NoKey => \A k \in AnyKey \ {NoKey} : ~KnownAs(r, k)
    /\ \A r \in RequestIDs : browser[r].state = "new" => captured[r] = NoKey

\* The selected line is there and visible.
Visible(s) ==
    IF s.shown = <<>> THEN s.focused = NoKey /\ s.selected = 0
    ELSE /\ s.selected \in 0 .. Len(s.shown) - 1 /\ s.focused = s.shown[s.selected + 1]
         /\ s.scroll <= s.selected /\ s.selected < s.scroll + ListHeight

ScreenOK == screen.shown = filteredRows(table, screen.filter) /\ Visible(screen)

\* The inductive invariant.
TableInv ==
    /\ TableTypeOK /\ GoodTable(table, Plain) /\ Len(table.rows) <= RowN
    /\ KeysOK /\ ScreenOK
-----------------------------------------------------------------------------
(* The store.                                                              *)

\* Event e is merged into t, which becomes u.
Merged(t, e, u) ==
    /\ WellFormed(u) /\ DOMAIN u.index = DOMAIN t.index \union {e.key}
    /\ \A k \in DOMAIN t.index : u.index[k] = t.index[k]
    /\ e.key \in DOMAIN t.index => Len(u.rows) = Len(t.rows)
    /\ e.key \notin DOMAIN t.index => Len(u.rows) = Len(t.rows) + 1 /\ u.index[e.key] = Len(u.rows)
    /\ \A i \in 1 .. Len(t.rows) : i # u.index[e.key] => u.rows[i] = t.rows[i]
    /\ u.rows[u.index[e.key]].key = e.key
    /\ u.rows[u.index[e.key]].count = (IF e.key \in DOMAIN t.index THEN t.rows[t.index[e.key]].count ELSE 0)
                                      + (IF e.id \in t.seen THEN 0 ELSE 1)
    /\ u.seen = t.seen \union {e.id}
    /\ \A k \in DOMAIN t.index : k # e.key => u.ids[k] = t.ids[k]
    /\ u.ids[e.key] = (IF e.key \in DOMAIN t.index THEN t.ids[e.key] ELSE {}) \union {e.id}

\* The row of an event.
Touched(row, e, fresh) ==
    [row EXCEPT !.count = IF fresh THEN @ + 1 ELSE @, !.last = e.at, !.from = e.id,
                !.body = IF e.kind = "body" THEN e.id ELSE @, !.failed = (e.kind = "failure")]

LEMMA TouchedIs ==
    ASSUME NEW row \in RowType, NEW e \in EventType, NEW fresh \in BOOLEAN, NEW u, u = Touched(row, e, fresh)
    PROVE  u \in RowType /\ u.key = row.key /\ u.count = row.count + (IF fresh THEN 1 ELSE 0)
<1>1. /\ row.key \in AnyKey /\ row.count \in Nat /\ row.body \in Nat /\ e.at \in Nat /\ e.id \in Nat
  BY DEF RowType, EventType, RequestIDs
<1>2. PICK c \in Nat, b \in Nat, f \in BOOLEAN, n \in Nat, a \in Nat :
        /\ c = (IF fresh THEN row.count + 1 ELSE row.count) /\ b = (IF e.kind = "body" THEN e.id ELSE row.body)
        /\ f = (e.kind = "failure") /\ n = e.id /\ a = e.at
  <2>1. (IF fresh THEN row.count + 1 ELSE row.count) \in Nat
    BY <1>1
  <2>2. (IF e.kind = "body" THEN e.id ELSE row.body) \in Nat
    BY <1>1
  <2>3. (e.kind = "failure") \in BOOLEAN
    OBVIOUS
  <2> QED BY <1>1, <2>1, <2>2, <2>3, Zenon
<1>3. u = [row EXCEPT !.count = c, !.last = a, !.from = n, !.body = b, !.failed = f]
  BY <1>2 DEF Touched, RowType
<1>4. u \in RowType /\ u.key = row.key /\ u.count = c
  <2>1. c \in Nat /\ b \in Nat /\ f \in BOOLEAN /\ n \in Nat /\ a \in Nat
    BY <1>2
  <2> QED BY <1>3, <2>1 DEF RowType
<1>5. c = row.count + (IF fresh THEN 1 ELSE 0)
  BY <1>1, <1>2
<1> QED BY <1>4, <1>5

\* A message without a key changes nothing, every other one is merged before rows are pruned.
LEMMA UpsertEffect ==
    ASSUME NEW t, WellFormed(t), Indexed(t), NEW e \in EventType, e.key # NoKey
    PROVE  \E u : Merged(t, e, u) /\ Upsert(t, e) = pruneRows(u)
<1>1. PICK D : D = DOMAIN t.index
  OBVIOUS
<1>2. /\ t.rows \in Seq(RowType) /\ t.seen \subseteq RequestIDs /\ t.index \in [D -> Nat] /\ t.ids \in [D -> SUBSET RequestIDs]
      /\ \A k \in D : k # NoKey
      /\ \A k \in D : t.index[k] \in 1 .. Len(t.rows) /\ t.rows[t.index[k]].key = k
  BY <1>1 DEF WellFormed, Indexed
<1>3. e.key \in AnyKey /\ e.id \in RequestIDs /\ e.id \in Nat
  BY SMT DEF EventType, RequestIDs
<1>4. PICK fresh \in BOOLEAN : fresh = (e.id \notin t.seen)
  OBVIOUS
<1>5. PICK known \in BOOLEAN : known = (e.key \in D)
  <2>1. (e.key \in D) \in BOOLEAN
    OBVIOUS
  <2> QED BY <2>1, Zenon
<1>6. PICK blank : blank = [key |-> e.key, count |-> 0, last |-> 0, from |-> None, failed |-> FALSE, body |-> None]
  OBVIOUS
<1>7. blank \in RowType /\ blank.key = e.key /\ blank.count = 0
  BY <1>3, <1>6, SMT DEF RowType, None
<1>8. PICK rows : rows = IF known THEN t.rows ELSE Append(t.rows, blank)
  OBVIOUS
<1>9. PICK index : index = IF known THEN t.index ELSE With(t.index, e.key, Len(rows))
  OBVIOUS
<1>10. PICK i : i = index[e.key]
  OBVIOUS
<1>11. PICK row : row = Touched(rows[i], e, fresh)
  OBVIOUS
<1>12. PICK old : old = IF known THEN t.ids[e.key] ELSE {}
  OBVIOUS
<1>13. PICK ids : ids = With(t.ids, e.key, old \union {e.id})
  OBVIOUS
<1>14. PICK new : new = [rows EXCEPT ![i] = row]
  OBVIOUS
<1>15. PICK u : u = [rows |-> new, index |-> index, seen |-> t.seen \union {e.id}, ids |-> ids]
  OBVIOUS
<1>16. u.rows = new /\ u.index = index /\ u.seen = t.seen \union {e.id} /\ u.ids = ids
  BY <1>15, SMT
<1>17. Upsert(t, e) = pruneRows(u)
  <2> DEFINE known2 == e.key \in DOMAIN t.index
             rows2 == IF known2 THEN t.rows
                ELSE Append(t.rows, [key |-> e.key, count |-> 0, last |-> 0, from |-> None, failed |-> FALSE, body |-> None])
             index2 == IF known2 THEN t.index ELSE With(t.index, e.key, Len(rows2))
             i2 == index2[e.key]
             row2 == [rows2[i2] EXCEPT !.count = IF shouldIncrementCount(e, t.seen) THEN @ + 1 ELSE @,
                               !.last = e.at, !.from = e.id,
                               !.body = IF e.kind = "body" THEN e.id ELSE @,
                               !.failed = (e.kind = "failure")]
             ids2 == IF e.key \in DOMAIN t.ids THEN t.ids[e.key] ELSE {}
  <2>1. Upsert(t, e) = pruneRows([rows |-> [rows2 EXCEPT ![i2] = row2], index |-> index2,
                        seen |-> t.seen \union {e.id}, ids |-> With(t.ids, e.key, ids2 \union {e.id})])
    BY Zenon DEF Upsert
  <2>2. rows2 = rows
    BY <1>1, <1>5, <1>6, <1>8, Zenon
  <2>3. index2 = index
    <3> HIDE DEF rows2
    <3> QED BY <1>1, <1>5, <1>9, <2>2, Zenon
  <2>4. i2 = i
    <3> HIDE DEF index2
    <3> QED BY <1>10, <2>3, Zenon
  <2>5. row2 = row
    <3> HIDE DEF i2, rows2
    <3>1. row2 = [rows[i] EXCEPT !.count = IF shouldIncrementCount(e, t.seen) THEN @ + 1 ELSE @,
                               !.last = e.at, !.from = e.id,
                               !.body = IF e.kind = "body" THEN e.id ELSE @,
                               !.failed = (e.kind = "failure")]
      BY <2>2, <2>4, Zenon
    <3> HIDE DEF row2
    <3> QED BY <1>4, <1>11, <3>1 DEF Touched, shouldIncrementCount
  <2>6. ids2 = old
    <3>1. DOMAIN t.ids = D
      BY <1>2
    <3> QED BY <1>5, <1>12, <3>1, Zenon
  <2> HIDE DEF rows2, index2, i2, row2, ids2
  <2> QED BY <1>13, <1>14, <1>15, <2>1, <2>2, <2>3, <2>4, <2>5, <2>6, Zenon
<1>18. /\ DOMAIN ids = D \union {e.key} /\ ids[e.key] = old \union {e.id} /\ \A k \in D : k # e.key => ids[k] = t.ids[k]
       /\ ids \in [D \union {e.key} -> SUBSET RequestIDs] /\ old \subseteq RequestIDs
  <2>1. DOMAIN t.ids = D /\ old \subseteq RequestIDs
    BY <1>2, <1>5, <1>12
  <2>2. /\ DOMAIN ids = D \union {e.key} /\ ids[e.key] = old \union {e.id} /\ ids = [y \in D \union {e.key} |-> ids[y]]
        /\ \A k \in D : k # e.key => ids[k] = t.ids[k]
    BY <1>13, <2>1 DEF With
  <2>3. \A k \in D \union {e.key} : ids[k] \in SUBSET RequestIDs
    BY <1>2, <1>3, <2>1, <2>2
  <2> QED BY <2>1, <2>2, <2>3
<1>19. /\ rows \in Seq(RowType) /\ i \in 1 .. Len(rows) /\ rows[i].key = e.key
       /\ index \in [D \union {e.key} -> Nat] /\ DOMAIN index = D \union {e.key} /\ \A k \in D : index[k] = t.index[k]
       /\ e.key \in D => Len(rows) = Len(t.rows) /\ rows[i].count = t.rows[t.index[e.key]].count
       /\ e.key \notin D => Len(rows) = Len(t.rows) + 1 /\ i = Len(rows) /\ rows[i].count = 0
       /\ \A j \in 1 .. Len(t.rows) : rows[j] = t.rows[j]
  <2>1. CASE known
    <3>1. rows = t.rows /\ index = t.index /\ e.key \in D /\ D \union {e.key} = D
      BY <1>5, <1>8, <1>9, <2>1
    <3> QED BY <1>2, <1>10, <3>1
  <2>2. CASE ~known
    <3>1. rows = Append(t.rows, blank) /\ index = With(t.index, e.key, Len(rows)) /\ e.key \notin D
      BY <1>5, <1>8, <1>9, <2>2
    <3>2. /\ rows \in Seq(RowType) /\ Len(rows) = Len(t.rows) + 1 /\ rows[Len(rows)] = blank
          /\ \A j \in 1 .. Len(t.rows) : rows[j] = t.rows[j]
      BY <1>2, <1>7, <3>1
    <3>3. /\ DOMAIN index = D \union {e.key} /\ index[e.key] = Len(rows) /\ index = [y \in D \union {e.key} |-> index[y]]
          /\ \A k \in D : k # e.key => index[k] = t.index[k]
      BY <1>1, <3>1 DEF With
    <3>4. Len(t.rows) \in Nat /\ Len(rows) \in Nat /\ Len(rows) \in 1 .. Len(rows)
      BY <1>2, <3>2
    <3>5. \A k \in D : index[k] = t.index[k] /\ index[k] \in Nat
      BY <1>2, <3>1, <3>3
    <3>6. \A k \in D \union {e.key} : index[k] \in Nat
      BY <3>3, <3>4, <3>5
    <3>7. index \in [D \union {e.key} -> Nat]
      BY <3>3, <3>6
    <3>8. rows[i] = blank /\ i = Len(rows)
      BY <1>10, <3>2, <3>3
    <3> QED BY <1>7, <3>1, <3>2, <3>3, <3>4, <3>5, <3>7, <3>8
  <2> QED BY <2>1, <2>2
<1>20. /\ row \in RowType /\ row.key = e.key /\ row.count = rows[i].count + (IF fresh THEN 1 ELSE 0)
  <2>1. rows[i] \in RowType
    BY <1>19
  <2>2. fresh \in BOOLEAN
    BY <1>4
  <2>3. row \in RowType /\ row.key = rows[i].key /\ row.count = rows[i].count + (IF fresh THEN 1 ELSE 0)
    <3>1. e \in EventType
      OBVIOUS
    <3> QED BY <1>11, <2>1, <2>2, <3>1, TouchedIs
  <2> QED BY <1>19, <2>3
<1>21. /\ new \in Seq(RowType) /\ Len(new) = Len(rows) /\ new[i] = row
       /\ \A j \in 1 .. Len(rows) : j # i => new[j] = rows[j]
  BY <1>14, <1>19, <1>20
<1>22. Merged(t, e, u)
  <2>1. WellFormed(u)
    <3>1. u = [rows |-> u.rows, index |-> u.index, seen |-> u.seen, ids |-> u.ids]
      BY <1>15, <1>16, Zenon
    <3>2. u.rows \in Seq(RowType) /\ u.seen \subseteq RequestIDs
      BY <1>2, <1>3, <1>16, <1>21
    <3>3. u.index \in [DOMAIN u.index -> Nat] /\ u.ids \in [DOMAIN u.index -> SUBSET RequestIDs]
      BY <1>16, <1>18, <1>19, Zenon
    <3>4. \A k \in DOMAIN u.index : k # NoKey
      BY <1>2, <1>16, <1>19
    <3> QED BY <3>1, <3>2, <3>3, <3>4, Zenon DEF WellFormed
  <2>2. /\ DOMAIN u.index = D \union {e.key} /\ \A k \in D : u.index[k] = t.index[k]
        /\ u.index[e.key] = i /\ u.rows[i] = row
    BY <1>10, <1>16, <1>19, <1>21
  <2>3. /\ e.key \in D => Len(u.rows) = Len(t.rows)
        /\ e.key \notin D => Len(u.rows) = Len(t.rows) + 1 /\ u.index[e.key] = Len(u.rows)
    BY <1>16, <1>19, <1>21, <2>2
  <2>4. \A j \in 1 .. Len(t.rows) : j # i => u.rows[j] = t.rows[j]
    <3>1. ASSUME NEW j \in 1 .. Len(t.rows), j # i PROVE u.rows[j] = t.rows[j]
      <4>1. j \in 1 .. Len(rows)
        <5>1. Len(t.rows) \in Nat /\ (Len(rows) = Len(t.rows) \/ Len(rows) = Len(t.rows) + 1)
          BY <1>2, <1>19
        <5> QED BY <5>1
      <4> QED BY <1>16, <1>19, <1>21, <3>1, <4>1
    <3> QED BY <3>1
  <2>5. row.count = (IF e.key \in D THEN t.rows[t.index[e.key]].count ELSE 0) + (IF e.id \in t.seen THEN 0 ELSE 1)
    <3>1. rows[i].count = (IF e.key \in D THEN t.rows[t.index[e.key]].count ELSE 0)
      BY <1>19, Zenon
    <3>2. (IF fresh THEN 1 ELSE 0) = (IF e.id \in t.seen THEN 0 ELSE 1)
      BY <1>4
    <3> QED BY <1>20, <3>1, <3>2, Zenon
  <2>6. u.seen = t.seen \union {e.id} /\ \A k \in D : k # e.key => u.ids[k] = t.ids[k]
    BY <1>16, <1>18
  <2>7. u.ids[e.key] = (IF e.key \in D THEN t.ids[e.key] ELSE {}) \union {e.id}
    BY <1>5, <1>12, <1>16, <1>18, Zenon
  <2> QED BY <1>1, <1>20, <2>1, <2>2, <2>3, <2>4, <2>5, <2>6, <2>7, Zenon DEF Merged
<1> QED BY <1>17, <1>22, Zenon

LEMMA RequestIDsAreFinite ==
    ASSUME NEW S, S \subseteq RequestIDs
    PROVE  IsFiniteSet(S)
<1>1. 1 \in Int /\ RequestN \in Int
  BY TableAssumption
<1>2. IsFiniteSet(1 .. RequestN)
  BY <1>1, FS_Interval, Zenon
<1> QED BY <1>2, FS_Subset DEF RequestIDs

\* Merging keeps the rows and the index together.
LEMMA MergedIndexed ==
    ASSUME NEW t, NEW e \in EventType, NEW u, WellFormed(t), Indexed(t), Merged(t, e, u)
    PROVE  Indexed(u)
<1>1. PICK D, i, n, m : D = DOMAIN t.index /\ i = u.index[e.key] /\ n = Len(t.rows) /\ m = Len(u.rows)
  BY Zenon
<1>2. n \in Nat /\ m \in Nat
  BY <1>1 DEF WellFormed, Merged
<1>3. /\ DOMAIN u.index = D \union {e.key} /\ \A k \in D : u.index[k] = t.index[k]
      /\ e.key \in D => m = n
      /\ e.key \notin D => m = n + 1 /\ i = m
      /\ \A j \in 1 .. n : j # i => u.rows[j] = t.rows[j]
      /\ u.rows[i].key = e.key
  BY <1>1, Zenon DEF Merged
<1>4. /\ \A j \in 1 .. n : t.rows[j].key \in D /\ t.index[t.rows[j].key] = j
      /\ \A k \in D : t.index[k] \in 1 .. n /\ t.rows[t.index[k]].key = k
  BY <1>1, Zenon DEF Indexed
<1>5. i \in 1 .. m
  <2>1. CASE e.key \in D
    BY <1>1, <1>3, <1>4, <2>1
  <2>2. CASE e.key \notin D
    BY <1>2, <1>3, <2>2
  <2> QED BY <2>1, <2>2
<1>6. ASSUME NEW j \in 1 .. m PROVE u.rows[j].key \in DOMAIN u.index /\ u.index[u.rows[j].key] = j
  <2>1. CASE j = i
    BY <1>1, <1>3, <2>1
  <2>2. CASE j # i
    <3>1. j \in 1 .. n
      BY <1>2, <1>3, <2>2
    <3>2. u.rows[j] = t.rows[j]
      BY <1>3, <2>2, <3>1
    <3> QED BY <1>3, <1>4, <3>1, <3>2
  <2> QED BY <2>1, <2>2
<1>7. ASSUME NEW k \in D \union {e.key} PROVE u.index[k] \in 1 .. m /\ u.rows[u.index[k]].key = k
  <2>1. CASE k = e.key
    BY <1>1, <1>3, <1>5, <2>1
  <2>2. CASE k # e.key
    <3>1. k \in D /\ u.index[k] = t.index[k] /\ t.index[k] \in 1 .. n /\ t.rows[t.index[k]].key = k
      BY <1>3, <1>4, <2>2
    <3>2. t.index[k] # i
      <4>1. CASE e.key \in D
        <5>1. i = t.index[e.key] /\ t.rows[t.index[e.key]].key = e.key
          BY <1>1, <1>3, <1>4, <4>1
        <5> QED BY <2>2, <3>1, <5>1, Zenon
      <4>2. CASE e.key \notin D
        BY <1>2, <1>3, <3>1, <4>2
      <4> QED BY <4>1, <4>2
    <3>3. n <= m
      BY <1>2, <1>3
    <3>4. u.rows[t.index[k]] = t.rows[t.index[k]] /\ t.index[k] \in 1 .. m
      BY <1>2, <1>3, <3>1, <3>2, <3>3
    <3> QED BY <3>1, <3>4
  <2> QED BY <2>1, <2>2
<1> QED BY <1>1, <1>3, <1>6, <1>7, Zenon DEF Indexed

\* It counts a request the first time it is seen; a request that was not redirected comes
\* under one key.
LEMMA MergedCounted ==
    ASSUME NEW t, NEW e \in EventType, NEW u, NEW plain, GoodTable(t, plain), Merged(t, e, u),
           e.id \in plain => \A k \in DOMAIN t.index : e.id \in t.ids[k] => k = e.key
    PROVE  Counted(u, plain)
<1>1. PICK D, key, id : D = DOMAIN t.index /\ key = e.key /\ id = e.id
  BY Zenon
<1>2. /\ DOMAIN u.index = D \union {key} /\ \A k \in D : u.index[k] = t.index[k]
      /\ \A j \in 1 .. Len(t.rows) : j # u.index[key] => u.rows[j] = t.rows[j]
      /\ u.rows[u.index[key]].count = (IF key \in D THEN t.rows[t.index[key]].count ELSE 0) + (IF id \in t.seen THEN 0 ELSE 1)
      /\ u.seen = t.seen \union {id}
      /\ \A k \in D : k # key => u.ids[k] = t.ids[k]
      /\ u.ids[key] = (IF key \in D THEN t.ids[key] ELSE {}) \union {id}
  BY <1>1, Zenon DEF Merged
<1>3. /\ \A k \in D : t.index[k] \in 1 .. Len(t.rows) /\ t.rows[t.index[k]].key = k
      /\ t.ids \in [D -> SUBSET RequestIDs] /\ Indexed(u)
      /\ \A k \in D : t.ids[k] \subseteq plain => t.rows[t.index[k]].count = Cardinality(t.ids[k])
      /\ \A r \in t.seen : \E k \in D : r \in t.ids[k]
      /\ \A k \in D : \A r \in t.ids[k] : r \in plain => r \in t.seen
      /\ \A k, l \in D : \A r \in plain : r \in t.ids[k] /\ r \in t.ids[l] => k = l
  <2>1. Indexed(u)
    BY MergedIndexed DEF GoodTable
  <2> QED BY <1>1, <2>1, Zenon DEF GoodTable, WellFormed, Indexed, Counted
<1>4. id \in plain => \A k \in D : id \in t.ids[k] => k = key
  BY <1>1
<1>5. ASSUME NEW k \in D \union {key}, u.ids[k] \subseteq plain PROVE u.rows[u.index[k]].count = Cardinality(u.ids[k])
  <2>1. CASE k # key
    <3>1. k \in D /\ u.ids[k] = t.ids[k] /\ u.index[k] = t.index[k]
      BY <1>2, <2>1
    <3>2. t.index[k] # u.index[key]
      <4>1. u.rows[u.index[key]].key = key /\ u.rows[u.index[k]].key = k
        BY <1>2, <1>3, <3>1 DEF Indexed
      <4> QED BY <2>1, <3>1, <4>1
    <3>3. u.rows[t.index[k]] = t.rows[t.index[k]]
      BY <1>2, <1>3, <3>1, <3>2
    <3> QED BY <1>3, <1>5, <3>1, <3>3
  <2>2. CASE k = key /\ key \in D
    <3>1. u.ids[key] = t.ids[key] \union {id} /\ id \in plain /\ t.ids[key] \subseteq plain
      BY <1>2, <1>5, <2>2
    <3>2. t.rows[t.index[key]].count = Cardinality(t.ids[key]) /\ IsFiniteSet(t.ids[key])
      BY <1>3, <2>2, <3>1, RequestIDsAreFinite
    <3>3. PICK c \in Nat : c = Cardinality(t.ids[key])
      BY <3>2, FS_CardinalityType
    <3>4. (id \in t.seen) = (id \in t.ids[key])
      BY <1>3, <1>4, <2>2, <3>1
    <3>5. Cardinality(u.ids[key]) = c + (IF id \in t.seen THEN 0 ELSE 1)
      <4>1. CASE id \in t.seen
        <5>1. u.ids[key] = t.ids[key]
          BY <3>1, <3>4, <4>1
        <5> QED BY <3>3, <4>1, <5>1
      <4>2. CASE id \notin t.seen
        <5>1. Cardinality(t.ids[key] \union {id}) = c + 1
          BY <3>2, <3>3, <3>4, <4>2, FS_AddElement
        <5> QED BY <3>1, <4>2, <5>1
      <4> QED BY <4>1, <4>2
    <3> QED BY <1>2, <2>2, <3>2, <3>3, <3>5
  <2>3. CASE k = key /\ key \notin D
    <3>1. u.ids[key] = {id} /\ id \in plain
      BY <1>2, <1>5, <2>3
    <3>2. id \notin t.seen
      BY <1>3, <1>4, <2>3, <3>1
    <3>3. Cardinality({id}) = 1
      BY FS_Singleton
    <3>4. u.rows[u.index[key]].count = 0 + 1
      BY <1>2, <2>3, <3>2, Zenon
    <3> QED BY <2>3, <3>1, <3>3, <3>4
  <2> QED BY <2>1, <2>2, <2>3
<1>6. \A k \in D : t.ids[k] \subseteq u.ids[k]
  BY <1>2
<1>7. ASSUME NEW r \in u.seen PROVE \E k \in D \union {key} : r \in u.ids[k]
  <2>1. CASE r = id
    BY <1>2, <2>1
  <2>2. CASE r # id
    BY <1>2, <1>3, <1>6, <1>7, <2>2
  <2> QED BY <2>1, <2>2
<1>8. ASSUME NEW k \in D \union {key}, NEW r \in u.ids[k] PROVE (k \in D /\ r \in t.ids[k]) \/ (k = key /\ r = id)
  BY <1>2, <1>8
<1>9. \A k \in D \union {key} : \A r \in u.ids[k] : r \in plain => r \in u.seen
  BY <1>2, <1>3, <1>8
<1>10. ASSUME NEW k \in D \union {key}, NEW l \in D \union {key}, NEW r \in plain, r \in u.ids[k], r \in u.ids[l] PROVE k = l
  <2>1. (k \in D /\ r \in t.ids[k]) \/ (k = key /\ r = id)
    BY <1>8, <1>10
  <2>2. (l \in D /\ r \in t.ids[l]) \/ (l = key /\ r = id)
    BY <1>8, <1>10
  <2> QED BY <1>3, <1>4, <1>10, <2>1, <2>2
<1>11. \A k, l \in D \union {key} : \A r \in plain : r \in u.ids[k] /\ r \in u.ids[l] => k = l
  BY <1>10
<1> QED BY <1>2, <1>5, <1>7, <1>9, <1>11, Zenon DEF Counted

\* One of the rows was seen longest ago.
LEMMA OldestIs ==
    ASSUME NEW rows \in Seq(RowType), Len(rows) > 0
    PROVE  Oldest(rows) \in 1 .. Len(rows)
<1>1. PICK n \in Nat : n = Len(rows) /\ DOMAIN rows = 1 .. n /\ 1 \in 1 .. n
  OBVIOUS
<1>2. ASSUME NEW j \in 1 .. n PROVE rows[j].last \in Nat
  <2>1. rows[j] \in RowType
    BY <1>1
  <2> QED BY <2>1 DEF RowType
<1>3. PICK T : T = {rows[j].last : j \in 1 .. n}
  BY Zenon
<1>4. T \in SUBSET Nat /\ T # {}
  BY <1>1, <1>2, <1>3
<1>5. PICK m \in T : \A x \in T : m <= x
  BY <1>4, LeastOf
<1>6. PICK S : S = {j \in 1 .. n : rows[j].last = m}
  BY Zenon
<1>7. S \in SUBSET Nat /\ S # {}
  BY <1>3, <1>5, <1>6
<1>8. PICK i \in S : \A x \in S : i <= x
  BY <1>7, LeastOf
<1>9. i \in 1 .. n /\ rows[i].last = m
  BY <1>6, <1>8
<1>10. ASSUME NEW j \in 1 .. n, j # i PROVE IsBefore(rows, i, j)
  <2>1. rows[j].last \in Nat /\ rows[i].last \in Nat /\ rows[i].last <= rows[j].last
    BY <1>2, <1>3, <1>5, <1>9
  <2>2. CASE rows[j].last = rows[i].last
    <3>1. i <= j
      BY <1>6, <1>8, <1>9, <2>2
    <3>2. i < j
      BY <1>9, <1>10, <3>1
    <3> QED BY <2>2, <3>2 DEF IsBefore
  <2>3. CASE rows[j].last # rows[i].last
    <3>1. \A x, y \in Nat : x <= y /\ y # x => x < y
      OBVIOUS
    <3>2. rows[i].last < rows[j].last
      BY <2>1, <2>3, <3>1, Zenon
    <3> QED BY <3>2, Zenon DEF IsBefore
  <2> QED BY <2>2, <2>3
<1>11. \E x \in DOMAIN rows : \A j \in DOMAIN rows : j # x => IsBefore(rows, x, j)
  BY <1>1, <1>9, <1>10, Zenon
<1>12. Oldest(rows) \in DOMAIN rows
  BY <1>11, Zenon DEF Oldest
<1> QED BY <1>1, <1>12

LEMMA RemoveAtIs ==
    ASSUME NEW rows \in Seq(RowType), NEW i \in 1 .. Len(rows)
    PROVE  /\ RemoveAt(rows, i) \in Seq(RowType) /\ Len(RemoveAt(rows, i)) = Len(rows) - 1
           /\ \A j \in 1 .. Len(rows) - 1 : RemoveAt(rows, i)[j] = IF j < i THEN rows[j] ELSE rows[j + 1]
<1>0. PICK rest : rest = RemoveAt(rows, i)
  BY Zenon
<1>1. PICK n \in Nat : n = Len(rows)
  OBVIOUS
<1>2. PICK a, b : a = SubSeq(rows, 1, i - 1) /\ b = SubSeq(rows, i + 1, n)
  BY Zenon
<1>3. a \in Seq(RowType) /\ Len(a) = i - 1 /\ \A j \in 1 .. i - 1 : a[j] = rows[j]
  BY <1>1, <1>2
<1>4. b \in Seq(RowType) /\ Len(b) = n - i /\ \A j \in 1 .. n - i : b[j] = rows[i + j]
  BY <1>1, <1>2
<1>5. rest = a \o b
  BY <1>0, <1>1, <1>2 DEF RemoveAt
<1>6. rest \in Seq(RowType) /\ Len(rest) = n - 1
  BY <1>1, <1>3, <1>4, <1>5
<1>7. ASSUME NEW j \in 1 .. n - 1 PROVE rest[j] = IF j < i THEN rows[j] ELSE rows[j + 1]
  <2>1. CASE j < i
    BY <1>1, <1>3, <1>4, <1>5, <2>1
  <2>2. CASE ~(j < i)
    <3>1. rest[j] = b[j - (i - 1)] /\ j - (i - 1) \in 1 .. n - i
      BY <1>1, <1>3, <1>4, <1>5, <2>2
    <3>2. b[j - (i - 1)] = rows[i + (j - (i - 1))] /\ i + (j - (i - 1)) = j + 1
      BY <1>4, <3>1
    <3> QED BY <2>2, <3>1, <3>2
  <2> QED BY <2>1, <2>2
<1> QED BY <1>0, <1>1, <1>6, <1>7

\* A row, its key and its IDs leave together.
LEMMA RemoveGood ==
    ASSUME NEW t, NEW plain, GoodTable(t, plain), NEW i \in 1 .. Len(t.rows), NEW u, u = removeRowAt(t, i)
    PROVE  /\ GoodTable(u, plain) /\ Len(u.rows) = Len(t.rows) - 1
           /\ DOMAIN u.index \subseteq DOMAIN t.index /\ \A k \in DOMAIN u.index : u.ids[k] = t.ids[k]
<1>1. PICK D, n, key : D = DOMAIN t.index /\ n = Len(t.rows) /\ key = t.rows[i].key
  BY Zenon
<1>2. /\ t = [rows |-> t.rows, index |-> t.index, seen |-> t.seen, ids |-> t.ids]
      /\ t.rows \in Seq(RowType) /\ t.seen \subseteq RequestIDs
      /\ t.index \in [D -> Nat] /\ t.ids \in [D -> SUBSET RequestIDs] /\ \A k \in D : k # NoKey
      /\ \A j \in 1 .. n : t.rows[j].key \in D /\ t.index[t.rows[j].key] = j
      /\ \A k \in D : t.index[k] \in 1 .. n /\ t.rows[t.index[k]].key = k
      /\ \A k \in D : t.ids[k] \subseteq plain => t.rows[t.index[k]].count = Cardinality(t.ids[k])
      /\ \A r \in t.seen : \E k \in D : r \in t.ids[k]
      /\ \A k \in D : \A r \in t.ids[k] : r \in plain => r \in t.seen
      /\ \A k, l \in D : \A r \in plain : r \in t.ids[k] /\ r \in t.ids[l] => k = l
  BY <1>1, Zenon DEF GoodTable, WellFormed, Indexed, Counted
<1>3. n \in Nat /\ i \in 1 .. n /\ key \in D /\ t.index[key] = i /\ DOMAIN t.ids = D
  BY <1>1, <1>2
<1>4. PICK rows : rows = RemoveAt(t.rows, i)
  BY Zenon
<1>5. /\ rows \in Seq(RowType) /\ Len(rows) = n - 1 /\ DOMAIN rows = 1 .. n - 1
      /\ \A j \in 1 .. n - 1 : rows[j] = IF j < i THEN t.rows[j] ELSE t.rows[j + 1]
  <2>1. /\ rows \in Seq(RowType) /\ Len(rows) = n - 1
        /\ \A j \in 1 .. n - 1 : rows[j] = IF j < i THEN t.rows[j] ELSE t.rows[j + 1]
    <3>1. /\ RemoveAt(t.rows, i) \in Seq(RowType) /\ Len(RemoveAt(t.rows, i)) = Len(t.rows) - 1
          /\ \A j \in 1 .. Len(t.rows) - 1 : RemoveAt(t.rows, i)[j] = IF j < i THEN t.rows[j] ELSE t.rows[j + 1]
      BY <1>2, RemoveAtIs
    <3> QED BY <1>1, <1>4, <3>1, Zenon
  <2> QED BY <2>1
<1>6. PICK keys : keys = {rows[j].key : j \in DOMAIN rows}
  BY Zenon
<1>7. PICK index : index = Places(rows)
  BY Zenon
<1>8. u.rows = rows /\ u.index = index /\ u.seen = t.seen \ t.ids[key] /\ u.ids = Without(t.ids, key)
      /\ u = [rows |-> u.rows, index |-> u.index, seen |-> u.seen, ids |-> u.ids]
  <2> DEFINE key2 == t.rows[i].key
             rows2 == RemoveAt(t.rows, i)
             index2 == Places(rows2)
  <2>1. u = [t EXCEPT !.rows = rows2, !.index = index2,
                      !.seen = IF key2 \in DOMAIN t.ids THEN @ \ t.ids[key2] ELSE @, !.ids = Without(@, key2)]
    BY Zenon DEF removeRowAt
  <2>2. rows2 = rows /\ key2 = key
    BY <1>1, <1>4, Zenon
  <2>3. index2 = index
    <3> HIDE DEF rows2
    <3> QED BY <1>7, <2>2, Zenon
  <2>5. PICK s, d : s = t.seen \ t.ids[key] /\ d = Without(t.ids, key)
    BY Zenon
  <2> HIDE DEF index2, rows2, key2
  <2>6. u = [t EXCEPT !.rows = rows, !.index = index,
                      !.seen = IF key \in DOMAIN t.ids THEN @ \ t.ids[key] ELSE @, !.ids = Without(@, key)]
    BY <2>1, <2>2, <2>3, Zenon
  <2>7. u = [rows |-> rows, index |-> index, seen |-> s, ids |-> d]
    BY <1>2, <1>3, <2>5, <2>6
  <2> QED BY <2>5, <2>7
<1>9. ASSUME NEW j \in 1 .. n - 1 PROVE /\ rows[j] = t.rows[IF j < i THEN j ELSE j + 1]
                                       /\ (IF j < i THEN j ELSE j + 1) \in 1 .. n /\ (IF j < i THEN j ELSE j + 1) # i
  BY <1>3, <1>5
<1>10. ASSUME NEW j \in 1 .. n, j # i PROVE /\ (IF j < i THEN j ELSE j - 1) \in 1 .. n - 1
                                            /\ rows[IF j < i THEN j ELSE j - 1] = t.rows[j]
  BY <1>3, <1>5, <1>10
<1>11. ASSUME NEW j \in 1 .. n - 1, NEW l \in 1 .. n - 1, rows[j].key = rows[l].key PROVE j = l
  <2>1. PICK a, b : a = (IF j < i THEN j ELSE j + 1) /\ b = (IF l < i THEN l ELSE l + 1)
    BY Zenon
  <2>2. a \in 1 .. n /\ b \in 1 .. n /\ t.rows[a].key = t.rows[b].key
    BY <1>9, <1>11, <2>1
  <2>3. a = b
    BY <1>2, <2>2
  <2> QED BY <1>3, <2>1, <2>3
<1>12. keys = D \ {key}
  <2>1. ASSUME NEW j \in 1 .. n - 1 PROVE rows[j].key \in D \ {key}
    <3>1. PICK a \in 1 .. n : a # i /\ rows[j] = t.rows[a]
      BY <1>9
    <3>2. a \in 1 .. n
      BY <3>1
    <3> QED BY <1>2, <1>3, <3>1, <3>2
  <2>2. ASSUME NEW k \in D \ {key} PROVE \E j \in 1 .. n - 1 : rows[j].key = k
    <3>1. t.index[k] \in 1 .. n /\ t.rows[t.index[k]].key = k
      BY <1>2
    <3>2. t.index[k] # i
      BY <1>1, <3>1
    <3> QED BY <1>10, <3>1, <3>2
  <2> QED BY <1>5, <1>6, <2>1, <2>2
<1>13. ASSUME NEW k \in keys PROVE index[k] \in 1 .. n - 1 /\ rows[index[k]].key = k
  <2>1. \E j \in DOMAIN rows : rows[j].key = k
    BY <1>6, <1>13
  <2>2. index[k] = CHOOSE j \in DOMAIN rows : rows[j].key = k
    BY <1>6, <1>7, <1>13 DEF Places
  <2> QED BY <1>5, <2>1, <2>2
<1>14. /\ DOMAIN u.index = keys /\ DOMAIN index = keys /\ index \in [keys -> Nat]
  <2>1. DOMAIN index = keys /\ index = [k \in keys |-> index[k]]
    BY <1>6, <1>7 DEF Places
  <2>2. \A k \in keys : index[k] \in Nat
    BY <1>13
  <2> QED BY <1>8, <2>1, <2>2
<1>15. \A k \in keys : u.ids[k] = t.ids[k]
  BY <1>3, <1>8, <1>12 DEF Without
<1>16. WellFormed(u)
  <2>1. u.ids \in [keys -> SUBSET RequestIDs]
    BY <1>2, <1>3, <1>8, <1>12 DEF Without
  <2>2. u.rows \in Seq(RowType) /\ u.seen \subseteq RequestIDs /\ \A k \in keys : k # NoKey
    BY <1>2, <1>5, <1>8, <1>12
  <2> QED BY <1>8, <1>14, <2>1, <2>2, Zenon DEF WellFormed
<1>17. Indexed(u)
  <2>1. ASSUME NEW j \in 1 .. n - 1 PROVE rows[j].key \in keys /\ index[rows[j].key] = j
    <3>1. rows[j].key \in keys
      BY <1>5, <1>6
    <3> QED BY <1>11, <1>13, <3>1
  <2> QED BY <1>5, <1>8, <1>13, <1>14, <2>1, Zenon DEF Indexed
<1>18. Counted(u, plain)
  <2>1. ASSUME NEW k \in keys PROVE u.rows[u.index[k]] = t.rows[t.index[k]]
    <3>1. PICK j \in 1 .. n - 1 : j = index[k] /\ rows[j].key = k
      BY <1>13, Zenon
    <3>2. PICK a \in 1 .. n : rows[j] = t.rows[a]
      BY <1>9, <3>1
    <3>3. t.index[k] = a
      BY <1>2, <3>1, <3>2
    <3> QED BY <1>8, <3>1, <3>2, <3>3
  <2>2. \A k \in keys : u.ids[k] \subseteq plain => u.rows[u.index[k]].count = Cardinality(u.ids[k])
    BY <1>2, <1>12, <1>15, <2>1
  <2>3. \A r \in u.seen : \E k \in keys : r \in u.ids[k]
    BY <1>2, <1>8, <1>12, <1>15
  <2>4. \A k \in keys : \A r \in u.ids[k] : r \in plain => r \in u.seen
    BY <1>2, <1>3, <1>8, <1>12, <1>15
  <2>5. \A k, l \in keys : \A r \in plain : r \in u.ids[k] /\ r \in u.ids[l] => k = l
    BY <1>2, <1>12, <1>15
  <2> QED BY <1>14, <2>2, <2>3, <2>4, <2>5, Zenon DEF Counted
<1> QED BY <1>1, <1>5, <1>8, <1>12, <1>14, <1>15, <1>16, <1>17, <1>18 DEF GoodTable

\* A message keeps the table in order; it adds its request to its row and no other.
LEMMA UpsertGood ==
    ASSUME NEW t, NEW plain, NEW e \in EventType, GoodTable(t, plain), Len(t.rows) <= RowN,
           e.key # NoKey /\ e.id \in plain => \A k \in DOMAIN t.index : e.id \in t.ids[k] => k = e.key
    PROVE  /\ GoodTable(Upsert(t, e), plain) /\ Len(Upsert(t, e).rows) <= RowN
           /\ \A k \in DOMAIN Upsert(t, e).index : \A r \in Upsert(t, e).ids[k] :
                 (k \in DOMAIN t.index /\ r \in t.ids[k]) \/ (k = e.key /\ r = e.id)
<1>1. CASE e.key = NoKey
  <2>1. Upsert(t, e) = t
    BY <1>1, Zenon DEF Upsert
  <2> QED BY <2>1
<1>2. CASE e.key # NoKey
  <2>1. PICK u : Merged(t, e, u) /\ Upsert(t, e) = pruneRows(u)
    BY <1>2, UpsertEffect DEF GoodTable
  <2>2. GoodTable(u, plain)
    <3>1. Counted(u, plain)
      BY <1>2, <2>1, MergedCounted
    <3>2. Indexed(u)
      BY <2>1, MergedIndexed DEF GoodTable
    <3> QED BY <2>1, <3>1, <3>2 DEF GoodTable, Merged
  <2>3. \A k \in DOMAIN u.index : \A r \in u.ids[k] : (k \in DOMAIN t.index /\ r \in t.ids[k]) \/ (k = e.key /\ r = e.id)
    <3>1. /\ DOMAIN u.index = DOMAIN t.index \union {e.key}
          /\ \A k \in DOMAIN t.index : k # e.key => u.ids[k] = t.ids[k]
          /\ u.ids[e.key] = (IF e.key \in DOMAIN t.index THEN t.ids[e.key] ELSE {}) \union {e.id}
      BY <2>1, Zenon DEF Merged
    <3> QED BY <3>1
  <2>4. PICK n \in Nat, m \in Nat : n = Len(t.rows) /\ m = Len(u.rows)
    <3>1. Len(t.rows) \in Nat /\ Len(u.rows) \in Nat
      BY <2>2 DEF GoodTable, WellFormed
    <3> QED BY <3>1, Zenon
  <2>5. m <= n + 1 /\ RowN \in Nat
    <3>1. m = n \/ m = n + 1
      BY <2>1, <2>4, Zenon DEF Merged
    <3> QED BY <2>4, <3>1, TableAssumption
  <2>6. CASE m > RowN
    <3>1. Upsert(t, e) = removeRowAt(u, Oldest(u.rows))
      BY <2>1, <2>4, <2>6, Zenon DEF pruneRows
    <3>2. Oldest(u.rows) \in 1 .. Len(u.rows)
      <4>1. u.rows \in Seq(RowType) /\ Len(u.rows) > 0
        BY <2>2, <2>4, <2>5, <2>6 DEF GoodTable, WellFormed
      <4> QED BY <4>1, OldestIs
    <3>3. PICK v : v = removeRowAt(u, Oldest(u.rows))
      BY Zenon
    <3>4. /\ GoodTable(v, plain) /\ Len(v.rows) = m - 1
          /\ DOMAIN v.index \subseteq DOMAIN u.index /\ \A k \in DOMAIN v.index : v.ids[k] = u.ids[k]
      <4>1. PICK o \in 1 .. Len(u.rows) : o = Oldest(u.rows)
        BY <3>2, Zenon
      <4>2. v = removeRowAt(u, o) /\ o \in 1 .. Len(u.rows)
        BY <3>3, <4>1, Zenon
      <4>3. /\ GoodTable(v, plain) /\ Len(v.rows) = Len(u.rows) - 1
            /\ DOMAIN v.index \subseteq DOMAIN u.index /\ \A k \in DOMAIN v.index : v.ids[k] = u.ids[k]
        BY <2>2, <4>2, RemoveGood
      <4> QED BY <2>4, <4>3, Zenon
    <3>5. Len(v.rows) <= RowN
      BY <2>4, <2>5, <3>4
    <3> QED BY <2>3, <3>1, <3>3, <3>4, <3>5, Zenon
  <2>7. CASE ~(m > RowN)
    <3>1. Upsert(t, e) = u
      BY <2>1, <2>4, <2>7, Zenon DEF pruneRows
    <3>2. Len(u.rows) <= RowN
      BY <2>4, <2>5, <2>7
    <3> QED BY <2>2, <2>3, <3>1, <3>2, Zenon
  <2> QED BY <2>6, <2>7
<1> QED BY <1>1, <1>2

\* A redirect only takes requests out of the account.
LEMMA GoodShrinks ==
    ASSUME NEW t, NEW plain, NEW fewer, fewer \subseteq plain, GoodTable(t, plain)
    PROVE  GoodTable(t, fewer)
BY DEF GoodTable, Counted
-----------------------------------------------------------------------------
(* The list.                                                               *)

\* The rows before row i.
RowsBefore(rows, kept, i) == {j \in kept : IsBefore(rows, j, i)}

\* The times of the last messages, and at the same time the positions, put rows in order.
LEMMA RowsInOrder ==
    ASSUME NEW rows \in Seq(RowType), NEW i \in DOMAIN rows, NEW j \in DOMAIN rows, NEW l \in DOMAIN rows
    PROVE  /\ ~IsBefore(rows, i, i)
           /\ i # j => IsBefore(rows, i, j) \/ IsBefore(rows, j, i)
           /\ IsBefore(rows, i, j) /\ IsBefore(rows, j, l) => IsBefore(rows, i, l)
<1>1. rows[i] \in RowType /\ rows[j] \in RowType /\ rows[l] \in RowType /\ i \in Nat /\ j \in Nat /\ l \in Nat
  OBVIOUS
<1>2. rows[i].last \in Nat /\ rows[j].last \in Nat /\ rows[l].last \in Nat
  BY <1>1 DEF RowType
<1>3. PICK a \in Nat, b \in Nat, c \in Nat : a = rows[i].last /\ b = rows[j].last /\ c = rows[l].last
  BY <1>2, Zenon
<1>4. /\ IsBefore(rows, i, i) = (a < a \/ (a = a /\ i < i))
      /\ IsBefore(rows, i, j) = (a < b \/ (a = b /\ i < j))
      /\ IsBefore(rows, j, i) = (b < a \/ (b = a /\ j < i))
      /\ IsBefore(rows, j, l) = (b < c \/ (b = c /\ j < l))
      /\ IsBefore(rows, i, l) = (a < c \/ (a = c /\ i < l))
  BY <1>3, Zenon DEF IsBefore
<1>5. /\ ~(a < a \/ (a = a /\ i < i))
      /\ i # j => (a < b \/ (a = b /\ i < j)) \/ (b < a \/ (b = a /\ j < i))
      /\ (a < b \/ (a = b /\ i < j)) /\ (b < c \/ (b = c /\ j < l)) => (a < c \/ (a = c /\ i < l))
  BY <1>1, <1>3
<1> QED BY <1>4, <1>5, Zenon

\* Every place of the list has exactly one row, and every row exactly one place.
LEMMA PlacesOfRows ==
    ASSUME NEW rows \in Seq(RowType), NEW kept \in SUBSET DOMAIN rows
    PROVE  /\ IsFiniteSet(kept) /\ Cardinality(kept) \in Nat
           /\ \A n \in 1 .. Cardinality(kept) : \E i \in kept : Cardinality(RowsBefore(rows, kept, i)) = n - 1
           /\ \A i \in kept : Cardinality(RowsBefore(rows, kept, i)) + 1 \in 1 .. Cardinality(kept)
           /\ \A i, j \in kept : Cardinality(RowsBefore(rows, kept, i)) = Cardinality(RowsBefore(rows, kept, j)) => i = j
<1>1. PICK len \in Nat : len = Len(rows) /\ DOMAIN rows = 1 .. len
  OBVIOUS
<1>2. IsFiniteSet(kept)
  <2>1. 1 \in Int /\ len \in Int
    BY <1>1
  <2>2. IsFiniteSet(1 .. len)
    BY <2>1, FS_Interval, Zenon
  <2> QED BY <1>1, <2>2, FS_Subset
<1>3. PICK c \in Nat : c = Cardinality(kept)
  BY <1>2, FS_CardinalityType
<1>4. ASSUME NEW i \in kept
      PROVE  /\ RowsBefore(rows, kept, i) \subseteq kept /\ IsFiniteSet(RowsBefore(rows, kept, i)) /\ Cardinality(RowsBefore(rows, kept, i)) \in Nat
             /\ Cardinality(RowsBefore(rows, kept, i)) < c
  <2>1. RowsBefore(rows, kept, i) \subseteq kept /\ i \notin RowsBefore(rows, kept, i)
    BY RowsInOrder DEF RowsBefore
  <2>2. IsFiniteSet(RowsBefore(rows, kept, i)) /\ Cardinality(RowsBefore(rows, kept, i)) \in Nat
    BY <1>2, <2>1, FS_Subset, FS_CardinalityType
  <2>3. Cardinality(RowsBefore(rows, kept, i)) <= c /\ Cardinality(RowsBefore(rows, kept, i)) # c
    BY <1>2, <1>3, <2>1, FS_Subset
  <2> QED BY <2>1, <2>2, <2>3
<1>5. ASSUME NEW i \in kept, NEW j \in kept, IsBefore(rows, i, j)
      PROVE  Cardinality(RowsBefore(rows, kept, i)) # Cardinality(RowsBefore(rows, kept, j))
  <2>1. RowsBefore(rows, kept, i) \subseteq RowsBefore(rows, kept, j)
    BY <1>5, RowsInOrder DEF RowsBefore
  <2>2. i \in RowsBefore(rows, kept, j) /\ i \notin RowsBefore(rows, kept, i)
    BY <1>5, RowsInOrder DEF RowsBefore
  <2> QED BY <1>4, <2>1, <2>2, FS_Subset
<1>6. ASSUME NEW i \in kept, NEW j \in kept, Cardinality(RowsBefore(rows, kept, i)) = Cardinality(RowsBefore(rows, kept, j)) PROVE i = j
  <2>1. i # j => IsBefore(rows, i, j) \/ IsBefore(rows, j, i)
    BY RowsInOrder
  <2> QED BY <1>5, <1>6, <2>1
<1>7. PICK rank : rank = [i \in kept |-> Cardinality(RowsBefore(rows, kept, i)) + 1]
  BY Zenon
<1>8. rank \in [kept -> 1 .. c] /\ \A i \in kept : rank[i] = Cardinality(RowsBefore(rows, kept, i)) + 1
  <2>1. \A i \in kept : Cardinality(RowsBefore(rows, kept, i)) + 1 \in 1 .. c
    BY <1>3, <1>4
  <2> QED BY <1>7, <2>1
<1>9. rank \in Injection(kept, 1 .. c)
  <2>1. \A i, j \in kept : rank[i] = rank[j] => i = j
    BY <1>4, <1>6, <1>8
  <2> QED BY <1>8, <2>1 DEF Injection, IsInjective
<1>10. IsFiniteSet(1 .. c) /\ Cardinality(1 .. c) = c
  <2>1. 1 \in Int /\ c \in Int
    BY <1>3
  <2>2. IsFiniteSet(1 .. c) /\ Cardinality(1 .. c) = IF 1 > c THEN 0 ELSE c - 1 + 1
    BY <2>1, FS_Interval, Zenon
  <2> QED BY <1>3, <2>2
<1>11. rank \in Surjection(kept, 1 .. c)
  BY <1>3, <1>9, <1>10, FS_Injection
<1>12. ASSUME NEW n \in 1 .. c PROVE \E i \in kept : Cardinality(RowsBefore(rows, kept, i)) = n - 1
  <2>1. PICK i \in kept : rank[i] = n
    BY <1>11 DEF Surjection
  <2> QED BY <1>3, <1>4, <1>8, <2>1
<1> QED BY <1>2, <1>3, <1>4, <1>6, <1>8, <1>12

\* L lists the rows the filter lets through: each one, once, in the order of their last messages.
Listed(t, filter, L) ==
    /\ L \in Seq(AnyKey)
    /\ \A n \in 1 .. Len(L) : L[n] \in DOMAIN t.index /\ (filter = "" \/ L[n][2] = filter)
    /\ \A k \in DOMAIN t.index : (filter = "" \/ k[2] = filter) => \E n \in 1 .. Len(L) : L[n] = k
    /\ \A m, n \in 1 .. Len(L) : m < n => IsBefore(t.rows, t.index[L[m]], t.index[L[n]])

LEMMA FilteredIs ==
    ASSUME NEW t, NEW filter, WellFormed(t), Indexed(t)
    PROVE  Listed(t, filter, filteredRows(t, filter))
<1>1. t.rows \in Seq(RowType) /\ \A i \in DOMAIN t.rows : t.rows[i] \in RowType /\ t.rows[i].key \in AnyKey
  <2>1. t.rows \in Seq(RowType)
    BY DEF WellFormed
  <2>2. ASSUME NEW i \in DOMAIN t.rows PROVE t.rows[i] \in RowType /\ t.rows[i].key \in AnyKey
    <3>1. t.rows[i] \in RowType
      BY <2>1
    <3> QED BY <3>1 DEF RowType
  <2> QED BY <2>1, <2>2
<1>2. /\ \A i \in DOMAIN t.rows : t.rows[i].key \in DOMAIN t.index /\ t.index[t.rows[i].key] = i
      /\ \A k \in DOMAIN t.index : t.index[k] \in DOMAIN t.rows /\ t.rows[t.index[k]].key = k
  BY <1>1 DEF Indexed
<1>3. PICK kept : kept = {i \in DOMAIN t.rows : filter = "" \/ t.rows[i].key[2] = filter}
  BY Zenon
<1>4. kept \in SUBSET DOMAIN t.rows
  BY <1>3
<1>5. PICK c \in Nat : c = Cardinality(kept)
  BY <1>1, <1>4, PlacesOfRows
<1>6. PICK pos : pos = [n \in 1 .. c |-> CHOOSE i \in kept : Cardinality(RowsBefore(t.rows, kept, i)) = n - 1]
  BY Zenon
<1>7. ASSUME NEW n \in 1 .. c PROVE pos[n] \in kept /\ Cardinality(RowsBefore(t.rows, kept, pos[n])) = n - 1
  <2>1. \E i \in kept : Cardinality(RowsBefore(t.rows, kept, i)) = n - 1
    BY <1>1, <1>4, <1>5, PlacesOfRows
  <2>2. pos[n] = CHOOSE i \in kept : Cardinality(RowsBefore(t.rows, kept, i)) = n - 1
    BY <1>6
  <2> QED BY <2>1, <2>2
<1>8. PICK rows : rows = Rows(t, kept)
  BY Zenon
<1>9. DOMAIN rows = 1 .. c /\ \A n \in 1 .. c : rows[n] = t.rows[pos[n]]
  <2>1. rows = [n \in 1 .. c |-> t.rows[CHOOSE i \in kept : Cardinality(RowsBefore(t.rows, kept, i)) = n - 1]]
    BY <1>5, <1>8, Zenon DEF Rows, RowsBefore
  <2>2. ASSUME NEW n \in 1 .. c PROVE rows[n] = t.rows[pos[n]]
    <3>1. rows[n] = t.rows[CHOOSE i \in kept : Cardinality(RowsBefore(t.rows, kept, i)) = n - 1]
      BY <2>1, Zenon
    <3>2. pos[n] = CHOOSE i \in kept : Cardinality(RowsBefore(t.rows, kept, i)) = n - 1
      BY <1>6, Zenon
    <3> QED BY <3>1, <3>2, Zenon
  <2>3. DOMAIN rows = 1 .. c
    BY <2>1, Zenon
  <2> QED BY <2>2, <2>3
<1>10. PICK L : L = filteredRows(t, filter)
  BY Zenon
<1>11. L = [n \in 1 .. c |-> t.rows[pos[n]].key]
  <2>1. L = [n \in DOMAIN rows |-> rows[n].key]
    BY <1>3, <1>8, <1>10, Zenon DEF filteredRows
  <2> QED BY <1>9, <2>1
<1>12. \A n \in 1 .. c : pos[n] \in DOMAIN t.rows /\ L[n] = t.rows[pos[n]].key /\ L[n] \in AnyKey
  BY <1>1, <1>4, <1>7, <1>11
<1>13. L \in Seq(AnyKey) /\ Len(L) = c
  <2>1. L = [n \in 1 .. c |-> L[n]]
    BY <1>11
  <2> QED BY <1>5, <1>12, <2>1
<1>14. \A n \in 1 .. c : L[n] \in DOMAIN t.index /\ t.index[L[n]] = pos[n] /\ (filter = "" \/ L[n][2] = filter)
  <2>1. ASSUME NEW n \in 1 .. c PROVE L[n] \in DOMAIN t.index /\ t.index[L[n]] = pos[n] /\ (filter = "" \/ L[n][2] = filter)
    <3>1. pos[n] \in DOMAIN t.rows /\ L[n] = t.rows[pos[n]].key
      BY <1>12
    <3>2. filter = "" \/ t.rows[pos[n]].key[2] = filter
      BY <1>3, <1>7, Zenon
    <3> QED BY <1>2, <3>1, <3>2, Zenon
  <2> QED BY <2>1
<1>15. ASSUME NEW k \in DOMAIN t.index, filter = "" \/ k[2] = filter PROVE \E n \in 1 .. c : L[n] = k
  <2>1. PICK i \in kept : t.rows[i].key = k
    BY <1>2, <1>3, <1>15
  <2>2. PICK n \in 1 .. c : n = Cardinality(RowsBefore(t.rows, kept, i)) + 1 /\ Cardinality(RowsBefore(t.rows, kept, i)) \in Nat
    <3>1. Cardinality(RowsBefore(t.rows, kept, i)) + 1 \in 1 .. c
      BY <1>1, <1>4, <1>5, PlacesOfRows
    <3>2. RowsBefore(t.rows, kept, i) \subseteq kept /\ IsFiniteSet(kept)
      BY <1>1, <1>4, PlacesOfRows DEF RowsBefore
    <3>3. Cardinality(RowsBefore(t.rows, kept, i)) \in Nat
      BY <3>2, FS_Subset, FS_CardinalityType
    <3> QED BY <3>1, <3>3, Zenon
  <2>3. Cardinality(RowsBefore(t.rows, kept, pos[n])) = Cardinality(RowsBefore(t.rows, kept, i)) /\ pos[n] \in kept
    BY <1>7, <2>2
  <2>4. pos[n] = i
    BY <1>1, <1>4, <2>3, PlacesOfRows
  <2> QED BY <1>12, <2>1, <2>4
<1>16. ASSUME NEW m \in 1 .. c, NEW n \in 1 .. c, m < n PROVE IsBefore(t.rows, pos[m], pos[n])
  <2>1. /\ pos[m] \in kept /\ Cardinality(RowsBefore(t.rows, kept, pos[m])) = m - 1
        /\ pos[n] \in kept /\ Cardinality(RowsBefore(t.rows, kept, pos[n])) = n - 1
    BY <1>7
  <2>2. pos[m] # pos[n]
    BY <1>16, <2>1
  <2>3. ~IsBefore(t.rows, pos[n], pos[m])
    <3>1. SUFFICES ASSUME IsBefore(t.rows, pos[n], pos[m]) PROVE FALSE
      OBVIOUS
    <3>2. RowsBefore(t.rows, kept, pos[n]) \subseteq RowsBefore(t.rows, kept, pos[m])
      BY <1>1, <1>4, <2>1, <3>1, RowsInOrder DEF RowsBefore
    <3>3. IsFiniteSet(RowsBefore(t.rows, kept, pos[m]))
      <4>1. RowsBefore(t.rows, kept, pos[m]) \subseteq kept /\ IsFiniteSet(kept)
        BY <1>1, <1>4, PlacesOfRows DEF RowsBefore
      <4> QED BY <4>1, FS_Subset
    <3>4. n - 1 <= m - 1
      BY <2>1, <3>2, <3>3, FS_Subset
    <3> QED BY <1>16, <3>4
  <2> QED BY <1>1, <1>4, <2>1, <2>2, <2>3, RowsInOrder
<1>17. Listed(t, filter, L)
  <2>1. \A m, n \in 1 .. c : m < n => IsBefore(t.rows, t.index[L[m]], t.index[L[n]])
    BY <1>14, <1>16
  <2> QED BY <1>13, <1>14, <1>15, <2>1, Zenon DEF Listed
<1> QED BY <1>10, <1>17

-----------------------------------------------------------------------------
(* The screen.                                                             *)

\* r is s with another selection.
SameList(s, r) == r \in ScreenType /\ r.shown = s.shown /\ r.filter = s.filter

\* A screen that lists the rows of t for the filter of s, with the selection in sight.
Synced(s, t, r) == r \in ScreenType /\ r.filter = s.filter /\ r.shown = filteredRows(t, s.filter) /\ Visible(r)

LEMMA ScreenFields ==
    ASSUME NEW s \in ScreenType
    PROVE  /\ s.shown \in Seq(AnyKey) /\ Len(s.shown) \in Nat /\ (s.shown = <<>> <=> Len(s.shown) = 0)
           /\ s.selected \in Nat /\ s.focused \in AnyKey /\ s.scroll \in Nat /\ s.detail \in BOOLEAN
<1>1. s.shown \in Seq(AnyKey) /\ s.selected \in Nat /\ s.focused \in AnyKey /\ s.scroll \in Nat /\ s.detail \in BOOLEAN
  BY DEF ScreenType
<1>2. \A q \in Seq(AnyKey) : Len(q) \in Nat /\ (q = <<>> <=> Len(q) = 0)
  OBVIOUS
<1> QED BY <1>1, <1>2, Zenon

\* The window moves to the selected line.
LEMMA ScrollIs ==
    ASSUME NEW s \in ScreenType, s.shown # <<>> => s.selected < Len(s.shown)
    PROVE  /\ SameList(s, syncScroll(s)) /\ syncScroll(s).selected = s.selected /\ syncScroll(s).focused = s.focused
           /\ s.shown # <<>> => syncScroll(s).scroll <= s.selected /\ s.selected < syncScroll(s).scroll + ListHeight
<1>1. PICK n \in Nat, i \in Nat, c \in Nat : n = Len(s.shown) /\ i = s.selected /\ c = s.scroll
  BY ScreenFields, Zenon
<1>2. PICK up \in Nat : up = (IF i < c THEN i ELSE c)
  BY <1>1
<1>3. PICK h \in Nat \ {0} : h = ListHeight
  BY TableAssumption
<1>4. PICK down \in Nat : down = (IF i >= up + h THEN i - h + 1 ELSE up)
  <2>1. (IF i >= up + h THEN i - h + 1 ELSE up) \in Nat
    BY <1>1, <1>2, <1>3
  <2> QED BY <2>1, Zenon
<1>5. PICK last \in Nat : last = (IF n > h THEN n - h ELSE 0)
  <2>1. (IF n > h THEN n - h ELSE 0) \in Nat
    BY <1>1, <1>3
  <2> QED BY <2>1, Zenon
<1>6. PICK scroll \in Nat : scroll = (IF s.shown = <<>> THEN 0 ELSE IF down > last THEN last ELSE down)
  <2>1. (IF s.shown = <<>> THEN 0 ELSE IF down > last THEN last ELSE down) \in Nat
    BY <1>4, <1>5
  <2> QED BY <2>1, Zenon
<1>7. syncScroll(s) = [s EXCEPT !.scroll = scroll]
  BY <1>1, <1>2, <1>3, <1>4, <1>5, <1>6, Zenon DEF syncScroll
<1>8. /\ SameList(s, syncScroll(s)) /\ syncScroll(s).selected = s.selected /\ syncScroll(s).focused = s.focused
      /\ syncScroll(s).scroll = scroll
  BY <1>6, <1>7 DEF SameList, ScreenType
<1>9. ASSUME s.shown # <<>> PROVE scroll <= i /\ i < scroll + h
  <2>1. scroll = (IF down > last THEN last ELSE down) /\ i < n
    BY <1>1, <1>6, <1>9
  <2>2. up <= i
    BY <1>1, <1>2
  <2>3. down <= i /\ i < down + h
    <3>1. CASE i >= up + h
      BY <1>1, <1>2, <1>3, <1>4, <3>1
    <3>2. CASE ~(i >= up + h)
      BY <1>1, <1>2, <1>3, <1>4, <2>2, <3>2
    <3> QED BY <3>1, <3>2
  <2>4. n <= last + h
    BY <1>1, <1>3, <1>5
  <2>5. CASE down > last
    <3>1. scroll = last
      BY <2>1, <2>5
    <3>2. i \in Nat /\ n \in Nat /\ h \in Nat /\ down \in Nat /\ last \in Nat /\ i < n
      BY <1>1, <1>3, <1>4, <1>5, <2>1
    <3>3. last <= i /\ i < last + h
      BY <2>3, <2>4, <2>5, <3>2
    <3> QED BY <3>1, <3>3
  <2>6. CASE ~(down > last)
    BY <2>1, <2>3, <2>6
  <2> QED BY <2>5, <2>6
<1> QED BY <1>1, <1>3, <1>8, <1>9

LEMMA ClampIs ==
    ASSUME NEW x \in Nat, NEW high \in Nat
    PROVE  Clamp(x, 0, high) \in 0 .. high
BY DEF Clamp

\* The selection is brought into the list, and is remembered.
LEMMA FocusIs ==
    ASSUME NEW s \in ScreenType, s.shown = <<>> => s.selected = 0
    PROVE  SameList(s, syncFocus(s)) /\ Visible(syncFocus(s))
<1>1. CASE s.shown = <<>>
  <2>1. syncFocus(s) = [s EXCEPT !.focused = NoKey]
    BY <1>1, Zenon DEF syncFocus
  <2>2. NoKey \in AnyKey
    BY DEF NoKey, AnyKey
  <2>3. SameList(s, syncFocus(s)) /\ syncFocus(s).focused = NoKey /\ syncFocus(s).selected = s.selected
    BY <2>1, <2>2 DEF SameList, ScreenType
  <2> QED BY <1>1, <2>3 DEF Visible, SameList
<1>2. CASE s.shown # <<>>
  <2>1. PICK n \in Nat : n = Len(s.shown) /\ n > 0
    BY <1>2, ScreenFields
  <2>2. PICK i \in 0 .. n - 1 : i = Clamp(s.selected, 0, n - 1)
    <3>1. s.selected \in Nat /\ n - 1 \in Nat
      BY <2>1, ScreenFields
    <3> QED BY <3>1, ClampIs, Zenon
  <2>3. PICK k \in AnyKey : k = s.shown[i + 1]
    <3>1. s.shown[i + 1] \in AnyKey
      BY <2>1, <2>2, ScreenFields
    <3> QED BY <3>1, Zenon
  <2>4. PICK q : q = [s EXCEPT !.selected = i, !.focused = k]
    BY Zenon
  <2>5. syncFocus(s) = syncScroll(q)
    BY <1>2, <2>1, <2>2, <2>3, <2>4, Zenon DEF syncFocus
  <2>6. SameList(s, q) /\ q.selected = i /\ q.focused = k
    <3>1. i \in Nat
      BY <2>1, <2>2
    <3> QED BY <2>3, <2>4, <3>1 DEF SameList, ScreenType
  <2>7. /\ q \in ScreenType /\ q.shown = s.shown /\ i < n /\ i >= 0
    BY <2>1, <2>2, <2>6 DEF SameList
  <2>8. /\ SameList(q, syncScroll(q)) /\ syncScroll(q).selected = i /\ syncScroll(q).focused = k
        /\ syncScroll(q).scroll <= i /\ i < syncScroll(q).scroll + ListHeight
    BY <1>2, <2>1, <2>6, <2>7, ScrollIs
  <2>9. syncScroll(q).shown = s.shown
    BY <2>7, <2>8 DEF SameList
  <2>10. Visible(syncScroll(q))
    BY <1>2, <2>1, <2>2, <2>3, <2>8, <2>9 DEF Visible
  <2>11. SameList(s, syncScroll(q))
    BY <2>6, <2>8 DEF SameList
  <2> QED BY <2>5, <2>10, <2>11
<1> QED BY <1>1, <1>2

\* After a message in the list the newest row is selected.
LEMMA BottomIs ==
    ASSUME NEW s \in ScreenType, NEW t, WellFormed(t), Indexed(t)
    PROVE  Synced(s, t, syncRowsToBottom(s, t))
<1>1. PICK shown \in Seq(AnyKey) : shown = filteredRows(t, s.filter)
  BY FilteredIs, Zenon DEF Listed
<1>2. NoKey \in AnyKey
  BY DEF NoKey, AnyKey
<1>3. CASE shown = <<>>
  <2>1. syncRowsToBottom(s, t) = [s EXCEPT !.shown = shown, !.selected = 0, !.focused = NoKey, !.scroll = 0]
    BY <1>1, <1>3, Zenon DEF syncRowsToBottom
  <2>2. PICK q : q = [s EXCEPT !.shown = shown, !.selected = 0, !.focused = NoKey, !.scroll = 0]
    BY Zenon
  <2>3. q \in ScreenType /\ q.shown = shown /\ q.filter = s.filter /\ q.selected = 0 /\ q.focused = NoKey
    BY <1>1, <1>2, <2>2 DEF ScreenType
  <2> QED BY <1>1, <1>3, <2>1, <2>2, <2>3, Zenon DEF Synced, Visible
<1>4. CASE shown # <<>>
  <2>1. PICK i \in Nat : i = Len(shown) - 1
    BY <1>1, <1>4
  <2>2. PICK q : q = [s EXCEPT !.shown = shown, !.selected = i]
    BY Zenon
  <2>3. syncRowsToBottom(s, t) = syncFocus(q)
    BY <1>1, <1>4, <2>1, <2>2, Zenon DEF syncRowsToBottom
  <2>4. q \in ScreenType /\ q.shown = shown /\ q.filter = s.filter
    BY <1>1, <2>1, <2>2 DEF ScreenType
  <2>5. SameList(q, syncFocus(q)) /\ Visible(syncFocus(q))
    BY <1>4, <2>4, FocusIs
  <2> QED BY <1>1, <2>3, <2>4, <2>5, Zenon DEF Synced, SameList
<1> QED BY <1>3, <1>4

\* In detail, and after a filter, the selection follows its row, or the nearest line is taken.
LEMMA SyncIs ==
    ASSUME NEW s \in ScreenType, NEW t, WellFormed(t), Indexed(t)
    PROVE  Synced(s, t, syncRows(s, t))
<1>1. PICK shown \in Seq(AnyKey) : shown = filteredRows(t, s.filter)
  BY FilteredIs, Zenon DEF Listed
<1>2. PICK focused \in AnyKey :
        focused = IF s.focused = NoKey /\ s.selected < Len(s.shown) THEN s.shown[s.selected + 1] ELSE s.focused
  <2>1. CASE s.focused = NoKey /\ s.selected < Len(s.shown)
    <3>1. s.shown[s.selected + 1] \in AnyKey
      BY <2>1, ScreenFields
    <3> QED BY <2>1, <3>1, Zenon
  <2>2. CASE ~(s.focused = NoKey /\ s.selected < Len(s.shown))
    BY <2>2, ScreenFields, Zenon
  <2> QED BY <2>1, <2>2
<1>3. PICK here : here = [s EXCEPT !.shown = shown, !.focused = focused]
  BY Zenon
<1>4. here \in ScreenType /\ here.shown = shown /\ here.focused = focused /\ here.filter = s.filter /\ here.selected = s.selected
  BY <1>1, <1>2, <1>3 DEF ScreenType
<1>5. CASE focused \in ToSet(shown)
  <2>1. PICK i \in DOMAIN shown : i = (CHOOSE j \in DOMAIN shown : shown[j] = focused) /\ shown[i] = focused
    <3>1. \E j \in DOMAIN shown : shown[j] = focused
      BY <1>5 DEF ToSet
    <3> QED BY <3>1, Zenon
  <2>2. i \in 1 .. Len(shown)
    BY <1>1, <2>1
  <2>3. PICK n \in Nat : n = i - 1
    BY <1>1, <2>2
  <2>4. PICK q : q = [here EXCEPT !.selected = n]
    BY Zenon
  <2>5. syncRows(s, t) = syncScroll(q)
    BY <1>1, <1>2, <1>3, <1>5, <2>1, <2>3, <2>4, Zenon DEF syncRows
  <2>6. q \in ScreenType /\ q.shown = shown /\ q.filter = s.filter /\ q.focused = focused /\ q.selected = n
    BY <1>4, <2>3, <2>4 DEF ScreenType
  <2>7. n < Len(shown) /\ n \in 0 .. Len(shown) - 1 /\ shown # <<>> /\ shown[n + 1] = focused
    BY <1>1, <2>1, <2>2, <2>3
  <2>8. /\ SameList(q, syncScroll(q)) /\ syncScroll(q).selected = n /\ syncScroll(q).focused = focused
        /\ syncScroll(q).scroll <= n /\ n < syncScroll(q).scroll + ListHeight
    BY <2>6, <2>7, ScrollIs
  <2>9. syncScroll(q).shown = shown /\ syncScroll(q).filter = s.filter /\ syncScroll(q) \in ScreenType
    BY <2>6, <2>8, Zenon DEF SameList
  <2>10. Visible(syncScroll(q))
    BY <2>7, <2>8, <2>9, Zenon DEF Visible
  <2> QED BY <1>1, <2>5, <2>9, <2>10, Zenon DEF Synced
<1>6. CASE focused \notin ToSet(shown)
  <2>1. PICK high \in Nat : high = (IF shown = <<>> THEN 0 ELSE Len(shown) - 1)
    <3>1. (IF shown = <<>> THEN 0 ELSE Len(shown) - 1) \in Nat
      BY <1>1
    <3> QED BY <3>1, Zenon
  <2>2. PICK n \in 0 .. high : n = Clamp(s.selected, 0, high)
    <3>1. s.selected \in Nat
      BY ScreenFields
    <3> QED BY <2>1, <3>1, ClampIs, Zenon
  <2>3. PICK q : q = [here EXCEPT !.selected = n]
    BY Zenon
  <2>4. syncRows(s, t) = syncScroll(syncFocus(q))
    <3>1. [here EXCEPT !.selected = Clamp(@, 0, IF shown = <<>> THEN 0 ELSE Len(shown) - 1)] = q
      BY <1>4, <2>1, <2>2, <2>3, Zenon DEF ScreenType
    <3> QED BY <1>1, <1>2, <1>3, <1>6, <3>1, Zenon DEF syncRows
  <2>5. q \in ScreenType /\ q.shown = shown /\ q.filter = s.filter /\ q.selected = n
    <3>1. n \in Nat
      BY <2>1, <2>2
    <3> QED BY <1>4, <2>3, <3>1 DEF ScreenType
  <2>6. shown = <<>> => n = 0
    BY <2>1, <2>2
  <2>7. PICK p : p = syncFocus(q)
    BY Zenon
  <2>8. SameList(q, p) /\ Visible(p)
    BY <2>5, <2>6, <2>7, FocusIs
  <2>9. p \in ScreenType /\ p.shown = shown /\ p.filter = s.filter
    BY <2>5, <2>8 DEF SameList
  <2>10. p.shown # <<>> => p.selected < Len(p.shown)
    <3>1. Len(p.shown) \in Nat
      BY <2>9, ScreenFields
    <3> QED BY <2>8, <3>1 DEF Visible
  <2>11. /\ SameList(p, syncScroll(p)) /\ syncScroll(p).selected = p.selected /\ syncScroll(p).focused = p.focused
         /\ p.shown # <<>> => syncScroll(p).scroll <= p.selected /\ p.selected < syncScroll(p).scroll + ListHeight
    BY <2>9, <2>10, ScrollIs
  <2>12. Visible(syncScroll(p))
    BY <2>8, <2>11, Zenon DEF Visible, SameList
  <2>13. syncScroll(p) \in ScreenType /\ syncScroll(p).shown = shown /\ syncScroll(p).filter = s.filter
    BY <2>9, <2>11, Zenon DEF SameList
  <2> QED BY <1>1, <2>4, <2>7, <2>12, <2>13, Zenon DEF Synced
<1> QED BY <1>5, <1>6

-----------------------------------------------------------------------------
(* The invariant holds at first.                                           *)

LEMMA NewTableGood ==
    GoodTable(NewTable, Plain) /\ Len(NewTable.rows) = 0 /\ DOMAIN NewTable.index = {}
<1>1. PICK t : t = NewTable
  BY Zenon
<1>2. t.rows = <<>> /\ t.index = [k \in {} |-> 0] /\ t.seen = {} /\ t.ids = [k \in {} |-> {}]
  BY <1>1 DEF NewTable
<1>3. t = [rows |-> t.rows, index |-> t.index, seen |-> t.seen, ids |-> t.ids]
  BY <1>1, <1>2, Zenon DEF NewTable
<1>4. t.rows \in Seq(RowType) /\ Len(t.rows) = 0
  BY <1>2
<1>5. DOMAIN t.index = {} /\ t.index \in [{} -> Nat] /\ t.ids \in [{} -> SUBSET RequestIDs]
  BY <1>2
<1>6. WellFormed(t)
  BY <1>2, <1>3, <1>4, <1>5 DEF WellFormed
<1>7. Indexed(t)
  BY <1>4, <1>5 DEF Indexed
<1>8. Counted(t, Plain)
  BY <1>2, <1>5 DEF Counted
<1> QED BY <1>1, <1>4, <1>5, <1>6, <1>7, <1>8 DEF GoodTable

LEMMA TableInitInv == TableInit => TableInv
<1> SUFFICES ASSUME TableInit PROVE TableInv
  OBVIOUS
<1>1. NoKey \in AnyKey /\ \A k \in AnyKey : k = k
  BY DEF NoKey, AnyKey
<1>2. PICK early \in SUBSET {1}, url \in Urls :
        browser = [r \in RequestIDs |-> IF r \in early THEN [state |-> "sent", url |-> url, redirects |-> 0]
                                                       ELSE [state |-> "new", url |-> url, redirects |-> 0]]
  BY Zenon DEF TableInit
<1>3. captured = [r \in RequestIDs |-> NoKey] /\ fetching = {} /\ messages = <<>> /\ clock = 0 /\ table = NewTable
  BY DEF TableInit
<1>4. screen = [shown |-> <<>>, selected |-> 0, focused |-> NoKey, scroll |-> 0, detail |-> FALSE, filter |-> ""]
  BY DEF TableInit
<1>5. browser \in [RequestIDs -> BrowserType]
  BY <1>2 DEF BrowserType
<1>6. screen \in ScreenType /\ screen.shown = <<>> /\ screen.focused = NoKey /\ screen.selected = 0 /\ screen.filter = ""
  <2>1. /\ screen.shown = <<>> /\ screen.focused = NoKey /\ screen.selected = 0 /\ screen.filter = ""
    BY <1>4
  <2>2. PICK none \in Seq(AnyKey), all \in Urls \union {""}, key \in AnyKey : none = <<>> /\ all = "" /\ key = NoKey
    <3>1. <<>> \in Seq(AnyKey) /\ "" \in Urls \union {""}
      OBVIOUS
    <3> QED BY <1>1, <3>1, Zenon
  <2>3. screen = [shown |-> none, selected |-> 0, focused |-> key, scroll |-> 0, detail |-> FALSE, filter |-> all]
    BY <1>4, <2>2, Zenon
  <2>4. [shown |-> none, selected |-> 0, focused |-> key, scroll |-> 0, detail |-> FALSE, filter |-> all] \in ScreenType
    BY <2>2 DEF ScreenType
  <2> QED BY <2>1, <2>3, <2>4, Zenon
<1>7. TableTypeOK
  <2>1. captured \in [RequestIDs -> AnyKey]
    BY <1>1, <1>3
  <2>2. fetching \subseteq EventType /\ messages \in Seq(EventType) /\ clock \in Nat
    BY <1>3
  <2> QED BY <1>5, <1>6, <2>1, <2>2 DEF TableTypeOK
<1>8. GoodTable(table, Plain) /\ Len(table.rows) <= RowN /\ DOMAIN table.index = {}
  <2>1. GoodTable(table, Plain) /\ Len(table.rows) = 0 /\ DOMAIN table.index = {}
    BY <1>3, NewTableGood, Zenon
  <2> QED BY <2>1, TableAssumption
<1>9. KeysOK
  <2>1. ASSUME NEW r \in RequestIDs, NEW k \in AnyKey \ {NoKey} PROVE ~KnownAs(r, k)
    BY <1>3, <1>8 DEF KnownAs
  <2>2. \A r \in RequestIDs : captured[r] = NoKey
    BY <1>3
  <2>3. \A r \in Plain : r \in RequestIDs
    BY DEF Plain
  <2> QED BY <2>1, <2>2, <2>3, Zenon DEF KeysOK
<1>10. ScreenOK
  <2>1. PICK L \in Seq(AnyKey) : L = filteredRows(table, "") /\ Listed(table, "", L)
    <3>1. Listed(table, "", filteredRows(table, ""))
      BY <1>8, FilteredIs DEF GoodTable
    <3> QED BY <3>1, Zenon DEF Listed
  <2>2. \A n \in 1 .. Len(L) : L[n] \in {}
    BY <1>8, <2>1 DEF Listed
  <2>3. L \in Seq(AnyKey) /\ Len(L) \in Nat
    <3>1. L \in Seq(AnyKey)
      BY <2>1, Zenon
    <3> QED BY <3>1
  <2>4. Len(L) = 0
    <3>1. Len(L) # 0 => 1 \in 1 .. Len(L)
      BY <2>3
    <3> QED BY <2>2, <3>1
  <2>5. L = <<>>
    BY <2>3, <2>4
  <2> QED BY <1>6, <2>1, <2>5, Zenon DEF ScreenOK, Visible
<1> QED BY <1>7, <1>8, <1>9, <1>10 DEF TableInv
-----------------------------------------------------------------------------
(* Every step keeps it.                                                    *)

\* Only the screen changes.
OnlyScreen == UNCHANGED <<browser, captured, fetching, messages, clock, table>>

LEMMA SameKeys ==
    ASSUME UNCHANGED <<browser, captured, fetching, messages, table>>
    PROVE  /\ Plain' = Plain /\ (KeysOK => KeysOK')
BY DEF KeysOK, KnownAs, Plain

LEMMA ScreenKeeps ==
    ASSUME TableInv, OnlyScreen, screen' \in ScreenType, screen'.shown = filteredRows(table, screen'.filter), Visible(screen')
    PROVE  TableInv'
<1>1. Plain' = Plain /\ KeysOK'
  BY SameKeys DEF OnlyScreen, TableInv
<1>2. TableTypeOK'
  BY DEF TableTypeOK, TableInv, OnlyScreen
<1>3. GoodTable(table, Plain)' /\ (Len(table.rows) <= RowN)'
  <2>1. table' = table /\ GoodTable(table, Plain) /\ Len(table.rows) <= RowN
    BY DEF TableInv, OnlyScreen
  <2> QED BY <1>1, <2>1, Zenon
<1>4. ScreenOK'
  <2>1. table' = table
    BY DEF OnlyScreen
  <2> QED BY <2>1, Zenon DEF ScreenOK
<1> QED BY <1>1, <1>2, <1>3, <1>4, Zenon DEF TableInv

\* What the key handlers start from.
LEMMA ScreenFacts ==
    ASSUME TableInv
    PROVE  /\ screen \in ScreenType /\ WellFormed(table) /\ Indexed(table)
           /\ screen.shown = filteredRows(table, screen.filter) /\ Visible(screen)
BY DEF TableInv, TableTypeOK, GoodTable, ScreenOK

LEMMA MovedKeeps ==
    ASSUME TableInv, NEW i \in Nat, screen.shown # <<>>, KeyPress(syncFocus([screen EXCEPT !.selected = i]))
    PROVE  TableInv'
<1>1. PICK q : q = [screen EXCEPT !.selected = i]
  BY Zenon
<1>2. q \in ScreenType /\ q.shown = screen.shown /\ q.filter = screen.filter
  BY <1>1, ScreenFacts DEF ScreenType
<1>3. SameList(q, syncFocus(q)) /\ Visible(syncFocus(q))
  BY <1>2, FocusIs
<1>4. screen' = syncFocus(q) /\ OnlyScreen
  BY <1>1, Zenon DEF KeyPress, OnlyScreen
<1>5. screen' \in ScreenType /\ screen'.shown = filteredRows(table, screen'.filter) /\ Visible(screen')
  BY <1>2, <1>3, <1>4, ScreenFacts, Zenon DEF SameList
<1> QED BY <1>4, <1>5, ScreenKeeps

LEMMA DetailKeeps ==
    ASSUME TableInv, NEW d \in BOOLEAN, KeyPress([screen EXCEPT !.detail = d])
    PROVE  TableInv'
<1>1. screen' = [screen EXCEPT !.detail = d] /\ OnlyScreen
  BY Zenon DEF KeyPress, OnlyScreen
<1>2. /\ screen' \in ScreenType /\ screen'.shown = screen.shown /\ screen'.filter = screen.filter
      /\ screen'.selected = screen.selected /\ screen'.focused = screen.focused /\ screen'.scroll = screen.scroll
  BY <1>1, ScreenFacts DEF ScreenType
<1>3. Visible(screen')
  BY <1>2, ScreenFacts, Zenon DEF Visible
<1>4. screen'.shown = filteredRows(table, screen'.filter)
  BY <1>2, ScreenFacts, Zenon
<1> QED BY <1>1, <1>2, <1>3, <1>4, ScreenKeeps

LEMMA RelistKeeps ==
    ASSUME TableInv, NEW filter \in Urls \union {""}, NEW s, s = [screen EXCEPT !.filter = filter],
           KeyPress(syncRows(s, table)) \/ KeyPress(syncRowsToBottom(s, table))
    PROVE  TableInv'
<1>1. s \in ScreenType /\ s.filter = filter
  BY ScreenFacts DEF ScreenType
<1>2. /\ Synced(s, table, syncRows(s, table)) /\ Synced(s, table, syncRowsToBottom(s, table))
  BY <1>1, ScreenFacts, SyncIs, BottomIs
<1>3. OnlyScreen /\ (screen' = syncRows(s, table) \/ screen' = syncRowsToBottom(s, table))
  BY Zenon DEF KeyPress, OnlyScreen
<1>4. Synced(s, table, screen')
  BY <1>2, <1>3, Zenon
<1>5. screen' \in ScreenType /\ screen'.shown = filteredRows(table, screen'.filter) /\ Visible(screen')
  BY <1>4, Zenon DEF Synced
<1> QED BY <1>3, <1>5, ScreenKeeps

\* The error that moveToNextError selects is a line of the list.
LEMMA NextErrorKeeps ==
    ASSUME TableInv, NextError
    PROVE  TableInv'
<1>1. PICK n, offsets : n = Len(screen.shown) /\ offsets = {d \in 1 .. n : Failed(screen.shown[((screen.selected + d) % n) + 1])}
  BY Zenon
<1>2. /\ offsets # {}
      /\ KeyPress(syncFocus([screen EXCEPT !.selected = (@ + (CHOOSE d \in offsets : \A e \in offsets : d <= e)) % n]))
  BY <1>1, Zenon DEF NextError
<1>3. PICK m : m = CHOOSE d \in offsets : \A e \in offsets : d <= e
  BY Zenon
<1>4. n \in Nat /\ screen.selected \in Nat
  BY <1>1, ScreenFacts, ScreenFields
<1>5. m \in 1 .. n
  <2>1. offsets \in SUBSET Nat /\ offsets \subseteq 1 .. n
    BY <1>1, <1>4
  <2>2. \E d \in offsets : \A e \in offsets : d <= e
    BY <1>2, <2>1, LeastOf
  <2>3. m \in offsets
    BY <1>3, <2>2, Zenon
  <2> QED BY <2>1, <2>3
<1>6. PICK i \in Nat : i = (screen.selected + m) % n
  BY <1>4, <1>5
<1>7. KeyPress(syncFocus([screen EXCEPT !.selected = i]))
  <2>1. [screen EXCEPT !.selected = (@ + m) % n] = [screen EXCEPT !.selected = i]
    BY <1>6
  <2> QED BY <1>2, <1>3, <2>1, Zenon
<1>8. screen.shown # <<>>
  <2>1. n # 0
    BY <1>4, <1>5
  <2> QED BY <1>1, <2>1, ScreenFacts, ScreenFields
<1>9. i \in Nat
  BY <1>6
<1> QED BY <1>7, <1>8, <1>9, MovedKeeps

\* A step by which request r becomes known under key, and nothing else becomes known.
LEMMA KeysStep ==
    ASSUME KeysOK, Plain' \subseteq Plain, NEW r, NEW key,
           \A q \in RequestIDs : \A k \in AnyKey \ {NoKey} : KnownAs(q, k)' => KnownAs(q, k) \/ (q = r /\ k = key),
           r \in Plain' /\ key # NoKey => \A k \in AnyKey \ {NoKey} : KnownAs(r, k) => k = key,
           \A q \in RequestIDs : browser'[q].state \in {"new", "sent"} /\ captured'[q] = NoKey =>
              browser[q].state \in {"new", "sent"} /\ captured[q] = NoKey /\ (q # r \/ key = NoKey),
           \A q \in RequestIDs : browser'[q].state = "new" => captured'[q] = NoKey
    PROVE  KeysOK'
<1>1. \A q \in Plain' : q \in RequestIDs /\ q \in Plain
  BY DEF Plain
<1>2. ASSUME NEW q \in Plain', NEW k \in AnyKey \ {NoKey}, NEW l \in AnyKey \ {NoKey}, KnownAs(q, k)', KnownAs(q, l)' PROVE k = l
  <2>1. q \in RequestIDs /\ q \in Plain /\ q \in Plain' /\ k # NoKey /\ l # NoKey
    BY <1>1, <1>2
  <2>2. KnownAs(q, k) \/ (q = r /\ k = key)
    BY <1>2, <2>1
  <2>3. KnownAs(q, l) \/ (q = r /\ l = key)
    BY <1>2, <2>1
  <2>4. KnownAs(q, k) /\ KnownAs(q, l) => k = l
    BY <2>1 DEF KeysOK
  <2> QED BY <2>1, <2>2, <2>3, <2>4
<1>3. ASSUME NEW q \in RequestIDs, browser'[q].state \in {"new", "sent"}, captured'[q] = NoKey, NEW k \in AnyKey \ {NoKey} PROVE ~KnownAs(q, k)'
  <2>1. browser[q].state \in {"new", "sent"} /\ captured[q] = NoKey /\ (q # r \/ key = NoKey)
    BY <1>3
  <2>2. ~KnownAs(q, k)
    BY <2>1 DEF KeysOK
  <2> QED BY <2>1, <2>2
<1> QED BY <1>2, <1>3 DEF KeysOK

\* Chrome's events leave the table and the screen alone.
LEMMA ListenKeeps ==
    ASSUME TableInv, UNCHANGED <<table, screen>>, Plain' \subseteq Plain, KeysOK', TableTypeOK'
    PROVE  TableInv'
<1>1. table' = table /\ screen' = screen /\ GoodTable(table, Plain) /\ Len(table.rows) <= RowN /\ ScreenOK
  BY DEF TableInv
<1>2. GoodTable(table', Plain')
  <2>1. PICK t, p, q : t = table /\ p = Plain /\ q = Plain'
    BY Zenon
  <2>2. GoodTable(t, q)
    BY <1>1, <2>1, GoodShrinks
  <2> QED BY <1>1, <2>1, <2>2, Zenon
<1>3. ScreenOK'
  BY <1>1, Zenon DEF ScreenOK
<1> QED BY <1>1, <1>2, <1>3, Zenon DEF TableInv

LEMMA BrowserIs ==
    ASSUME TableInv, NEW r \in RequestIDs
    PROVE  browser[r] \in BrowserType /\ captured[r] \in AnyKey /\ browser[r].url \in Urls /\ browser[r].redirects \in Nat
BY DEF TableInv, TableTypeOK, BrowserType

LEMMA MessageIs ==
    ASSUME NEW kind \in {"request", "response", "failure", "body"}, NEW r \in RequestIDs, NEW key \in AnyKey, NEW now \in Nat
    PROVE  Message(kind, r, key, now) \in EventType /\ Message(kind, r, key, now).id = r /\ Message(kind, r, key, now).key = key
BY DEF Message, EventType

LEMMA KeyIs ==
    ASSUME NEW url \in Urls, NEW method \in {"GET", "-"}
    PROVE  Key(method, url) \in AnyKey /\ Key(method, url) # NoKey
BY DEF Key, AnyKey, NoKey

\* One more message from request r on the channel.
LEMMA DeliverKnows ==
    ASSUME TableInv, NEW kind \in {"request", "response", "failure", "body"}, NEW r \in RequestIDs, NEW key \in AnyKey,
           Deliver(kind, r, key), UNCHANGED <<fetching, table>>, NEW to \in AnyKey, to = key \/ to = NoKey,
           captured' = [captured EXCEPT ![r] = to]
    PROVE  /\ messages' \in Seq(EventType) /\ clock' \in Nat /\ captured' \in [RequestIDs -> AnyKey]
           /\ \A q \in RequestIDs : \A k \in AnyKey \ {NoKey} : KnownAs(q, k)' => KnownAs(q, k) \/ (q = r /\ k = key)
<1>1. clock \in Nat /\ messages \in Seq(EventType) /\ captured \in [RequestIDs -> AnyKey]
  BY DEF TableInv, TableTypeOK
<1>2. PICK m \in EventType : m = Message(kind, r, key, clock + 1) /\ m.id = r /\ m.key = key
  BY <1>1, MessageIs
<1>3. messages' = Append(messages, m) /\ clock' = clock + 1
  BY <1>2 DEF Deliver
<1>4. messages' \in Seq(EventType) /\ clock' \in Nat /\ captured' \in [RequestIDs -> AnyKey]
  BY <1>1, <1>2, <1>3
<1>5. ASSUME NEW q \in RequestIDs, NEW k \in AnyKey \ {NoKey}, KnownAs(q, k)' PROVE KnownAs(q, k) \/ (q = r /\ k = key)
  <2>1. CASE captured'[q] = k
    BY <1>1, <2>1 DEF KnownAs
  <2>2. CASE \E e \in fetching' : e.id = q /\ e.key = k
    BY <2>2 DEF KnownAs
  <2>3. CASE \E n \in 1 .. Len(messages') : messages'[n].id = q /\ messages'[n].key = k
    <3>1. PICK n \in 1 .. Len(messages') : messages'[n].id = q /\ messages'[n].key = k
      BY <2>3
    <3>2. n \in 1 .. Len(messages) => messages'[n] = messages[n]
      BY <1>1, <1>2, <1>3
    <3>3. n \notin 1 .. Len(messages) => messages'[n] = m
      BY <1>1, <1>2, <1>3, <3>1
    <3> QED BY <1>2, <3>1, <3>2, <3>3, Zenon DEF KnownAs
  <2>4. CASE k \in DOMAIN table'.index /\ q \in table'.ids[k]
    BY <2>4 DEF KnownAs
  <2> QED BY <1>5, <2>1, <2>2, <2>3, <2>4, Zenon DEF KnownAs
<1> QED BY <1>4, <1>5

LEMMA RequestWillBeSentKeeps ==
    ASSUME TableInv, NEW r \in RequestIDs, NEW url \in Urls, RequestWillBeSent(r, url)
    PROVE  TableInv'
<1>1. PICK key \in AnyKey : key = Key("GET", url) /\ key # NoKey
  BY KeyIs
<1>2. /\ browser[r].state \in {"new", "sent"} /\ captured' = [captured EXCEPT ![r] = key] /\ Deliver("request", r, key)
      /\ browser' = [browser EXCEPT ![r] = [state |-> "sent", url |-> url,
                                            redirects |-> @.redirects + (IF @.state = "sent" THEN 1 ELSE 0)]]
      /\ UNCHANGED <<fetching, table, screen>>
  BY <1>1, Zenon DEF RequestWillBeSent
<1>3. PICK n \in Nat : n = browser[r].redirects + (IF browser[r].state = "sent" THEN 1 ELSE 0)
  <2>1. browser[r].redirects + (IF browser[r].state = "sent" THEN 1 ELSE 0) \in Nat
    BY BrowserIs
  <2> QED BY <2>1, Zenon
<1>4. PICK b : b = [state |-> "sent", url |-> url, redirects |-> n]
  BY Zenon
<1>5. browser \in [RequestIDs -> BrowserType] /\ browser' = [browser EXCEPT ![r] = b] /\ b \in BrowserType /\ b.redirects = n /\ b.state = "sent"
  <2>1. b \in BrowserType /\ b.redirects = n /\ b.state = "sent"
    BY <1>3, <1>4 DEF BrowserType
  <2>2. browser \in [RequestIDs -> BrowserType]
    BY DEF TableInv, TableTypeOK
  <2>3. browser' = [browser EXCEPT ![r] = b]
    BY <1>2, <1>3, <1>4, <2>2, Zenon
  <2> QED BY <2>1, <2>2, <2>3
<1>6. browser' \in [RequestIDs -> BrowserType] /\ browser'[r] = b /\ \A q \in RequestIDs : q # r => browser'[q] = browser[q]
  BY <1>5
<1>7. /\ messages' \in Seq(EventType) /\ clock' \in Nat /\ captured' \in [RequestIDs -> AnyKey]
      /\ \A q \in RequestIDs : \A k \in AnyKey \ {NoKey} : KnownAs(q, k)' => KnownAs(q, k) \/ (q = r /\ k = key)
  BY <1>1, <1>2, DeliverKnows
<1>8. TableTypeOK'
  BY <1>2, <1>6, <1>7 DEF TableInv, TableTypeOK
<1>9. /\ Plain' \subseteq Plain /\ (r \in Plain' => browser[r].state = "new")
  <2>1. n = 0 => browser[r].redirects = 0 /\ browser[r].state # "sent"
    BY <1>3, BrowserIs
  <2>2. r \in Plain' => n = 0
    BY <1>5, <1>6 DEF Plain
  <2>3. \A q \in Plain' : q \in RequestIDs /\ (q # r => q \in Plain)
    BY <1>6 DEF Plain
  <2>4. r \in Plain' => r \in Plain /\ browser[r].state = "new"
    BY <1>2, <2>1, <2>2 DEF Plain
  <2> QED BY <2>3, <2>4
<1>10. KeysOK'
  <2>1. KeysOK /\ captured \in [RequestIDs -> AnyKey]
    BY DEF TableInv, TableTypeOK
  <2>2. r \in Plain' /\ key # NoKey => \A k \in AnyKey \ {NoKey} : KnownAs(r, k) => k = key
    <3>1. browser[r].state = "new" => \A k \in AnyKey \ {NoKey} : ~KnownAs(r, k)
      BY <2>1 DEF KeysOK
    <3> QED BY <1>9, <3>1
  <2>3. captured'[r] = key /\ \A q \in RequestIDs : q # r => captured'[q] = captured[q]
    BY <1>2, <2>1
  <2>4. \A q \in RequestIDs : browser'[q].state \in {"new", "sent"} /\ captured'[q] = NoKey =>
              browser[q].state \in {"new", "sent"} /\ captured[q] = NoKey /\ (q # r \/ key = NoKey)
    BY <1>1, <1>6, <2>3
  <2>5. \A q \in RequestIDs : browser'[q].state = "new" => captured'[q] = NoKey
    <3>1. \A q \in RequestIDs : browser[q].state = "new" => captured[q] = NoKey
      BY <2>1 DEF KeysOK
    <3> QED BY <1>5, <1>6, <2>3, <3>1
  <2> QED BY <1>7, <1>9, <2>1, <2>2, <2>4, <2>5, KeysStep
<1> QED BY <1>2, <1>8, <1>9, <1>10, ListenKeeps

\* A step after which nothing new is known.
LEMMA KeysSame ==
    ASSUME KeysOK, Plain' = Plain, UNCHANGED <<browser, captured>>,
           \A q \in RequestIDs : \A k \in AnyKey \ {NoKey} : KnownAs(q, k)' => KnownAs(q, k)
    PROVE  KeysOK'
<1>1. PICK r, key : r = 0 /\ key = NoKey
  BY Zenon
<1>2. Plain' \subseteq Plain
  OBVIOUS
<1>3. \A q \in RequestIDs : \A k \in AnyKey \ {NoKey} : KnownAs(q, k)' => KnownAs(q, k) \/ (q = r /\ k = key)
  OBVIOUS
<1>4. \A q \in RequestIDs : browser'[q].state \in {"new", "sent"} /\ captured'[q] = NoKey =>
              browser[q].state \in {"new", "sent"} /\ captured[q] = NoKey /\ (q # r \/ key = NoKey)
  BY <1>1
<1>5. \A q \in RequestIDs : browser'[q].state = "new" => captured'[q] = NoKey
  BY DEF KeysOK
<1> QED BY <1>1, <1>2, <1>3, <1>4, <1>5, KeysStep

\* A request that is answered or over is not redirected any more.
LEMMA StateIs ==
    ASSUME TableInv, NEW r \in RequestIDs, NEW st \in {"answered", "over"}, browser' = [browser EXCEPT ![r].state = st]
    PROVE  /\ browser' \in [RequestIDs -> BrowserType] /\ Plain' = Plain /\ browser'[r].state = st
           /\ \A q \in RequestIDs : q # r => browser'[q] = browser[q]
<1>1. browser \in [RequestIDs -> BrowserType] /\ browser[r] \in BrowserType
  BY DEF TableInv, TableTypeOK
<1>2. PICK b : b = [browser[r] EXCEPT !.state = st]
  BY Zenon
<1>3. b \in BrowserType /\ b.state = st /\ b.redirects = browser[r].redirects
  BY <1>1, <1>2 DEF BrowserType
<1>4. browser' = [browser EXCEPT ![r] = b]
  BY <1>1, <1>2
<1>5. /\ browser' \in [RequestIDs -> BrowserType] /\ browser'[r] = b
      /\ \A q \in RequestIDs : q # r => browser'[q] = browser[q]
  BY <1>1, <1>3, <1>4
<1>6. \A q \in RequestIDs : browser'[q].redirects = browser[q].redirects
  BY <1>3, <1>5
<1>7. Plain' = Plain
  BY <1>6 DEF Plain
<1> QED BY <1>3, <1>5, <1>7

\* Request r comes to state st, and the listener then has key to for it.
Comes(r, st, to) == browser' = [browser EXCEPT ![r].state = st] /\ captured' = [captured EXCEPT ![r] = to]

\* The listener tells of a request under the key it has for it, if it has one.
LEMMA ToldKeeps ==
    ASSUME TableInv, NEW r \in RequestIDs, NEW st \in {"answered", "over"}, NEW key, NEW to,
           Comes(r, st, to), to \in AnyKey,
           captured[r] # NoKey => key = captured[r], captured[r] = NoKey /\ key # NoKey => browser[r].state = "sent",
           \A q \in RequestIDs : \A k \in AnyKey \ {NoKey} : KnownAs(q, k)' => KnownAs(q, k) \/ (q = r /\ k = key),
           fetching' \subseteq EventType, messages' \in Seq(EventType), clock' \in Nat, UNCHANGED <<table, screen>>
    PROVE  TableInv'
<1>1. /\ browser' \in [RequestIDs -> BrowserType] /\ Plain' = Plain /\ browser'[r].state = st
      /\ \A q \in RequestIDs : q # r => browser'[q] = browser[q]
  BY StateIs DEF Comes
<1>2. captured \in [RequestIDs -> AnyKey] /\ KeysOK /\ screen \in ScreenType
  BY DEF TableInv, TableTypeOK
<1>3. captured' \in [RequestIDs -> AnyKey] /\ captured'[r] = to /\ \A q \in RequestIDs : q # r => captured'[q] = captured[q]
  BY <1>2 DEF Comes
<1>4. TableTypeOK'
  BY <1>1, <1>2, <1>3 DEF TableTypeOK
<1>5. r \in Plain' /\ key # NoKey => \A k \in AnyKey \ {NoKey} : KnownAs(r, k) => k = key
  <2>1. CASE captured[r] = NoKey
    BY <1>2, <2>1 DEF KeysOK
  <2>2. CASE captured[r] # NoKey
    <3>1. key = captured[r] /\ key \in AnyKey \ {NoKey} /\ KnownAs(r, key)
      BY <1>2, <2>2 DEF KnownAs
    <3> QED BY <1>1, <1>2, <3>1 DEF KeysOK
  <2> QED BY <2>1, <2>2
<1>6. \A q \in RequestIDs : browser'[q].state \in {"new", "sent"} /\ captured'[q] = NoKey =>
              browser[q].state \in {"new", "sent"} /\ captured[q] = NoKey /\ (q # r \/ key = NoKey)
  <2>1. st \notin {"new", "sent"}
    OBVIOUS
  <2> QED BY <1>1, <1>3, <2>1
<1>7. \A q \in RequestIDs : browser'[q].state = "new" => captured'[q] = NoKey
  <2>1. \A q \in RequestIDs : browser[q].state = "new" => captured[q] = NoKey
    BY <1>2 DEF KeysOK
  <2>2. st # "new"
    OBVIOUS
  <2> QED BY <1>1, <1>3, <2>1, <2>2
<1>8. KeysOK'
  <2>1. Plain' \subseteq Plain
    BY <1>1
  <2> QED BY <1>2, <1>5, <1>6, <1>7, <2>1, KeysStep
<1> QED BY <1>1, <1>4, <1>8, ListenKeeps

LEMMA ResponseReceivedKeeps ==
    ASSUME TableInv, NEW r \in RequestIDs, ResponseReceived(r)
    PROVE  TableInv'
<1>1. PICK key : key = IF captured[r] = NoKey THEN Key("-", browser[r].url) ELSE captured[r]
  BY Zenon
<1>2. key \in AnyKey
  BY <1>1, BrowserIs, KeyIs
<1>3. /\ browser[r].state = "sent" /\ browser' = [browser EXCEPT ![r].state = "answered"]
      /\ captured' = [captured EXCEPT ![r] = key] /\ Deliver("response", r, key) /\ UNCHANGED <<fetching, table, screen>>
  BY <1>1, Zenon DEF ResponseReceived
<1>4. /\ messages' \in Seq(EventType) /\ clock' \in Nat
      /\ \A q \in RequestIDs : \A k \in AnyKey \ {NoKey} : KnownAs(q, k)' => KnownAs(q, k) \/ (q = r /\ k = key)
  <2>1. PICK kind \in {"request", "response", "failure", "body"} : kind = "response"
    OBVIOUS
  <2>2. Deliver(kind, r, key) /\ UNCHANGED <<fetching, table>> /\ (key = key \/ key = NoKey)
    BY <1>3, <2>1
  <2> QED BY <1>2, <1>3, <2>1, <2>2, DeliverKnows
<1>5. fetching' \subseteq EventType
  BY <1>3 DEF TableInv, TableTypeOK
<1>6. captured[r] # NoKey => key = captured[r]
  BY <1>1
<1>7. PICK st \in {"answered", "over"} : st = "answered"
  OBVIOUS
<1> QED BY <1>2, <1>3, <1>4, <1>5, <1>6, <1>7, ToldKeeps DEF Comes

LEMMA LoadingFailedKeeps ==
    ASSUME TableInv, NEW r \in RequestIDs, LoadingFailed(r)
    PROVE  TableInv'
<1>1. PICK key : key = captured[r]
  BY Zenon
<1>2. key \in AnyKey /\ NoKey \in AnyKey
  BY <1>1, BrowserIs DEF AnyKey, NoKey
<1>3. /\ browser' = [browser EXCEPT ![r].state = "over"]
      /\ captured' = [captured EXCEPT ![r] = NoKey] /\ Deliver("failure", r, key) /\ UNCHANGED <<fetching, table, screen>>
  BY <1>1, Zenon DEF LoadingFailed
<1>4. /\ messages' \in Seq(EventType) /\ clock' \in Nat
      /\ \A q \in RequestIDs : \A k \in AnyKey \ {NoKey} : KnownAs(q, k)' => KnownAs(q, k) \/ (q = r /\ k = key)
  BY <1>2, <1>3, DeliverKnows
<1>5. fetching' \subseteq EventType
  BY <1>3 DEF TableInv, TableTypeOK
<1>6. (captured[r] # NoKey => key = captured[r]) /\ ~(captured[r] = NoKey /\ key # NoKey)
  BY <1>1
<1>7. PICK st \in {"answered", "over"} : st = "over"
  OBVIOUS
<1> QED BY <1>2, <1>3, <1>4, <1>5, <1>6, <1>7, ToldKeeps DEF Comes

LEMMA LoadingFinishedKeeps ==
    ASSUME TableInv, NEW r \in RequestIDs, LoadingFinished(r)
    PROVE  TableInv'
<1>1. PICK key : key = captured[r]
  BY Zenon
<1>2. key \in AnyKey /\ NoKey \in AnyKey
  BY <1>1, BrowserIs DEF AnyKey, NoKey
<1>3. /\ browser' = [browser EXCEPT ![r].state = "over"] /\ clock' = clock + 1
      /\ captured' = [captured EXCEPT ![r] = NoKey] /\ fetching' = fetching \union {Message("body", r, key, clock + 1)}
      /\ UNCHANGED <<messages, table, screen>>
  BY <1>1, Zenon DEF LoadingFinished
<1>4. clock \in Nat /\ messages \in Seq(EventType) /\ fetching \subseteq EventType /\ captured \in [RequestIDs -> AnyKey]
  BY DEF TableInv, TableTypeOK
<1>5. PICK m \in EventType : m = Message("body", r, key, clock + 1) /\ m.id = r /\ m.key = key
  BY <1>2, <1>4, MessageIs
<1>6. fetching' = fetching \union {m} /\ fetching' \subseteq EventType /\ messages' \in Seq(EventType) /\ clock' \in Nat
  BY <1>3, <1>4, <1>5
<1>7. ASSUME NEW q \in RequestIDs, NEW k \in AnyKey \ {NoKey}, KnownAs(q, k)' PROVE KnownAs(q, k) \/ (q = r /\ k = key)
  <2>1. CASE captured'[q] = k
    BY <1>3, <1>4, <2>1 DEF KnownAs
  <2>2. CASE \E e \in fetching' : e.id = q /\ e.key = k
    BY <1>5, <1>6, <2>2 DEF KnownAs
  <2>3. CASE \E n \in 1 .. Len(messages') : messages'[n].id = q /\ messages'[n].key = k
    BY <1>3, <2>3 DEF KnownAs
  <2>4. CASE k \in DOMAIN table'.index /\ q \in table'.ids[k]
    BY <1>3, <2>4 DEF KnownAs
  <2> QED BY <1>7, <2>1, <2>2, <2>3, <2>4, Zenon DEF KnownAs
<1>8. (captured[r] # NoKey => key = captured[r]) /\ ~(captured[r] = NoKey /\ key # NoKey)
  BY <1>1
<1>9. PICK st \in {"answered", "over"} : st = "over"
  OBVIOUS
<1> QED BY <1>2, <1>3, <1>6, <1>7, <1>8, <1>9, ToldKeeps DEF Comes

LEMMA BodyFetchedKeeps ==
    ASSUME TableInv, NEW m \in fetching, BodyFetched(m)
    PROVE  TableInv'
<1>1. /\ fetching' = fetching \ {m} /\ messages' = Append(messages, m) /\ UNCHANGED <<browser, captured, clock, table, screen>>
  BY DEF BodyFetched
<1>2. m \in EventType /\ messages \in Seq(EventType) /\ fetching \subseteq EventType
  BY DEF TableInv, TableTypeOK
<1>3. TableTypeOK'
  <2>1. messages' \in Seq(EventType) /\ fetching' \subseteq EventType
    BY <1>1, <1>2
  <2> QED BY <1>1, <2>1 DEF TableTypeOK, TableInv
<1>4. ASSUME NEW q \in RequestIDs, NEW k \in AnyKey \ {NoKey}, KnownAs(q, k)' PROVE KnownAs(q, k)
  <2>1. CASE captured'[q] = k
    BY <1>1, <2>1 DEF KnownAs
  <2>2. CASE \E e \in fetching' : e.id = q /\ e.key = k
    BY <1>1, <2>2 DEF KnownAs
  <2>3. CASE \E n \in 1 .. Len(messages') : messages'[n].id = q /\ messages'[n].key = k
    <3>1. PICK n \in 1 .. Len(messages') : messages'[n].id = q /\ messages'[n].key = k
      BY <2>3
    <3>2. n \in 1 .. Len(messages) => messages'[n] = messages[n]
      BY <1>1, <1>2
    <3>3. n \notin 1 .. Len(messages) => messages'[n] = m
      BY <1>1, <1>2, <3>1
    <3> QED BY <3>1, <3>2, <3>3, Zenon DEF KnownAs
  <2>4. CASE k \in DOMAIN table'.index /\ q \in table'.ids[k]
    BY <1>1, <2>4 DEF KnownAs
  <2> QED BY <1>4, <2>1, <2>2, <2>3, <2>4, Zenon DEF KnownAs
<1>5. Plain' = Plain
  BY <1>1 DEF Plain
<1>6. KeysOK'
  BY <1>1, <1>4, <1>5, KeysSame DEF TableInv
<1> QED BY <1>1, <1>3, <1>5, <1>6, ListenKeeps

\* The index has the keys of the rows.
LEMMA KeysOfTable ==
    ASSUME NEW t, WellFormed(t), Indexed(t), NEW k \in DOMAIN t.index
    PROVE  k \in AnyKey \ {NoKey}
<1>1. t.index[k] \in 1 .. Len(t.rows) /\ t.rows[t.index[k]].key = k /\ t.rows \in Seq(RowType) /\ k # NoKey
  BY DEF WellFormed, Indexed
<1>2. t.rows[t.index[k]] \in RowType
  BY <1>1
<1> QED BY <1>1, <1>2 DEF RowType

LEMMA HandleMessageKeeps ==
    ASSUME TableInv, HandleMessage
    PROVE  TableInv'
<1>1. PICK e, t, u : e = Head(messages) /\ t = table /\ u = Upsert(t, e)
  BY Zenon
<1>2. /\ messages # <<>> /\ messages' = Tail(messages) /\ table' = u
      /\ screen' = IF screen.detail THEN syncRows(screen, u) ELSE syncRowsToBottom(screen, u)
      /\ UNCHANGED <<browser, captured, fetching, clock>>
  BY <1>1, Zenon DEF HandleMessage
<1>3. messages \in Seq(EventType) /\ Len(messages) \in Nat /\ 1 \in 1 .. Len(messages)
  <2>1. messages \in Seq(EventType)
    BY DEF TableInv, TableTypeOK
  <2> QED BY <1>2, <2>1
<1>4. e = messages[1] /\ e \in EventType
  BY <1>1, <1>2, <1>3
<1>5. /\ messages' \in Seq(EventType) /\ \A n \in 1 .. Len(messages') : n + 1 \in 1 .. Len(messages) /\ messages'[n] = messages[n + 1]
  BY <1>2, <1>3
<1>6. e.id \in RequestIDs /\ e.key \in AnyKey
  BY <1>4 DEF EventType
<1>7. GoodTable(t, Plain) /\ Len(t.rows) <= RowN /\ WellFormed(t) /\ Indexed(t) /\ KeysOK
  BY <1>1 DEF TableInv, GoodTable
<1>8. KnownAs(e.id, e.key)
  BY <1>3, <1>4 DEF KnownAs
<1>9. e.key # NoKey /\ e.id \in Plain => \A k \in DOMAIN t.index : e.id \in t.ids[k] => k = e.key
  <2>1. SUFFICES ASSUME e.key # NoKey, e.id \in Plain, NEW k \in DOMAIN t.index, e.id \in t.ids[k] PROVE k = e.key
    OBVIOUS
  <2>2. k \in AnyKey \ {NoKey} /\ e.key \in AnyKey \ {NoKey}
    BY <1>6, <1>7, <2>1, KeysOfTable
  <2>3. KnownAs(e.id, k)
    BY <1>1, <2>1 DEF KnownAs
  <2> QED BY <1>7, <1>8, <2>1, <2>2, <2>3 DEF KeysOK
<1>10. PICK p : p = Plain
  BY Zenon
<1>11. /\ GoodTable(u, p) /\ Len(u.rows) <= RowN
       /\ \A k \in DOMAIN u.index : \A r \in u.ids[k] : (k \in DOMAIN t.index /\ r \in t.ids[k]) \/ (k = e.key /\ r = e.id)
  <2>1. GoodTable(t, p) /\ (e.key # NoKey /\ e.id \in p => \A k \in DOMAIN t.index : e.id \in t.ids[k] => k = e.key)
    BY <1>7, <1>9, <1>10, Zenon
  <2>2. e \in EventType
    BY <1>4
  <2>3. /\ GoodTable(Upsert(t, e), p) /\ Len(Upsert(t, e).rows) <= RowN
        /\ \A k \in DOMAIN Upsert(t, e).index : \A r \in Upsert(t, e).ids[k] :
                 (k \in DOMAIN t.index /\ r \in t.ids[k]) \/ (k = e.key /\ r = e.id)
    BY <1>7, <2>1, <2>2, UpsertGood
  <2> QED BY <1>1, <2>3, Zenon
<1>12. Plain' = p
  BY <1>2, <1>10 DEF Plain
<1>13. ASSUME NEW q \in RequestIDs, NEW k \in AnyKey \ {NoKey}, KnownAs(q, k)' PROVE KnownAs(q, k)
  <2>1. CASE captured'[q] = k
    BY <1>2, <2>1 DEF KnownAs
  <2>2. CASE \E m \in fetching' : m.id = q /\ m.key = k
    BY <1>2, <2>2 DEF KnownAs
  <2>3. CASE \E n \in 1 .. Len(messages') : messages'[n].id = q /\ messages'[n].key = k
    BY <1>5, <2>3, Zenon DEF KnownAs
  <2>4. CASE k \in DOMAIN table'.index /\ q \in table'.ids[k]
    <3>1. (k \in DOMAIN t.index /\ q \in t.ids[k]) \/ (k = e.key /\ q = e.id)
      BY <1>2, <1>11, <2>4
    <3> QED BY <1>1, <1>8, <3>1 DEF KnownAs
  <2> QED BY <1>13, <2>1, <2>2, <2>3, <2>4, Zenon DEF KnownAs
<1>14. KeysOK'
  BY <1>2, <1>7, <1>10, <1>12, <1>13, KeysSame
<1>15. Synced(screen, u, screen')
  <2>1. screen \in ScreenType /\ WellFormed(u) /\ Indexed(u)
    BY <1>11, ScreenFacts DEF GoodTable
  <2>2. Synced(screen, u, syncRows(screen, u)) /\ Synced(screen, u, syncRowsToBottom(screen, u))
    BY <2>1, SyncIs, BottomIs
  <2> QED BY <1>2, <2>2, Zenon
<1>16. screen' \in ScreenType /\ ScreenOK'
  BY <1>2, <1>15, Zenon DEF Synced, ScreenOK
<1>17. TableTypeOK'
  BY <1>2, <1>5, <1>16 DEF TableTypeOK, TableInv
<1> QED BY <1>2, <1>11, <1>12, <1>14, <1>16, <1>17, Zenon DEF TableInv

LEMMA TableStutter ==
    ASSUME TableInv, UNCHANGED tableVars
    PROVE  TableInv'
<1>1. OnlyScreen /\ screen' = screen
  BY DEF tableVars, OnlyScreen
<1>2. screen' \in ScreenType /\ screen'.shown = filteredRows(table, screen'.filter) /\ Visible(screen')
  BY <1>1, ScreenFacts, Zenon
<1> QED BY <1>1, <1>2, ScreenKeeps

LEMMA TableNextKeeps ==
    ASSUME TableInv, TableNext
    PROVE  TableInv'
<1>1. CASE \E r \in RequestIDs : \/ \E url \in Urls : RequestWillBeSent(r, url)
                                 \/ ResponseReceived(r) \/ LoadingFailed(r) \/ LoadingFinished(r)
  BY <1>1, RequestWillBeSentKeeps, ResponseReceivedKeeps, LoadingFailedKeeps, LoadingFinishedKeeps
<1>2. CASE \E m \in fetching : BodyFetched(m)
  BY <1>2, BodyFetchedKeeps
<1>3. CASE HandleMessage
  BY <1>3, HandleMessageKeeps
<1>4. CASE OpenDetail
  <2>1. PICK d \in BOOLEAN : d = TRUE
    OBVIOUS
  <2> QED BY <1>4, <2>1, DetailKeeps DEF OpenDetail
<1>5. CASE CloseDetail
  <2>1. PICK d \in BOOLEAN : d = FALSE
    OBVIOUS
  <2> QED BY <1>5, <2>1, DetailKeeps DEF CloseDetail
<1>6. CASE NextError
  BY <1>6, NextErrorKeeps
<1>7. CASE ResetScreen
  <2>1. PICK filter \in Urls \union {""} : filter = ""
    OBVIOUS
  <2>2. PICK s : s = [screen EXCEPT !.filter = filter]
    BY Zenon
  <2>3. KeyPress(syncRows(s, table)) \/ KeyPress(syncRowsToBottom(s, table))
    BY <1>7, <2>1, <2>2, Zenon DEF ResetScreen
  <2>4. filter \in Urls \union {""}
    BY <2>1
  <2> QED BY <2>2, <2>3, <2>4, RelistKeeps
<1>8. CASE \E i \in 0 .. RowN : MoveTo(i)
  <2>1. PICK i \in 0 .. RowN : MoveTo(i)
    BY <1>8
  <2>2. i \in 0 .. Len(screen.shown) - 1 /\ KeyPress(syncFocus([screen EXCEPT !.selected = i]))
    BY <2>1 DEF MoveTo
  <2>3. screen.shown # <<>> /\ i \in Nat
    BY <2>1, <2>2, ScreenFacts, ScreenFields
  <2> QED BY <2>2, <2>3, MovedKeeps
<1>9. CASE \E filter \in Urls \union {""} : ChangeFilter(filter)
  <2>1. PICK filter \in Urls \union {""} : ChangeFilter(filter)
    BY <1>9
  <2>2. PICK s : s = [screen EXCEPT !.filter = filter]
    BY Zenon
  <2>3. KeyPress(syncRows(s, table)) \/ KeyPress(syncRowsToBottom(s, table))
    BY <2>1, <2>2, Zenon DEF ChangeFilter
  <2>4. filter \in Urls \union {""}
    BY <2>1
  <2> QED BY <2>2, <2>3, <2>4, RelistKeeps
<1> QED BY <1>1, <1>2, <1>3, <1>4, <1>5, <1>6, <1>7, <1>8, <1>9, Zenon DEF TableNext

\* Whatever Chrome reports, in which order the bodies come in, whatever is evicted and
\* typed: index and counts agree with the rows, each request that was not redirected
\* stays with one row, and the selection is on the screen.
THEOREM TableInvariant == TableSpec => []TableInv
<1>1. TableInv /\ [TableNext]_tableVars => TableInv'
  BY TableNextKeeps, TableStutter
<1> QED BY <1>1, TableInitInv, PTL DEF TableSpec

LEMMA InvConsistent == TableInv => TableIsConsistent
<1> SUFFICES ASSUME TableInv PROVE TableIsConsistent
  OBVIOUS
<1>1. /\ WellFormed(table) /\ Indexed(table) /\ Counted(table, Plain) /\ Len(table.rows) <= RowN /\ ScreenOK
  BY DEF TableInv, GoodTable
<1>2. table.rows \in Seq(RowType) /\ DOMAIN table.rows = 1 .. Len(table.rows)
  BY <1>1 DEF WellFormed
<1>3. IndexMatchesRows
  <2>1. DOMAIN table.index = {table.rows[i].key : i \in DOMAIN table.rows}
    <3>1. \A i \in DOMAIN table.rows : table.rows[i].key \in DOMAIN table.index
      BY <1>1, <1>2 DEF Indexed
    <3>2. \A k \in DOMAIN table.index : \E i \in DOMAIN table.rows : table.rows[i].key = k
      BY <1>1, <1>2 DEF Indexed
    <3> QED BY <3>1, <3>2
  <2>2. \A i \in DOMAIN table.rows : table.index[table.rows[i].key] = i
    BY <1>1, <1>2 DEF Indexed
  <2> QED BY <1>1, <2>1, <2>2 DEF IndexMatchesRows
<1>4. RequestsCountedOnce
  <2>1. DOMAIN table.ids = DOMAIN table.index /\ \A k \in DOMAIN table.index : table.ids[k] \subseteq RequestIDs
    BY <1>1 DEF WellFormed
  <2>2. ASSUME NEW i \in DOMAIN table.rows, \A r \in table.ids[table.rows[i].key] : browser[r].redirects = 0
        PROVE  table.rows[i].count = Cardinality(table.ids[table.rows[i].key])
    <3>1. PICK k \in DOMAIN table.index : k = table.rows[i].key /\ table.index[k] = i
      BY <1>1, <1>2 DEF Indexed
    <3>2. table.ids[k] \subseteq Plain
      BY <2>1, <2>2, <3>1 DEF Plain
    <3>3. table.rows[table.index[k]].count = Cardinality(table.ids[k])
      BY <1>1, <3>1, <3>2 DEF Counted
    <3> QED BY <3>1, <3>3
  <2>3. table.seen \subseteq UNION {table.ids[k] : k \in DOMAIN table.ids}
    BY <1>1, <2>1 DEF Counted
  <2> QED BY <2>1, <2>2, <2>3, Zenon DEF RequestsCountedOnce
<1>5. SelectionIsVisible
  BY <1>1, Zenon DEF ScreenOK, Visible, SelectionIsVisible
<1> QED BY <1>3, <1>4, <1>5 DEF TableIsConsistent

\* Rows, index, counts and selection of the request table agree after every message,
\* eviction and key, with any number of requests, redirects, rows and lines.
THEOREM TableConsistent == TableSpec => []TableIsConsistent
BY TableInvariant, InvConsistent, PTL

\* The list on the screen has every row its filter lets through, once, the oldest first.
ListIsComplete == Listed(table, screen.filter, screen.shown)

\* No row is missing from the list, repeated or out of order, after any message,
\* eviction, late body, filter or key: what filteredRows computes is a sorted list of
\* exactly the matching rows, and the screen shows that list.
THEOREM ListComplete == TableSpec => []ListIsComplete
<1>1. TableInv => ListIsComplete
  BY ScreenFacts, FilteredIs, Zenon DEF ListIsComplete
<1> QED BY <1>1, TableInvariant, PTL
=============================================================================
