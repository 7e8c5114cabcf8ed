------------------------- MODULE PaneRegistryProofs -------------------------
(***************************************************************************)
(* Proofs about PaneRegistry for every set of panes, sessions, tabs and    *)
(* callers and every value of its bounds.                                  *)
(***************************************************************************)
EXTENDS PaneRegistry, SequenceTheorems, TLAPS

-----------------------------------------------------------------------------
(* The inductive invariant                                                 *)

\* The k-th row waiting in the writer is a row of the table panes, for pane id.
PaneRow(k, id) == pending[k].table = "panes" /\ pending[k].id = id

\* Generation g stands for pane id in memory, in the FIFO or on disk.
Holds(id, g) ==
    \/ up = "up" /\ panes[id].gen = g
    \/ db.panes[id].gen = g
    \/ \E k \in DOMAIN pending : PaneRow(k, id) /\ pending[k].value.gen = g

\* A generation belongs to one pane ID, wherever it is found.
OneOwner ==
    \A g \in Nat \ {0} : \A i, j \in PaneIDs : Holds(i, g) /\ Holds(j, g) => i = j

\* The counter of a running registry is ahead of everything that may be stored.
CounterAhead ==
    up = "up" =>
        /\ db.gen <= nextGeneration
        /\ \A id \in PaneIDs, g \in Nat : Holds(id, g) => g <= nextGeneration
        /\ \A k \in DOMAIN pending : pending[k].table = "metadata" => pending[k].gen <= nextGeneration

\* The rows of the counter grow, and each pane row is followed by the counter that
\* accounts for it.
CounterRows ==
    /\ \A k \in DOMAIN pending : pending[k].table = "metadata"
          => /\ db.gen <= pending[k].gen
             /\ \A j \in DOMAIN pending : pending[j].table = "metadata" /\ j <= k
                    => pending[j].gen <= pending[k].gen
    /\ \A k \in DOMAIN pending : pending[k].table = "panes"
          => /\ k + 1 \in DOMAIN pending /\ pending[k + 1].table = "metadata"
             /\ pending[k].value.gen <= pending[k + 1].gen

\* Until the first crash the stored counter is behind the disk only while the row
\* that corrects it is the next one.
MarkCatchesUp ==
    crashes = 0 =>
        \/ committed <= db.gen
        \/ pending # <<>> /\ pending[1].table = "metadata" /\ committed <= pending[1].gen

\* What the first restart will find: the counter or a pane that accounts for
\* everything committed.
MarkIsStored ==
    crashes = 0 \/ (crashes = 1 /\ up # "up")
        => committed <= db.gen \/ \E id \in PaneIDs : committed <= db.panes[id].gen

\* A pane row finds its session and its tab stored, or queued before it.
ParentsFirst ==
    \A k \in DOMAIN pending : pending[k].table = "panes" /\ pending[k].value.gen # 0
        => /\ \/ pending[k].value.session \in db.sessions
              \/ \E j \in DOMAIN pending : j < k /\ pending[j].table = "sessions"
                    /\ pending[j].session = pending[k].value.session
           /\ \/ <<pending[k].value.session, pending[k].value.tab>> \in db.tabs
              \/ \E j \in DOMAIN pending : j < k /\ pending[j].table = "tabs"
                    /\ pending[j].session = pending[k].value.session
                    /\ pending[j].tab = pending[k].value.tab

\* The last row of a pane, or the stored one when none waits, is its record.
ReplayYieldsMemory ==
    up = "up" => \A id \in PaneIDs :
        /\ (\A k \in DOMAIN pending : ~PaneRow(k, id)) => db.panes[id] = Stored(panes[id])
        /\ \A k \in DOMAIN pending :
              PaneRow(k, id) /\ (\A j \in DOMAIN pending : PaneRow(j, id) => j <= k)
                  => pending[k].value = Stored(panes[id])

\* The claim is never stored.
ClaimsAreTransient ==
    /\ \A id \in PaneIDs : ~db.panes[id].claimed
    /\ \A k \in DOMAIN pending : pending[k].table = "panes" => ~pending[k].value.claimed

\* A daemon that is not up has lost its FIFO.
DownIsDrained == up # "up" => pending = <<>>

\* An announced generation has been given out, and its record, while there is one,
\* is claimed.
AnnouncedIsClaimed ==
    up = "up" => \A g \in DOMAIN notices : notices[g] = 1
        => g <= nextGeneration /\ \A id \in PaneIDs : panes[id].gen = g => panes[id].claimed

IInv ==
    /\ TypeOK
    /\ OneOwner /\ CounterAhead /\ CounterRows /\ MarkCatchesUp /\ MarkIsStored
    /\ GenerationNeverReused
    /\ ParentsFirst /\ HierarchyRestorable
    /\ DownIsDrained /\ ClaimsAreTransient /\ ReplayYieldsMemory
    /\ LatestIsLatest
    /\ ClosureAnnouncedOnce /\ AnnouncedIsClaimed

-----------------------------------------------------------------------------
(* Records, rows and the FIFO                                              *)

LEMMA NoPaneType ==
    /\ NoPane \in Pane /\ NoPane.gen = 0 /\ ~NoPane.claimed
    /\ Unseen \in Seen /\ Unseen.gen = 0
  BY RegistryAssumption DEF NoPane, Pane, Status, Terminal, Unseen, Seen

\* What is stored of a record is the record without its claim.
LEMMA StoredFacts ==
    ASSUME NEW p \in Pane
    PROVE  /\ Stored(p) \in Pane /\ Stored(p).gen = p.gen /\ ~Stored(p).claimed
           /\ Stored(p).session = p.session /\ Stored(p).tab = p.tab
           /\ Stored(p).zellij = p.zellij /\ Stored(p).status = p.status
           /\ ~p.claimed => Stored(p) = p
  BY DEF Stored, Pane

\* The fields a row has, by its table.
LEMMA RowFacts ==
    ASSUME NEW r \in Row
    PROVE  /\ r.table \in {"sessions", "tabs", "panes", "metadata"}
           /\ r.table = "sessions" => r.session \in SessionIDs
           /\ r.table = "tabs" => r.session \in SessionIDs /\ r.tab \in TabIDs
           /\ r.table = "panes" => r.id \in PaneIDs /\ r.value \in Pane
           /\ r.table = "metadata" => r.gen \in Nat
  BY DEF Row

LEMMA RowsOfPending ==
    ASSUME pending \in Seq(Row)
    PROVE  /\ Len(pending) \in Nat /\ DOMAIN pending = 1..Len(pending)
           /\ \A k \in DOMAIN pending : pending[k] \in Row
  OBVIOUS

\* Four rows after a sequence of rows.
LEMMA AppendFour ==
    ASSUME NEW S, NEW s \in Seq(S), NEW a \in S, NEW b \in S, NEW c \in S, NEW d \in S
    PROVE  /\ s \o <<a, b, c, d>> \in Seq(S) /\ Len(s \o <<a, b, c, d>>) = Len(s) + 4
           /\ \A k \in 1..Len(s) : (s \o <<a, b, c, d>>)[k] = s[k]
           /\ (s \o <<a, b, c, d>>)[Len(s) + 1] = a /\ (s \o <<a, b, c, d>>)[Len(s) + 2] = b
           /\ (s \o <<a, b, c, d>>)[Len(s) + 3] = c /\ (s \o <<a, b, c, d>>)[Len(s) + 4] = d
<1> DEFINE n == <<a, b, c, d>>
<1>1. n \in Seq(S) /\ Len(n) = 4 /\ n[1] = a /\ n[2] = b /\ n[3] = c /\ n[4] = d
  OBVIOUS
<1> DEFINE t == s \o n
<1> HIDE DEF n
<1>2. Len(s) \in Nat
  OBVIOUS
<1>3. /\ t \in Seq(S) /\ Len(t) = Len(s) + Len(n)
      /\ \A i \in 1..Len(s) + Len(n) : t[i] = IF i <= Len(s) THEN s[i] ELSE n[i - Len(s)]
  BY <1>1, ConcatProperties, Zenon
<1> HIDE DEF t
<1>4. Len(t) = Len(s) + 4 /\ \A k \in 1..Len(s) : t[k] = s[k]
  BY <1>1, <1>2, <1>3
<1>5. t[Len(s) + 1] = a /\ t[Len(s) + 2] = b /\ t[Len(s) + 3] = c /\ t[Len(s) + 4] = d
  BY <1>1, <1>2, <1>3
<1> QED BY <1>3, <1>4, <1>5 DEF n, t

\* saveLocked appends a session, a tab, a pane and a counter row, in that order.
LEMMA SaveAppends ==
    ASSUME pending \in Seq(Row), NEW id \in PaneIDs, NEW where \in Pane, NEW value \in Pane,
           NEW g \in Nat, saveLocked(id, where, value, g)
    PROVE  /\ pending' \in Seq(Row)
           /\ DOMAIN pending' = 1..(Len(pending) + 4)
           /\ \A k \in DOMAIN pending : pending'[k] = pending[k]
           /\ pending'[Len(pending) + 1] = [table |-> "sessions", session |-> where.session]
           /\ pending'[Len(pending) + 2]
                = [table |-> "tabs", session |-> where.session, tab |-> where.tab]
           /\ pending'[Len(pending) + 3] = [table |-> "panes", id |-> id, value |-> Stored(value)]
           /\ pending'[Len(pending) + 4] = [table |-> "metadata", gen |-> g]
           /\ pending' # <<>> /\ pending # <<>> => pending'[1] = pending[1]
<1> DEFINE r1 == [table |-> "sessions", session |-> where.session]
           r2 == [table |-> "tabs", session |-> where.session, tab |-> where.tab]
           r3 == [table |-> "panes", id |-> id, value |-> Stored(value)]
           r4 == [table |-> "metadata", gen |-> g]
<1>1. where.session \in SessionIDs /\ where.tab \in TabIDs
  BY DEF Pane
<1>2. r1 \in Row /\ r2 \in Row /\ r3 \in Row /\ r4 \in Row
  <2>1. Stored(value) \in Pane
    BY StoredFacts
  <2> QED BY <1>1, <2>1 DEF Row
<1>3. pending' = pending \o <<r1, r2, r3, r4>>
  BY DEF saveLocked
<1> HIDE DEF r1, r2, r3, r4
<1>4. /\ pending' \in Seq(Row) /\ Len(pending') = Len(pending) + 4
      /\ \A k \in 1..Len(pending) : pending'[k] = pending[k]
      /\ pending'[Len(pending) + 1] = r1 /\ pending'[Len(pending) + 2] = r2
      /\ pending'[Len(pending) + 3] = r3 /\ pending'[Len(pending) + 4] = r4
  BY <1>2, <1>3, AppendFour
<1>5. DOMAIN pending' = 1..(Len(pending) + 4)
  BY <1>4
<1>6. pending' # <<>> /\ (pending # <<>> => pending'[1] = pending[1])
  <2>1. pending # <<>> => 1 \in 1..Len(pending)
    BY RowsOfPending
  <2> QED BY <1>4, <1>5, <2>1, RowsOfPending
<1> QED BY <1>4, <1>5, <1>6, RowsOfPending DEF r1, r2, r3, r4

\* Committing the first row moves the others up.
LEMMA TailShifts ==
    ASSUME pending \in Seq(Row), pending # <<>>, pending' = Tail(pending)
    PROVE  /\ pending' \in Seq(Row) /\ Len(pending) > 0
           /\ DOMAIN pending' = 1..(Len(pending) - 1)
           /\ \A k \in DOMAIN pending' : k + 1 \in DOMAIN pending /\ pending'[k] = pending[k + 1]
           /\ Head(pending) = pending[1] /\ 1 \in DOMAIN pending
           /\ pending' # <<>> <=> Len(pending) > 1
  OBVIOUS

-----------------------------------------------------------------------------
(* What an operation does to the registry                                  *)

\* One more announcement of the generation of id, which was not claimed before.
Announces(id) ==
    ~panes[id].claimed /\ notices' = [notices EXCEPT ![panes[id].gen] = @ + 1]

\* The record of id is saved again: same generation, same place, claims kept.
Puts(id, p) ==
    /\ exists(id) /\ p.gen = panes[id].gen /\ p.zellij = panes[id].zellij
    /\ panes[id].claimed => p.claimed
    /\ put(id, p)
    /\ UNCHANGED notices \/ (Announces(id) /\ p.claimed)

Removes(id) == exists(id) /\ removePaneLocked(id) /\ (UNCHANGED notices \/ Announces(id))

Keeps == keep /\ UNCHANGED notices

\* A method of the registry leaves everything alone or changes the record read.
Applies(c, id) ==
    Keeps \/ (current(c, id) /\ (Removes(id) \/ \E p \in Pane : Puts(id, p)))

LEMMA UpdateApplies ==
    ASSUME TypeOK, NEW c \in Callers, NEW id \in PaneIDs, NEW s \in Status, UNCHANGED notices,
           UpdatePaneStatusGeneration(c, id, s) \/ UpdateActivePaneStatusGeneration(c, id, s)
    PROVE  Applies(c, id)
<1> DEFINE p == [panes[id] EXCEPT !.status = s]
<1>1. panes[id] \in Pane
  BY DEF TypeOK
<1>2. p \in Pane /\ p.gen = panes[id].gen /\ p.zellij = panes[id].zellij
      /\ p.claimed = panes[id].claimed
  BY <1>1 DEF Pane
<1>3. keep \/ (exists(id) /\ current(c, id) /\ put(id, p))
  BY DEF UpdatePaneStatusGeneration, UpdateActivePaneStatusGeneration, exists, active
<1> HIDE DEF p
<1> QED BY <1>2, <1>3 DEF Applies, Keeps, Puts

LEMMA RecordApplies ==
    ASSUME TypeOK, NEW c \in Callers, NEW id \in PaneIDs, UNCHANGED notices,
           IF exists(id) /\ current(c, id) THEN put(id, panes[id]) ELSE keep
    PROVE  Applies(c, id)
<1>1. panes[id] \in Pane
  BY DEF TypeOK
<1> QED BY <1>1 DEF Applies, Keeps, Puts

LEMMA ClaimApplies ==
    ASSUME TypeOK, NEW c \in Callers, NEW id \in PaneIDs, NEW s \in Status,
           ClaimPaneClosureGeneration(c, id, s)
    PROVE  Applies(c, id)
<1> DEFINE p == [panes[id] EXCEPT !.status = IF isTerminalPaneStatus(@) THEN @ ELSE s,
                                  !.claimed = TRUE]
<1>1. panes[id] \in Pane
  BY DEF TypeOK
<1>2. p \in Pane /\ p.gen = panes[id].gen /\ p.zellij = panes[id].zellij /\ p.claimed
  BY <1>1 DEF Pane
<1>3. CASE exists(id) /\ current(c, id)
  <2>1. put(id, p) /\ notify(panes[id].gen, ~panes[id].claimed)
    BY <1>3 DEF ClaimPaneClosureGeneration
  <2>2. UNCHANGED notices \/ Announces(id)
    BY <2>1 DEF notify, Announces
  <2> HIDE DEF p
  <2> QED BY <1>2, <1>3, <2>1, <2>2 DEF Applies, Puts
<1>4. CASE ~(exists(id) /\ current(c, id))
  BY <1>4 DEF ClaimPaneClosureGeneration, Applies, Keeps
<1> QED BY <1>3, <1>4

LEMMA RemoveApplies ==
    ASSUME NEW c \in Callers, NEW id \in PaneIDs,
           \/ RemovePaneGeneration(c, id) /\ UNCHANGED notices
           \/ RemovePaneGenerationClaimingClosure(c, id)
    PROVE  Applies(c, id)
  BY DEF RemovePaneGeneration, RemovePaneGenerationClaimingClosure, notify, Applies, Keeps,
         Removes, Announces

\* A runtime operation ends with at most one method of the registry, for what it read.
LEMMA OperationEffect ==
    ASSUME TypeOK, NEW c \in Callers, NEW id \in PaneIDs, Operation(c, id)
    PROVE  /\ up = "up" /\ UNCHANGED <<up, db, crashes, committed>>
           /\ snap' \in [Callers -> [PaneIDs -> Seen]]
           /\ \/ Keeps
              \/ Applies(c, id) /\ snap'[c][id] = Unseen
<1>1. CASE Read(c, id)
  <2>1. panes[id] \in Pane
    BY DEF TypeOK
  <2>2. [gen |-> panes[id].gen, status |-> panes[id].status] \in Seen
    BY <2>1 DEF Pane, Seen
  <2> QED BY <1>1, <2>2 DEF Read, Keeps, keep, TypeOK
<1>2. ASSUME Ends(c, id)
      PROVE  /\ up = "up" /\ UNCHANGED <<up, db, crashes, committed>>
             /\ snap' \in [Callers -> [PaneIDs -> Seen]] /\ snap'[c][id] = Unseen
             /\ snap[c][id].status \in Status
  <2>1. snap[c][id] \in Seen /\ Unseen \in Seen
    BY NoPaneType DEF TypeOK
  <2> QED BY <1>2, <2>1 DEF Ends, TypeOK, Seen
<1>3. {"error", "lost", "closed", "running"} \subseteq Status
  BY DEF Status, Terminal
<1>4. CASE reconcileRecord(c, id)
  <2>1. Ends(c, id) /\ snap[c][id].status \in Status
    BY <1>2, <1>4 DEF reconcileRecord
  <2>2. \/ \E s \in Status : ClaimPaneClosureGeneration(c, id, s)
        \/ RemovePaneGenerationClaimingClosure(c, id)
        \/ UpdateActivePaneStatusGeneration(c, id, "running") /\ UNCHANGED notices
        \/ Keeps
    BY <1>3, <1>4, <2>1 DEF reconcileRecord, Keeps
  <2>3. Keeps \/ Applies(c, id)
    BY <1>3, <2>2, ClaimApplies, RemoveApplies, UpdateApplies
  <2> QED BY <1>2, <2>1, <2>3
<1>5. CASE ClosePane(c, id)
  BY <1>2, <1>3, <1>5, ClaimApplies, UpdateApplies DEF ClosePane
<1>6. CASE InputOrSnapshotFails(c, id)
  BY <1>2, <1>3, <1>6, UpdateApplies DEF InputOrSnapshotFails
<1>7. CASE RecordPaneInstructionGeneration(c, id)
  BY <1>2, <1>7, RecordApplies DEF RecordPaneInstructionGeneration
<1>8. CASE Cleanup(c, id)
  BY <1>2, <1>3, <1>8, UpdateApplies, RemoveApplies DEF Cleanup
<1>9. CASE Subscription(c, id)
  BY <1>2, <1>3, <1>9, UpdateApplies, RemoveApplies DEF Subscription
<1> QED BY <1>1, <1>4, <1>5, <1>6, <1>7, <1>8, <1>9 DEF Operation


\* A change of the registry while the daemon is up: the rest of the state stays.
Quiet == up = "up" /\ UNCHANGED <<up, db, crashes, committed>>

\* Nothing but what callers have read changes.
Same == UNCHANGED <<panes, nextGeneration, latestByZellij, up, pending, db, crashes,
                    committed, notices>>

LEMMA StepCases ==
    ASSUME TypeOK, [Next]_vars
    PROVE  /\ snap' \in [Callers -> [PaneIDs -> Seen]]
           /\ \/ \E id \in PaneIDs, s \in SessionIDs, t \in TabIDs, z \in ZellijPaneIDs :
                     RegisterPane(id, s, t, z)
              \/ \E id \in PaneIDs : Quiet /\ Removes(id)
              \/ \E id \in PaneIDs, p \in Pane : Quiet /\ Puts(id, p)
              \/ Same
              \/ Commit \/ Crash \/ NewPersistent
<1>1. CASE \E id \in PaneIDs, s \in SessionIDs, t \in TabIDs, z \in ZellijPaneIDs :
               RegisterPane(id, s, t, z)
  BY <1>1 DEF RegisterPane, TypeOK
<1>2. CASE \E c \in Callers, id \in PaneIDs : Operation(c, id)
  <2> PICK c \in Callers, id \in PaneIDs : Operation(c, id)
    BY <1>2
  <2>1. Quiet /\ snap' \in [Callers -> [PaneIDs -> Seen]] /\ (Keeps \/ Applies(c, id))
    BY OperationEffect DEF Quiet
  <2> QED BY <2>1 DEF Applies, Keeps, keep, Same, Quiet
<1>3. CASE Commit \/ Crash
  BY <1>3 DEF Commit, Crash, TypeOK
<1>4. CASE NewPersistent
  BY <1>4, NoPaneType DEF NewPersistent, TypeOK
<1>5. CASE UNCHANGED vars
  BY <1>5 DEF vars, Same, TypeOK
<1> QED BY <1>1, <1>2, <1>3, <1>4, <1>5 DEF Next

-----------------------------------------------------------------------------
(* Types                                                                   *)

\* Registering, saving and removing append rows of well-typed records.
LEMMA RegisterRecord ==
    ASSUME TypeOK, NEW id \in PaneIDs, NEW s \in SessionIDs, NEW t \in TabIDs,
           NEW z \in ZellijPaneIDs, RegisterPane(id, s, t, z)
    PROVE  \E p \in Pane :
              /\ p.gen = nextGeneration + 1 /\ p.zellij = z /\ ~p.claimed
              /\ panes' = [panes EXCEPT ![id] = p]
              /\ saveLocked(id, p, p, nextGeneration + 1)
<1> DEFINE p == [gen |-> nextGeneration + 1, zellij |-> z, session |-> s, tab |-> t,
                 status |-> "starting", claimed |-> FALSE]
<1>1. p \in Pane
  BY DEF Pane, Status, TypeOK
<1> QED BY <1>1 DEF RegisterPane

LEMMA ApplyType ==
    ASSUME NEW r \in Row, NEW s \in Store
    PROVE  Apply(r, s) \in Store /\ RowGeneration(r) \in Nat
<1>1. CASE r.table = "sessions"
  BY <1>1, RowFacts DEF Apply, Store, RowGeneration
<1>2. CASE r.table = "tabs"
  BY <1>2, RowFacts DEF Apply, Store, RowGeneration
<1>3. CASE r.table = "panes"
  <2>1. r.id \in PaneIDs /\ r.value \in Pane /\ r.value.gen \in Nat
    BY <1>3, RowFacts DEF Pane
  <2>2. [s.panes EXCEPT ![r.id] = r.value] \in [PaneIDs -> Pane]
    BY <2>1 DEF Store
  <2> QED BY <1>3, <2>1, <2>2 DEF Apply, Store, RowGeneration
<1>4. CASE r.table = "metadata"
  BY <1>4, RowFacts DEF Apply, Store, RowGeneration
<1> QED BY <1>1, <1>2, <1>3, <1>4, RowFacts

\* Every step keeps the types.
LEMMA TypeStep ==
    ASSUME TypeOK, [Next]_vars
    PROVE  TypeOK'
<1>1. pending \in Seq(Row) /\ panes \in [PaneIDs -> Pane] /\ nextGeneration \in Nat
  BY DEF TypeOK
<1>2. CASE \E id \in PaneIDs, s \in SessionIDs, t \in TabIDs, z \in ZellijPaneIDs :
               RegisterPane(id, s, t, z)
  <2> PICK id \in PaneIDs, s \in SessionIDs, t \in TabIDs, z \in ZellijPaneIDs :
               RegisterPane(id, s, t, z)
    BY <1>2
  <2> PICK p \in Pane : /\ panes' = [panes EXCEPT ![id] = p]
                        /\ saveLocked(id, p, p, nextGeneration + 1)
    BY RegisterRecord
  <2> DEFINE g == nextGeneration + 1
  <2>0. g \in Nat /\ saveLocked(id, p, p, g)
    BY <1>1
  <2> HIDE DEF g
  <2>1. pending' \in Seq(Row) /\ panes' \in [PaneIDs -> Pane]
    BY <1>1, <2>0, SaveAppends
  <2> QED BY <1>1, <2>1 DEF RegisterPane, TypeOK
<1>3. CASE \E id \in PaneIDs : Quiet /\ Removes(id)
  <2> PICK id \in PaneIDs : Quiet /\ Removes(id)
    BY <1>3
  <2>1. panes[id] \in Pane /\ panes[id].zellij \in ZellijPaneIDs
    BY <1>1 DEF Pane
  <2>2. saveLocked(id, panes[id], NoPane, nextGeneration) /\ panes' = [panes EXCEPT ![id] = NoPane]
    BY DEF Removes, removePaneLocked
  <2>3. pending' \in Seq(Row) /\ panes' \in [PaneIDs -> Pane]
    BY <1>1, <2>1, <2>2, NoPaneType, SaveAppends
  <2>4. notices' \in [1..MaxGeneration -> Nat]
    BY DEF Removes, Announces, TypeOK
  <2>5. latestByZellij' \in [ZellijPaneIDs -> SUBSET PaneIDs] /\ nextGeneration' \in Nat
    BY DEF Removes, removePaneLocked, TypeOK
  <2> QED BY <2>3, <2>4, <2>5, StepCases DEF Quiet, TypeOK
<1>4. CASE \E id \in PaneIDs, p \in Pane : Quiet /\ Puts(id, p)
  <2> PICK id \in PaneIDs, p \in Pane : Quiet /\ Puts(id, p)
    BY <1>4
  <2>1. pending' \in Seq(Row) /\ panes' \in [PaneIDs -> Pane]
    BY <1>1, SaveAppends DEF Puts, put
  <2>2. notices' \in [1..MaxGeneration -> Nat]
    BY DEF Puts, Announces, TypeOK
  <2> QED BY <2>1, <2>2, StepCases DEF Puts, put, Quiet, TypeOK
<1>5. CASE Same
  BY <1>5, StepCases DEF Same, TypeOK
<1>6. CASE Commit
  <2>1. pending' \in Seq(Row) /\ Head(pending) \in Row
    BY <1>1, <1>6 DEF Commit
  <2>2. db \in Store /\ committed \in Nat
    BY DEF TypeOK
  <2>3. Apply(Head(pending), db) \in Store /\ RowGeneration(Head(pending)) \in Nat
    BY <2>1, <2>2, ApplyType
  <2>4. db' \in Store /\ committed' \in Nat
    BY <1>6, <2>2, <2>3 DEF Commit, higher
  <2> QED BY <1>6, <2>1, <2>4 DEF Commit, TypeOK
<1>7. CASE Crash
  BY <1>7 DEF Crash, TypeOK
<1>8. CASE NewPersistent
  <2>1. db.panes \in [PaneIDs -> Pane] /\ db.gen \in Nat
    BY DEF TypeOK, Store
  <2>2. \A id \in PaneIDs : db.panes[id].gen \in Nat
    BY <2>1 DEF Pane
  <2>3. panes' \in [PaneIDs -> Pane] /\ up' \in {"up", "refused"}
    BY <1>1, <1>8, <2>1 DEF NewPersistent
  <2>4. nextGeneration' \in Nat
    BY <1>1, <1>8, <2>1, <2>2 DEF NewPersistent
  <2>5. latestByZellij' \in [ZellijPaneIDs -> SUBSET PaneIDs]
    BY <1>8 DEF NewPersistent, Latest, TypeOK
  <2>6. notices' \in [1..MaxGeneration -> Nat]
    BY <1>8 DEF NewPersistent, TypeOK
  <2> QED BY <1>8, <2>3, <2>4, <2>5, <2>6, StepCases DEF NewPersistent, TypeOK
<1> QED BY <1>2, <1>3, <1>4, <1>5, <1>6, <1>7, <1>8, StepCases

LEMMA TypeInit == Init => TypeOK
<1> SUFFICES ASSUME Init PROVE TypeOK
  OBVIOUS
<1>1. panes \in [PaneIDs -> Pane] /\ snap \in [Callers -> [PaneIDs -> Seen]]
  BY NoPaneType DEF Init
<1>2. db \in Store
  BY NoPaneType DEF Init, Store
<1> QED BY <1>1, <1>2 DEF Init, TypeOK

\* Every variable of the registry, the writer and the store keeps its type.
THEOREM TypeCorrect == Spec => []TypeOK
  BY TypeInit, TypeStep, PTL DEF Spec


-----------------------------------------------------------------------------
(* Each part of the invariant over the steps                               *)

\* All that a mutation has in common: the record of one pane becomes p, and its
\* four rows are queued.  w says where the record is or was.
Mutates(id, w, p) ==
    /\ Quiet /\ w \in Pane /\ p \in Pane
    /\ panes' = [panes EXCEPT ![id] = p]
    /\ nextGeneration' \in Nat /\ nextGeneration <= nextGeneration'
    /\ p.gen <= nextGeneration'
    /\ p.gen # 0 => p = w
    /\ p.gen = 0 \/ p.gen = panes[id].gen \/ (p.gen > nextGeneration /\ panes[id].gen = 0)
    /\ saveLocked(id, w, p, nextGeneration')

LEMMA MutationCases ==
    ASSUME IInv, [Next]_vars
    PROVE  \/ \E id \in PaneIDs, w, p \in Pane : Mutates(id, w, p)
           \/ Same \/ Commit \/ Crash \/ NewPersistent
<1>1. panes \in [PaneIDs -> Pane] /\ nextGeneration \in Nat /\ TypeOK
  BY DEF IInv, TypeOK
<1>2. CASE \E id \in PaneIDs, s \in SessionIDs, t \in TabIDs, z \in ZellijPaneIDs :
               RegisterPane(id, s, t, z)
  <2> PICK id \in PaneIDs, s \in SessionIDs, t \in TabIDs, z \in ZellijPaneIDs :
               RegisterPane(id, s, t, z)
    BY <1>2
  <2> PICK p \in Pane : /\ p.gen = nextGeneration + 1
                        /\ panes' = [panes EXCEPT ![id] = p]
                        /\ saveLocked(id, p, p, nextGeneration + 1)
    BY <1>1, RegisterRecord
  <2>1. Quiet /\ nextGeneration' = nextGeneration + 1 /\ panes[id].gen = 0
    BY DEF RegisterPane, Quiet, exists
  <2>2. Mutates(id, p, p)
    BY <1>1, <2>1 DEF Mutates
  <2> QED BY <2>2
<1>3. ASSUME NEW id \in PaneIDs, up = "up"
      PROVE  panes[id].gen <= nextGeneration /\ panes[id].gen \in Nat
  BY <1>1, <1>3 DEF IInv, CounterAhead, Holds, Pane
<1>4. CASE \E id \in PaneIDs : Quiet /\ Removes(id)
  <2> PICK id \in PaneIDs : Quiet /\ Removes(id)
    BY <1>4
  <2>1. saveLocked(id, panes[id], NoPane, nextGeneration) /\ UNCHANGED nextGeneration
        /\ panes' = [panes EXCEPT ![id] = NoPane]
    BY DEF Removes, removePaneLocked
  <2>2. Mutates(id, panes[id], NoPane)
    BY <1>1, <2>1, NoPaneType DEF Mutates
  <2> QED BY <1>1, <2>2, NoPaneType
<1>5. CASE \E id \in PaneIDs, p \in Pane : Quiet /\ Puts(id, p)
  <2> PICK id \in PaneIDs, p \in Pane : Quiet /\ Puts(id, p)
    BY <1>5
  <2>1. saveLocked(id, p, p, nextGeneration) /\ UNCHANGED nextGeneration
        /\ panes' = [panes EXCEPT ![id] = p] /\ p.gen = panes[id].gen
    BY DEF Puts, put
  <2>2. Mutates(id, p, p)
    BY <1>1, <1>3, <2>1 DEF Mutates, Quiet
  <2> QED BY <2>2
<1> QED BY <1>1, <1>2, <1>4, <1>5, StepCases

\* The rows before and after a mutation.
LEMMA MutationRows ==
    ASSUME IInv, NEW id \in PaneIDs, NEW w \in Pane, NEW p \in Pane, Mutates(id, w, p)
    PROVE  /\ Len(pending) \in Nat /\ DOMAIN pending = 1..Len(pending)
           /\ DOMAIN pending' = 1..(Len(pending) + 4)
           /\ \A k \in DOMAIN pending : pending'[k] = pending[k]
           /\ pending'[Len(pending) + 1].table = "sessions"
           /\ pending'[Len(pending) + 1].session = w.session
           /\ pending'[Len(pending) + 2].table = "tabs"
           /\ pending'[Len(pending) + 2].session = w.session
           /\ pending'[Len(pending) + 2].tab = w.tab
           /\ pending'[Len(pending) + 3].table = "panes"
           /\ pending'[Len(pending) + 3].id = id
           /\ pending'[Len(pending) + 3].value = Stored(p)
           /\ pending'[Len(pending) + 4].table = "metadata"
           /\ pending'[Len(pending) + 4].gen = nextGeneration'
           /\ pending' # <<>> /\ pending # <<>> => pending'[1] = pending[1]
<1>1. pending \in Seq(Row)
  BY DEF IInv, TypeOK
<1>2. saveLocked(id, w, p, nextGeneration') /\ nextGeneration' \in Nat
  BY DEF Mutates
<1> DEFINE n == Len(pending)
<1>3. /\ DOMAIN pending' = 1..(n + 4)
      /\ \A k \in DOMAIN pending : pending'[k] = pending[k]
      /\ pending'[n + 1] = [table |-> "sessions", session |-> w.session]
      /\ pending'[n + 2] = [table |-> "tabs", session |-> w.session, tab |-> w.tab]
      /\ pending'[n + 3] = [table |-> "panes", id |-> id, value |-> Stored(p)]
      /\ pending'[n + 4] = [table |-> "metadata", gen |-> nextGeneration']
      /\ pending' # <<>> /\ pending # <<>> => pending'[1] = pending[1]
  <2> DEFINE g == nextGeneration'
  <2>1. g \in Nat /\ saveLocked(id, w, p, g)
    BY <1>2
  <2> HIDE DEF g
  <2>2. /\ DOMAIN pending' = 1..(n + 4)
        /\ \A k \in DOMAIN pending : pending'[k] = pending[k]
        /\ pending'[n + 1] = [table |-> "sessions", session |-> w.session]
        /\ pending'[n + 2] = [table |-> "tabs", session |-> w.session, tab |-> w.tab]
        /\ pending'[n + 3] = [table |-> "panes", id |-> id, value |-> Stored(p)]
        /\ pending'[n + 4] = [table |-> "metadata", gen |-> g]
        /\ pending' # <<>> /\ pending # <<>> => pending'[1] = pending[1]
    BY <1>1, <2>1, SaveAppends
  <2> QED BY <2>2, Zenon DEF g
<1>4. n \in Nat /\ DOMAIN pending = 1..n
  BY <1>1, RowsOfPending
<1> HIDE DEF n
<1> QED BY <1>3, <1>4 DEF n

\* A mutation changes what id stands for only.
LEMMA MutationPanes ==
    ASSUME IInv, NEW id \in PaneIDs, NEW w \in Pane, NEW p \in Pane, Mutates(id, w, p)
    PROVE  /\ panes'[id] = p /\ \A j \in PaneIDs : j # id => panes'[j] = panes[j]
           /\ up = "up" /\ up' = "up" /\ db' = db /\ crashes' = crashes /\ committed' = committed
  BY DEF IInv, TypeOK, Mutates, Quiet

\* Committing a row stores it.
LEMMA CommitRow ==
    ASSUME IInv, Commit
    PROVE  LET r == pending[1] IN
           /\ r \in Row /\ 1 \in DOMAIN pending
           /\ r.table # "sessions" => db'.sessions = db.sessions
           /\ r.table # "tabs" => db'.tabs = db.tabs
           /\ r.table # "panes" => db'.panes = db.panes
           /\ r.table # "metadata" => db'.gen = db.gen
           /\ r.table = "sessions" => db'.sessions = db.sessions \cup {r.session}
           /\ r.table = "tabs" => db'.tabs = db.tabs \cup {<<r.session, r.tab>>}
           /\ r.table = "metadata" => db'.gen = r.gen
           /\ r.table = "panes"
                => /\ db'.panes[r.id] = r.value
                   /\ \A j \in PaneIDs : j # r.id => db'.panes[j] = db.panes[j]
<1> DEFINE r == pending[1]
<1>1. r \in Row /\ Head(pending) = r /\ 1 \in DOMAIN pending /\ db \in Store
  BY DEF IInv, TypeOK, Commit
<1>2. db' = Apply(r, db)
  BY <1>1 DEF Commit
<1>3. r.table \in {"sessions", "tabs", "panes", "metadata"} /\ (r.table = "panes" => r.id \in PaneIDs)
  BY <1>1, RowFacts
<1> HIDE DEF r
<1>4. CASE r.table = "panes"
  <2>1. db' = [db EXCEPT !.panes = [db.panes EXCEPT ![r.id] = r.value]]
    BY <1>2, <1>4 DEF Apply
  <2> QED BY <1>1, <1>3, <1>4, <2>1 DEF Store, r
<1>5. CASE r.table # "panes"
  BY <1>1, <1>2, <1>3, <1>5 DEF Apply, Store, r
<1> QED BY <1>4, <1>5


\* The remaining rows of a commit.
LEMMA CommitRows ==
    ASSUME IInv, Commit
    PROVE  /\ Len(pending) \in Nat /\ Len(pending) > 0 /\ DOMAIN pending = 1..Len(pending)
           /\ DOMAIN pending' = 1..(Len(pending) - 1)
           /\ \A k \in DOMAIN pending' : k + 1 \in DOMAIN pending /\ pending'[k] = pending[k + 1]
           /\ pending' # <<>> <=> Len(pending) > 1
           /\ panes' = panes /\ nextGeneration' = nextGeneration /\ up' = up
           /\ crashes' = crashes /\ notices' = notices /\ latestByZellij' = latestByZellij
<1>1. pending \in Seq(Row) /\ pending # <<>> /\ pending' = Tail(pending)
  BY DEF IInv, TypeOK, Commit
<1> QED BY <1>1, TailShifts, RowsOfPending DEF Commit

\* Where a generation is found after a step it was found before, unless it is new.
LEMMA HoldsShrinks ==
    ASSUME IInv, NEW i \in PaneIDs, NEW g \in Nat \ {0}, Holds(i, g)',
           Same \/ Commit \/ Crash \/ NewPersistent
    PROVE  Holds(i, g)
<1>1. CASE Same
  BY <1>1 DEF Same, Holds, PaneRow
<1>2. CASE Commit
  <2>1. CASE up' = "up" /\ panes'[i].gen = g
    BY <1>2, <2>1, CommitRows DEF Holds
  <2>2. CASE db'.panes[i].gen = g
    BY <1>2, <2>2, CommitRow DEF Holds, PaneRow
  <2>3. CASE \E k \in DOMAIN pending' : PaneRow(k, i)' /\ pending'[k].value.gen = g
    BY <1>2, <2>3, CommitRows DEF Holds, PaneRow
  <2> QED BY <2>1, <2>2, <2>3 DEF Holds
<1>3. CASE Crash
  <2>1. up' = "down" /\ pending' = <<>> /\ db' = db
    BY <1>3 DEF Crash
  <2>2. DOMAIN pending' = {}
    BY <2>1
  <2> QED BY <2>1, <2>2 DEF Holds
<1>4. CASE NewPersistent
  <2>1. db' = db /\ pending' = pending /\ (up' = "up" => panes' = db.panes)
    BY <1>4 DEF NewPersistent
  <2> QED BY <2>1 DEF Holds, PaneRow
<1> QED BY <1>1, <1>2, <1>3, <1>4

LEMMA HoldsMutates ==
    ASSUME IInv, NEW id \in PaneIDs, NEW w \in Pane, NEW p \in Pane, Mutates(id, w, p),
           NEW i \in PaneIDs, NEW g \in Nat \ {0}, Holds(i, g)'
    PROVE  g <= nextGeneration' /\ (Holds(i, g) \/ (i = id /\ g > nextGeneration))
<1> DEFINE n == Len(pending)
<1>1. p.gen = g => Holds(id, g) \/ g > nextGeneration
  BY MutationPanes DEF Mutates, Holds
<1>2. Holds(i, g) \/ (i = id /\ p.gen = g)
  <2>1. CASE panes'[i].gen = g
    BY <2>1, MutationPanes DEF Holds
  <2>2. CASE db'.panes[i].gen = g
    BY <2>2, MutationPanes DEF Holds
  <2>3. CASE \E k \in DOMAIN pending' : PaneRow(k, i)' /\ pending'[k].value.gen = g
    <3> PICK k \in DOMAIN pending' : PaneRow(k, i)' /\ pending'[k].value.gen = g
      BY <2>3
    <3>1. k \in DOMAIN pending \/ k \in {n + 1, n + 2, n + 3, n + 4}
      BY MutationRows
    <3>2. CASE k \in DOMAIN pending
      BY <3>2, MutationRows DEF Holds, PaneRow
    <3>3. CASE k \in {n + 1, n + 2, n + 3, n + 4}
      <4>1. k = n + 3
        BY <3>3, MutationRows DEF PaneRow
      <4> QED BY <4>1, MutationRows, StoredFacts DEF PaneRow
    <3> QED BY <3>1, <3>2, <3>3
  <2> QED BY <2>1, <2>2, <2>3 DEF Holds
<1>3. Holds(i, g) => g <= nextGeneration
  BY MutationPanes DEF IInv, CounterAhead
<1>4. nextGeneration \in Nat /\ nextGeneration' \in Nat /\ nextGeneration <= nextGeneration'
      /\ p.gen <= nextGeneration'
  BY DEF IInv, TypeOK, Mutates
<1> QED BY <1>1, <1>2, <1>3, <1>4

LEMMA OneOwnerStep ==
    ASSUME IInv, [Next]_vars
    PROVE  OneOwner'
<1> SUFFICES ASSUME NEW g \in Nat \ {0}, NEW i \in PaneIDs, NEW j \in PaneIDs,
                    Holds(i, g)', Holds(j, g)'
             PROVE  i = j
  BY DEF OneOwner
<1>1. Holds(i, g) /\ Holds(j, g) => i = j
  BY DEF IInv, OneOwner
<1>2. CASE Same \/ Commit \/ Crash \/ NewPersistent
  BY <1>1, <1>2, HoldsShrinks
<1>3. CASE \E id \in PaneIDs, w, p \in Pane : Mutates(id, w, p)
  <2> PICK id \in PaneIDs, w \in Pane, p \in Pane : Mutates(id, w, p)
    BY <1>3
  <2>1. \A k \in PaneIDs : Holds(k, g) => g <= nextGeneration
    BY MutationPanes DEF IInv, CounterAhead
  <2>2. Holds(i, g) \/ (i = id /\ g > nextGeneration)
    BY HoldsMutates
  <2>3. Holds(j, g) \/ (j = id /\ g > nextGeneration)
    BY HoldsMutates
  <2>4. nextGeneration \in Nat
    BY DEF IInv, TypeOK
  <2> QED BY <1>1, <2>1, <2>2, <2>3, <2>4
<1> QED BY <1>2, <1>3, MutationCases


\* The types of what the counter is compared with.
LEMMA CounterTypes ==
    ASSUME IInv
    PROVE  /\ nextGeneration \in Nat /\ committed \in Nat /\ db.gen \in Nat /\ crashes \in Nat
           /\ \A id \in PaneIDs : db.panes[id] \in Pane /\ db.panes[id].gen \in Nat
           /\ \A id \in PaneIDs : panes[id] \in Pane /\ panes[id].gen \in Nat
           /\ \A k \in DOMAIN pending : pending[k] \in Row
           /\ \A k \in DOMAIN pending : pending[k].table = "metadata" => pending[k].gen \in Nat
           /\ \A k \in DOMAIN pending : pending[k].table = "panes"
                => pending[k].value.gen \in Nat /\ pending[k].id \in PaneIDs
<1>1. /\ nextGeneration \in Nat /\ committed \in Nat /\ db \in Store /\ pending \in Seq(Row)
      /\ panes \in [PaneIDs -> Pane] /\ crashes \in Nat
  BY DEF IInv, TypeOK
<1>2. db.gen \in Nat /\ \A id \in PaneIDs : db.panes[id] \in Pane
  BY <1>1 DEF Store
<1>3. \A p \in Pane : p.gen \in Nat
  BY DEF Pane
<1>4. \A k \in DOMAIN pending : pending[k] \in Row
  BY <1>1
<1>5. \A k \in DOMAIN pending : pending[k].table = "panes"
         => pending[k].value \in Pane /\ pending[k].id \in PaneIDs
  BY <1>4, RowFacts
<1>6. \A k \in DOMAIN pending : pending[k].table = "metadata" => pending[k].gen \in Nat
  BY <1>4, RowFacts
<1> QED BY <1>1, <1>2, <1>3, <1>4, <1>5, <1>6

LEMMA CounterAheadStep ==
    ASSUME IInv, [Next]_vars
    PROVE  CounterAhead'
<1> SUFFICES ASSUME up' = "up" PROVE CounterAhead'
  BY DEF CounterAhead
<1>0. TypeOK'
  BY TypeStep DEF IInv
<1>1. CASE Same
  BY <1>1 DEF Same, IInv, CounterAhead, Holds, PaneRow
<1>2. CASE Commit
  <2>1. up = "up" /\ nextGeneration' = nextGeneration
    BY <1>2, CommitRows
  <2>2. db'.gen <= nextGeneration
    BY <1>2, <2>1, CommitRow DEF IInv, CounterAhead
  <2>3. ASSUME NEW id \in PaneIDs, NEW g \in Nat, Holds(id, g)'
        PROVE  g <= nextGeneration
    BY <1>2, <2>1, <2>3, HoldsShrinks, CounterTypes DEF IInv, CounterAhead
  <2>4. \A k \in DOMAIN pending' : pending'[k].table = "metadata" => pending'[k].gen <= nextGeneration
    BY <1>2, <2>1, CommitRows DEF IInv, CounterAhead
  <2> QED BY <2>1, <2>2, <2>3, <2>4 DEF CounterAhead
<1>3. CASE Crash
  BY <1>3 DEF Crash
<1>4. CASE NewPersistent
  <2>1. /\ up = "down" /\ panes' = db.panes /\ db' = db /\ pending' = pending
        /\ RestoredGeneration(db, nextGeneration')
    BY <1>4 DEF NewPersistent
  <2>2. pending = <<>>
    BY <2>1 DEF IInv, DownIsDrained
  <2>3. DOMAIN pending' = {}
    BY <2>1, <2>2
  <2> QED BY <2>1, <2>3 DEF CounterAhead, Holds, RestoredGeneration
<1>5. CASE \E id \in PaneIDs, w, p \in Pane : Mutates(id, w, p)
  <2> PICK id \in PaneIDs, w \in Pane, p \in Pane : Mutates(id, w, p)
    BY <1>5
  <2> DEFINE n == Len(pending)
  <2>1. nextGeneration' \in Nat /\ nextGeneration <= nextGeneration' /\ up = "up"
    BY MutationPanes DEF Mutates
  <2>2. db'.gen <= nextGeneration'
    BY <2>1, MutationPanes, CounterTypes DEF IInv, CounterAhead
  <2>3. ASSUME NEW i \in PaneIDs, NEW g \in Nat, Holds(i, g)'
        PROVE  g <= nextGeneration'
    BY <2>1, <2>3, HoldsMutates
  <2>4. ASSUME NEW k \in DOMAIN pending', pending'[k].table = "metadata"
        PROVE  pending'[k].gen <= nextGeneration'
    <3>1. k \in DOMAIN pending \/ k \in {n + 1, n + 2, n + 3, n + 4}
      BY MutationRows
    <3>2. CASE k \in DOMAIN pending
      <4>1. pending[k].table = "metadata" /\ pending'[k].gen = pending[k].gen
        BY <2>4, <3>2, MutationRows
      <4>2. pending[k].gen <= nextGeneration /\ pending[k].gen \in Nat
        BY <2>1, <3>2, <4>1, CounterTypes DEF IInv, CounterAhead
      <4> QED BY <2>1, <4>1, <4>2, CounterTypes
    <3>3. CASE k \in {n + 1, n + 2, n + 3, n + 4}
      BY <2>1, <2>4, <3>3, MutationRows
    <3> QED BY <3>1, <3>2, <3>3
  <2> QED BY <2>2, <2>3, <2>4 DEF CounterAhead
<1> QED BY <1>1, <1>2, <1>3, <1>4, <1>5, MutationCases

LEMMA CounterRowsStep ==
    ASSUME IInv, [Next]_vars
    PROVE  CounterRows'
<1> DEFINE n == Len(pending)
<1>1. CASE Same
  BY <1>1 DEF Same, IInv, CounterRows
<1>2. CASE Commit
  <2>1. ASSUME NEW k \in DOMAIN pending', pending'[k].table = "metadata"
        PROVE  /\ db'.gen <= pending'[k].gen
               /\ \A j \in DOMAIN pending' : pending'[j].table = "metadata" /\ j <= k
                    => pending'[j].gen <= pending'[k].gen
    <3>1. k + 1 \in DOMAIN pending /\ pending'[k] = pending[k + 1] /\ 1 <= k + 1 /\ k \in Nat
      BY <1>2, CommitRows
    <3>2. db'.gen <= pending'[k].gen
      BY <1>2, <2>1, <3>1, CommitRow DEF IInv, CounterRows
    <3>3. ASSUME NEW j \in DOMAIN pending', pending'[j].table = "metadata", j <= k
          PROVE  pending'[j].gen <= pending'[k].gen
      <4>1. j + 1 \in DOMAIN pending /\ pending'[j] = pending[j + 1] /\ j + 1 <= k + 1
        BY <1>2, <3>1, <3>3, CommitRows
      <4> QED BY <2>1, <3>1, <3>3, <4>1 DEF IInv, CounterRows
    <3> QED BY <3>2, <3>3
  <2>2. ASSUME NEW k \in DOMAIN pending', pending'[k].table = "panes"
        PROVE  /\ k + 1 \in DOMAIN pending' /\ pending'[k + 1].table = "metadata"
               /\ pending'[k].value.gen <= pending'[k + 1].gen
    <3>1. k + 1 \in DOMAIN pending /\ pending'[k] = pending[k + 1] /\ k \in Nat
      BY <1>2, CommitRows
    <3>2. /\ (k + 1) + 1 \in DOMAIN pending /\ pending[(k + 1) + 1].table = "metadata"
          /\ pending[k + 1].value.gen <= pending[(k + 1) + 1].gen
      BY <2>2, <3>1 DEF IInv, CounterRows
    <3>3. k + 1 \in DOMAIN pending' /\ pending'[k + 1] = pending[(k + 1) + 1]
      BY <1>2, <3>1, <3>2, CommitRows
    <3> QED BY <3>1, <3>2, <3>3
  <2> QED BY <2>1, <2>2 DEF CounterRows
<1>3. CASE Crash
  <2>1. DOMAIN pending' = {}
    BY <1>3 DEF Crash
  <2> QED BY <2>1 DEF CounterRows
<1>4. CASE NewPersistent
  BY <1>4 DEF NewPersistent, IInv, CounterRows
<1>5. CASE \E id \in PaneIDs, w, p \in Pane : Mutates(id, w, p)
  <2> PICK id \in PaneIDs, w \in Pane, p \in Pane : Mutates(id, w, p)
    BY <1>5
  <2>1. /\ nextGeneration' \in Nat /\ nextGeneration <= nextGeneration' /\ up = "up"
        /\ p.gen <= nextGeneration' /\ db' = db /\ nextGeneration \in Nat /\ db.gen \in Nat
    BY MutationPanes, CounterTypes DEF Mutates
  <2>2. \A k \in DOMAIN pending' : k \in DOMAIN pending \/ k \in {n + 1, n + 2, n + 3, n + 4}
    BY MutationRows
  <2>3. \A k \in DOMAIN pending : pending[k].table = "metadata"
            => pending[k].gen <= nextGeneration' /\ pending[k].gen \in Nat
    BY <2>1, CounterTypes DEF IInv, CounterAhead
  <2>4. \A k \in DOMAIN pending' : pending'[k].table = "metadata"
            => \/ k \in DOMAIN pending /\ pending[k].table = "metadata" /\ pending'[k] = pending[k]
               \/ k = n + 4 /\ pending'[k].gen = nextGeneration'
    BY <2>2, MutationRows
  <2>5. ASSUME NEW k \in DOMAIN pending', pending'[k].table = "metadata"
        PROVE  /\ db'.gen <= pending'[k].gen
               /\ \A j \in DOMAIN pending' : pending'[j].table = "metadata" /\ j <= k
                    => pending'[j].gen <= pending'[k].gen
    <3>1. CASE k = n + 4 /\ pending'[k].gen = nextGeneration'
      <4>1. db.gen <= nextGeneration'
        BY <2>1 DEF IInv, CounterAhead
      <4> QED BY <2>1, <2>3, <2>4, <3>1, <4>1
    <3>2. CASE k \in DOMAIN pending /\ pending[k].table = "metadata" /\ pending'[k] = pending[k]
      <4>1. \A j \in DOMAIN pending' : j <= k => j \in DOMAIN pending
        BY <3>2, MutationRows
      <4>2. db.gen <= pending[k].gen
        BY <3>2 DEF IInv, CounterRows
      <4>3. \A j \in DOMAIN pending : pending[j].table = "metadata" /\ j <= k
                => pending[j].gen <= pending[k].gen
        BY <3>2 DEF IInv, CounterRows
      <4> QED BY <2>1, <3>2, <4>1, <4>2, <4>3, MutationRows
    <3> QED BY <2>4, <2>5, <3>1, <3>2
  <2>6. ASSUME NEW k \in DOMAIN pending', pending'[k].table = "panes"
        PROVE  /\ k + 1 \in DOMAIN pending' /\ pending'[k + 1].table = "metadata"
               /\ pending'[k].value.gen <= pending'[k + 1].gen
    <3>1. CASE k \in DOMAIN pending
      <4>1. /\ k + 1 \in DOMAIN pending /\ pending[k + 1].table = "metadata"
            /\ pending[k].value.gen <= pending[k + 1].gen
        BY <2>6, <3>1, MutationRows DEF IInv, CounterRows
      <4> QED BY <3>1, <4>1, MutationRows
    <3>2. CASE k \in {n + 1, n + 2, n + 3, n + 4}
      <4>1. k = n + 3
        BY <2>6, <3>2, MutationRows
      <4>2. k + 1 = n + 4 /\ n + 4 \in DOMAIN pending'
        BY <4>1, MutationRows
      <4>3. pending'[k].value.gen = p.gen
        BY <4>1, MutationRows, StoredFacts
      <4> QED BY <2>1, <4>2, <4>3, MutationRows
    <3> QED BY <2>2, <3>1, <3>2
  <2> QED BY <2>5, <2>6 DEF CounterRows
<1> QED BY <1>1, <1>2, <1>3, <1>4, <1>5, MutationCases


\* What a commit makes of the highest generation on disk.
LEMMA CommitMark ==
    ASSUME IInv, Commit
    PROVE  LET r == pending[1] IN
           /\ r.table \in {"sessions", "tabs"} => committed' = committed
           /\ r.table = "panes" => committed' = higher(committed, r.value.gen)
           /\ r.table = "metadata" => committed' = higher(committed, r.gen)
           /\ r.table \in {"sessions", "tabs", "panes", "metadata"}
<1>1. Head(pending) = pending[1] /\ pending[1] \in Row
  BY DEF IInv, TypeOK, Commit
<1>2. committed' = higher(committed, RowGeneration(pending[1]))
  BY <1>1 DEF Commit
<1>3. committed \in Nat
  BY CounterTypes
<1>4. pending[1].table \in {"sessions", "tabs", "panes", "metadata"}
  BY <1>1, RowFacts
<1> QED BY <1>2, <1>3, <1>4 DEF RowGeneration, higher

LEMMA MarkCatchesUpStep ==
    ASSUME IInv, [Next]_vars
    PROVE  MarkCatchesUp'
<1> SUFFICES ASSUME crashes' = 0 PROVE MarkCatchesUp'
  BY DEF MarkCatchesUp
<1>1. CASE Same
  BY <1>1 DEF Same, IInv, MarkCatchesUp
<1>2. CASE Commit
  <2> DEFINE r == pending[1]
  <2>0. crashes = 0 /\ 1 \in DOMAIN pending /\ committed \in Nat /\ db.gen \in Nat
    BY <1>2, CommitRows, CommitRow, CounterTypes
  <2>1. CASE r.table = "metadata"
    <3>1. committed <= r.gen /\ r.gen \in Nat
      BY <2>0, <2>1, CounterTypes DEF IInv, MarkCatchesUp, CounterRows
    <3>2. committed' = r.gen /\ db'.gen = r.gen
      BY <1>2, <2>0, <2>1, <3>1, CommitMark, CommitRow DEF higher
    <3> QED BY <3>1, <3>2 DEF MarkCatchesUp
  <2>2. CASE r.table = "panes"
    <3>1. committed <= db.gen
      BY <2>0, <2>2 DEF IInv, MarkCatchesUp
    <3>2. /\ 1 + 1 \in DOMAIN pending /\ pending[1 + 1].table = "metadata"
          /\ r.value.gen <= pending[1 + 1].gen
      BY <2>0, <2>2 DEF IInv, CounterRows
    <3>3. 2 \in DOMAIN pending /\ pending[2].table = "metadata" /\ r.value.gen <= pending[2].gen
      BY <3>2
    <3>4. db.gen <= pending[2].gen
      BY <3>3 DEF IInv, CounterRows
    <3>5. pending' # <<>> /\ pending'[1] = pending[2]
      BY <1>2, <3>3, CommitRows
    <3>6. committed' <= pending[2].gen
      <4>1. committed' = committed \/ committed' = r.value.gen
        BY <1>2, <2>2, CommitMark DEF higher
      <4>2. pending[2].gen \in Nat
        BY <3>3, CounterTypes
      <4> QED BY <2>0, <3>1, <3>3, <3>4, <4>1, <4>2
    <3> QED BY <3>3, <3>5, <3>6 DEF MarkCatchesUp
  <2>3. CASE r.table \in {"sessions", "tabs"}
    <3>1. committed <= db.gen
      BY <2>0, <2>3 DEF IInv, MarkCatchesUp
    <3>2. committed' = committed /\ db'.gen = db.gen
      BY <1>2, <2>3, CommitMark, CommitRow
    <3> QED BY <3>1, <3>2 DEF MarkCatchesUp
  <2> QED BY <1>2, <2>1, <2>2, <2>3, CommitMark
<1>3. CASE Crash
  BY <1>3, CounterTypes DEF Crash
<1>4. CASE NewPersistent
  BY <1>4 DEF NewPersistent, IInv, MarkCatchesUp
<1>5. CASE \E id \in PaneIDs, w, p \in Pane : Mutates(id, w, p)
  <2> PICK id \in PaneIDs, w \in Pane, p \in Pane : Mutates(id, w, p)
    BY <1>5
  <2>1. crashes = 0 /\ db' = db /\ committed' = committed
    BY MutationPanes
  <2>2. pending' # <<>> /\ (pending # <<>> => pending'[1] = pending[1])
    BY MutationRows
  <2> QED BY <2>1, <2>2 DEF IInv, MarkCatchesUp
<1> QED BY <1>1, <1>2, <1>3, <1>4, <1>5, MutationCases

LEMMA MarkIsStoredStep ==
    ASSUME IInv, [Next]_vars
    PROVE  MarkIsStored'
<1> DEFINE Accounted == committed <= db.gen \/ \E id \in PaneIDs : committed <= db.panes[id].gen
<1>1. CASE Same
  BY <1>1 DEF Same, IInv, MarkIsStored
<1>2. CASE Commit
  <2> DEFINE r == pending[1]
  <2> SUFFICES ASSUME crashes = 0 PROVE Accounted'
    <3>1. up = "up"
      BY <1>2 DEF Commit, IInv, DownIsDrained
    <3> QED BY <1>2, <3>1, CommitRows DEF MarkIsStored
  <2>0. 1 \in DOMAIN pending /\ committed \in Nat /\ db.gen \in Nat
    BY <1>2, CommitRow, CounterTypes
  <2>1. CASE r.table = "metadata"
    <3>1. committed <= r.gen /\ r.gen \in Nat
      BY <2>0, <2>1, CounterTypes DEF IInv, MarkCatchesUp, CounterRows
    <3>2. committed' = r.gen /\ db'.gen = r.gen
      BY <1>2, <2>0, <2>1, <3>1, CommitMark, CommitRow DEF higher
    <3> QED BY <3>1, <3>2
  <2>2. CASE r.table = "panes"
    <3>1. committed <= db.gen /\ db'.gen = db.gen
      BY <1>2, <2>0, <2>2, CommitRow DEF IInv, MarkCatchesUp
    <3>2. r.id \in PaneIDs /\ db'.panes[r.id] = r.value /\ r.value.gen \in Nat
      BY <1>2, <2>0, <2>2, CommitRow, CounterTypes
    <3>3. committed' = committed \/ committed' = r.value.gen
      BY <1>2, <2>2, CommitMark DEF higher
    <3> QED BY <3>1, <3>2, <3>3
  <2>3. CASE r.table \in {"sessions", "tabs"}
    <3>1. committed <= db.gen
      BY <2>0, <2>3 DEF IInv, MarkCatchesUp
    <3>2. committed' = committed /\ db'.gen = db.gen
      BY <1>2, <2>3, CommitMark, CommitRow
    <3> QED BY <3>1, <3>2
  <2> QED BY <1>2, <2>1, <2>2, <2>3, CommitMark
<1>3. CASE Crash
  <2>1. /\ crashes' = crashes + 1 /\ db' = db /\ committed' = committed /\ crashes \in Nat
    BY <1>3, CounterTypes DEF Crash
  <2>2. crashes' = 0 \/ crashes' = 1 => crashes = 0
    BY <2>1
  <2> QED BY <2>1, <2>2 DEF IInv, MarkIsStored
<1>4. CASE NewPersistent
  <2>1. UNCHANGED <<db, committed, crashes>> /\ up = "down"
    BY <1>4 DEF NewPersistent
  <2> QED BY <2>1 DEF IInv, MarkIsStored
<1>5. CASE \E id \in PaneIDs, w, p \in Pane : Mutates(id, w, p)
  BY <1>5, MutationPanes DEF IInv, MarkIsStored
<1> QED BY <1>1, <1>2, <1>3, <1>4, <1>5, MutationCases

LEMMA NeverReusedStep ==
    ASSUME IInv, [Next]_vars
    PROVE  GenerationNeverReused'
<1> SUFFICES ASSUME crashes' <= 1, up' = "up" PROVE nextGeneration' >= committed'
  BY DEF GenerationNeverReused, HighWaterMarkKept
<1>1. CASE Same
  BY <1>1 DEF Same, IInv, GenerationNeverReused, HighWaterMarkKept
<1>2. CASE Commit
  <2> DEFINE r == pending[1]
  <2>1. up = "up" /\ nextGeneration' = nextGeneration /\ nextGeneration >= committed
    BY <1>2, CommitRows DEF IInv, GenerationNeverReused, HighWaterMarkKept
  <2>2. 1 \in DOMAIN pending
    BY <1>2, CommitRow
  <2>3. r.table = "panes" => r.value.gen <= nextGeneration
    BY <2>1, <2>2, CounterTypes DEF IInv, CounterAhead, Holds, PaneRow
  <2>4. r.table = "metadata" => r.gen <= nextGeneration
    BY <2>1, <2>2 DEF IInv, CounterAhead
  <2>5. CASE r.table = "panes"
    BY <1>2, <2>1, <2>2, <2>3, <2>5, CommitMark, CounterTypes DEF higher
  <2>6. CASE r.table = "metadata"
    BY <1>2, <2>1, <2>2, <2>4, <2>6, CommitMark, CounterTypes DEF higher
  <2> QED BY <1>2, <2>1, <2>5, <2>6, CommitMark
<1>3. CASE Crash
  BY <1>3 DEF Crash
<1>4. CASE NewPersistent
  <2>1. /\ RestoredGeneration(db, nextGeneration') /\ committed' = committed
        /\ up = "down" /\ crashes' = crashes
    BY <1>4 DEF NewPersistent
  <2>2. committed <= db.gen \/ \E id \in PaneIDs : committed <= db.panes[id].gen
    BY <2>1, CounterTypes DEF IInv, MarkIsStored
  <2>3. nextGeneration' \in Nat
    BY TypeStep DEF IInv, TypeOK
  <2> QED BY <2>1, <2>2, <2>3, CounterTypes DEF RestoredGeneration
<1>5. CASE \E id \in PaneIDs, w, p \in Pane : Mutates(id, w, p)
  <2> PICK id \in PaneIDs, w \in Pane, p \in Pane : Mutates(id, w, p)
    BY <1>5
  <2>1. up = "up" /\ crashes' = crashes /\ committed' = committed
    BY MutationPanes
  <2>2. nextGeneration' \in Nat /\ nextGeneration <= nextGeneration' /\ nextGeneration >= committed
    BY <2>1 DEF IInv, GenerationNeverReused, HighWaterMarkKept, Mutates
  <2> QED BY <2>1, <2>2, CounterTypes
<1> QED BY <1>1, <1>2, <1>3, <1>4, <1>5, MutationCases


\* Sessions and tabs are never deleted from the store.
LEMMA ParentsStay ==
    ASSUME IInv, Commit
    PROVE  db.sessions \subseteq db'.sessions /\ db.tabs \subseteq db'.tabs
<1>1. pending[1].table = "sessions" \/ db'.sessions = db.sessions
  BY CommitRow
<1>2. pending[1].table = "tabs" \/ db'.tabs = db.tabs
  BY CommitRow
<1> QED BY <1>1, <1>2, CommitRow

LEMMA ParentsFirstStep ==
    ASSUME IInv, [Next]_vars
    PROVE  ParentsFirst'
<1> DEFINE n == Len(pending)
<1>1. CASE Same
  BY <1>1 DEF Same, IInv, ParentsFirst
<1>2. CASE Commit
  <2> SUFFICES ASSUME NEW k \in DOMAIN pending', pending'[k].table = "panes",
                      pending'[k].value.gen # 0
               PROVE  /\ \/ pending'[k].value.session \in db'.sessions
                         \/ \E j \in DOMAIN pending' : j < k /\ pending'[j].table = "sessions"
                               /\ pending'[j].session = pending'[k].value.session
                      /\ \/ <<pending'[k].value.session, pending'[k].value.tab>> \in db'.tabs
                         \/ \E j \in DOMAIN pending' : j < k /\ pending'[j].table = "tabs"
                               /\ pending'[j].session = pending'[k].value.session
                               /\ pending'[j].tab = pending'[k].value.tab
    BY DEF ParentsFirst
  <2> DEFINE v == pending[k + 1].value
  <2>1. k \in Nat /\ k + 1 \in DOMAIN pending /\ pending'[k] = pending[k + 1]
    BY <1>2, CommitRows
  <2>2. \A j \in DOMAIN pending : j < k + 1 /\ j # 1
            => \E i \in DOMAIN pending' : i < k /\ pending'[i] = pending[j]
    <3> SUFFICES ASSUME NEW j \in DOMAIN pending, j < k + 1, j # 1
                 PROVE  j - 1 \in DOMAIN pending' /\ j - 1 < k /\ pending'[j - 1] = pending[j]
      OBVIOUS
    <3>1. j - 1 \in DOMAIN pending' /\ j - 1 < k /\ (j - 1) + 1 = j
      BY <1>2, <2>1, CommitRows
    <3> QED BY <1>2, <3>1, CommitRows
  <2>3. \/ v.session \in db'.sessions
        \/ \E j \in DOMAIN pending' : j < k /\ pending'[j].table = "sessions"
                               /\ pending'[j].session = v.session
    <3>1. \/ v.session \in db.sessions
          \/ \E j \in DOMAIN pending : j < k + 1 /\ pending[j].table = "sessions"
                    /\ pending[j].session = v.session
      BY <2>1 DEF IInv, ParentsFirst
    <3>2. CASE v.session \in db.sessions
      BY <1>2, <3>2, ParentsStay
    <3>3. CASE \E j \in DOMAIN pending : j < k + 1 /\ pending[j].table = "sessions"
                    /\ pending[j].session = v.session
      BY <1>2, <2>2, <3>3, CommitRow
    <3> QED BY <3>1, <3>2, <3>3
  <2>4. \/ <<v.session, v.tab>> \in db'.tabs
        \/ \E j \in DOMAIN pending' : j < k /\ pending'[j].table = "tabs"
                               /\ pending'[j].session = v.session /\ pending'[j].tab = v.tab
    <3>1. \/ <<v.session, v.tab>> \in db.tabs
          \/ \E j \in DOMAIN pending : j < k + 1 /\ pending[j].table = "tabs"
                    /\ pending[j].session = v.session /\ pending[j].tab = v.tab
      BY <2>1 DEF IInv, ParentsFirst
    <3>2. CASE <<v.session, v.tab>> \in db.tabs
      BY <1>2, <3>2, ParentsStay
    <3>3. CASE \E j \in DOMAIN pending : j < k + 1 /\ pending[j].table = "tabs"
                    /\ pending[j].session = v.session /\ pending[j].tab = v.tab
      BY <1>2, <2>2, <3>3, CommitRow
    <3> QED BY <3>1, <3>2, <3>3
  <2> QED BY <2>1, <2>3, <2>4
<1>3. CASE Crash
  <2>1. DOMAIN pending' = {}
    BY <1>3 DEF Crash
  <2> QED BY <2>1 DEF ParentsFirst
<1>4. CASE NewPersistent
  BY <1>4 DEF NewPersistent, IInv, ParentsFirst
<1>5. CASE \E id \in PaneIDs, w, p \in Pane : Mutates(id, w, p)
  <2> PICK id \in PaneIDs, w \in Pane, p \in Pane : Mutates(id, w, p)
    BY <1>5
  <2> SUFFICES ASSUME NEW k \in DOMAIN pending', pending'[k].table = "panes",
                      pending'[k].value.gen # 0
               PROVE  /\ \/ pending'[k].value.session \in db'.sessions
                         \/ \E j \in DOMAIN pending' : j < k /\ pending'[j].table = "sessions"
                               /\ pending'[j].session = pending'[k].value.session
                      /\ \/ <<pending'[k].value.session, pending'[k].value.tab>> \in db'.tabs
                         \/ \E j \in DOMAIN pending' : j < k /\ pending'[j].table = "tabs"
                               /\ pending'[j].session = pending'[k].value.session
                               /\ pending'[j].tab = pending'[k].value.tab
    BY DEF ParentsFirst
  <2>1. k \in DOMAIN pending \/ k \in {n + 1, n + 2, n + 3, n + 4}
    BY MutationRows
  <2>2. CASE k \in DOMAIN pending
    <3>1. pending'[k] = pending[k] /\ db' = db /\ DOMAIN pending \subseteq DOMAIN pending'
      BY <2>2, MutationRows, MutationPanes
    <3>2. \/ pending[k].value.session \in db.sessions
          \/ \E j \in DOMAIN pending : j < k /\ pending[j].table = "sessions"
                    /\ pending[j].session = pending[k].value.session
      BY <2>2, <3>1 DEF IInv, ParentsFirst
    <3>3. \/ <<pending[k].value.session, pending[k].value.tab>> \in db.tabs
          \/ \E j \in DOMAIN pending : j < k /\ pending[j].table = "tabs"
                    /\ pending[j].session = pending[k].value.session
                    /\ pending[j].tab = pending[k].value.tab
      BY <2>2, <3>1 DEF IInv, ParentsFirst
    <3>4. \A j \in DOMAIN pending : pending'[j] = pending[j]
      BY MutationRows
    <3> QED BY <3>1, <3>2, <3>3, <3>4
  <2>3. CASE k \in {n + 1, n + 2, n + 3, n + 4}
    <3>1. k = n + 3 /\ pending'[k].value = Stored(p)
      BY <2>3, MutationRows
    <3>2. p = w
      BY <3>1, StoredFacts DEF Mutates
    <3>3. pending'[k].value.session = w.session /\ pending'[k].value.tab = w.tab
      BY <3>1, <3>2, StoredFacts
    <3>4. n + 1 < k /\ n + 2 < k /\ n + 1 \in DOMAIN pending' /\ n + 2 \in DOMAIN pending'
      BY <3>1, MutationRows
    <3> QED BY <3>3, <3>4, MutationRows
  <2> QED BY <2>1, <2>2, <2>3
<1> QED BY <1>1, <1>2, <1>3, <1>4, <1>5, MutationCases

LEMMA HierarchyStep ==
    ASSUME IInv, [Next]_vars
    PROVE  HierarchyRestorable'
<1>1. CASE Commit
  <2> SUFFICES ASSUME NEW id \in PaneIDs, db'.panes[id].gen # 0
               PROVE  /\ db'.panes[id].session \in db'.sessions
                      /\ <<db'.panes[id].session, db'.panes[id].tab>> \in db'.tabs
    BY DEF HierarchyRestorable, HasParents
  <2> DEFINE r == pending[1]
  <2>1. CASE r.table = "panes" /\ r.id = id
    <3>1. db'.panes[id] = r.value /\ 1 \in DOMAIN pending /\ r.value.gen # 0
      BY <1>1, <2>1, CommitRow
    <3>2. \A j \in DOMAIN pending : ~(j < 1)
      BY <1>1, CommitRows
    <3>3. r.value.session \in db.sessions /\ <<r.value.session, r.value.tab>> \in db.tabs
      BY <2>1, <3>1, <3>2 DEF IInv, ParentsFirst
    <3> QED BY <1>1, <3>1, <3>3, ParentsStay
  <2>2. CASE ~(r.table = "panes" /\ r.id = id)
    <3>1. db'.panes[id] = db.panes[id]
      BY <1>1, <2>2, CommitRow
    <3>2. db.panes[id].session \in db.sessions /\ <<db.panes[id].session, db.panes[id].tab>> \in db.tabs
      BY <3>1 DEF IInv, HierarchyRestorable, HasParents
    <3> QED BY <1>1, <3>1, <3>2, ParentsStay
  <2> QED BY <2>1, <2>2
<1>2. CASE UNCHANGED db
  BY <1>2 DEF IInv, HierarchyRestorable, HasParents
<1>3. Commit \/ UNCHANGED db
  BY MutationCases, MutationPanes DEF Same, Crash, NewPersistent
<1> QED BY <1>1, <1>2, <1>3

LEMMA DrainedStep ==
    ASSUME IInv, [Next]_vars
    PROVE  DownIsDrained'
<1>1. CASE Same \/ Crash \/ NewPersistent
  BY <1>1 DEF Same, Crash, NewPersistent, IInv, DownIsDrained
<1>2. CASE Commit
  BY <1>2 DEF Commit, IInv, DownIsDrained
<1>3. CASE \E id \in PaneIDs, w, p \in Pane : Mutates(id, w, p)
  BY <1>3, MutationPanes DEF DownIsDrained
<1> QED BY <1>1, <1>2, <1>3, MutationCases

LEMMA TransientStep ==
    ASSUME IInv, [Next]_vars
    PROVE  ClaimsAreTransient'
<1> DEFINE n == Len(pending)
<1>1. CASE Same \/ NewPersistent
  BY <1>1 DEF Same, NewPersistent, IInv, ClaimsAreTransient
<1>2. CASE Commit
  <2>1. ASSUME NEW id \in PaneIDs PROVE ~db'.panes[id].claimed
    BY <1>2, CommitRow DEF IInv, ClaimsAreTransient
  <2>2. \A k \in DOMAIN pending' : pending'[k].table = "panes" => ~pending'[k].value.claimed
    BY <1>2, CommitRows DEF IInv, ClaimsAreTransient
  <2> QED BY <2>1, <2>2 DEF ClaimsAreTransient
<1>3. CASE Crash
  <2>1. DOMAIN pending' = {} /\ db' = db
    BY <1>3 DEF Crash
  <2> QED BY <2>1 DEF IInv, ClaimsAreTransient
<1>4. CASE \E id \in PaneIDs, w, p \in Pane : Mutates(id, w, p)
  <2> PICK id \in PaneIDs, w \in Pane, p \in Pane : Mutates(id, w, p)
    BY <1>4
  <2>1. ASSUME NEW k \in DOMAIN pending', pending'[k].table = "panes"
        PROVE  ~pending'[k].value.claimed
    <3>1. CASE k \in DOMAIN pending
      BY <2>1, <3>1, MutationRows DEF IInv, ClaimsAreTransient
    <3>2. CASE k \in {n + 1, n + 2, n + 3, n + 4}
      <4>1. pending'[k].value = Stored(p)
        BY <2>1, <3>2, MutationRows
      <4> QED BY <4>1, StoredFacts
    <3> QED BY <3>1, <3>2, MutationRows
  <2> QED BY <2>1, MutationPanes DEF IInv, ClaimsAreTransient
<1> QED BY <1>1, <1>2, <1>3, <1>4, MutationCases


LEMMA ReplayStep ==
    ASSUME IInv, [Next]_vars
    PROVE  ReplayYieldsMemory'
<1> SUFFICES ASSUME up' = "up", NEW i \in PaneIDs
             PROVE  /\ (\A k \in DOMAIN pending' : ~PaneRow(k, i)')
                            => db'.panes[i] = Stored(panes'[i])
                    /\ \A k \in DOMAIN pending' :
                          PaneRow(k, i)' /\ (\A j \in DOMAIN pending' : PaneRow(j, i)' => j <= k)
                              => pending'[k].value = Stored(panes'[i])
  BY DEF ReplayYieldsMemory, Stored
<1> DEFINE n == Len(pending)
<1>1. CASE Same
  BY <1>1 DEF Same, IInv, ReplayYieldsMemory, PaneRow
<1>2. CASE Commit
  <2>0. up = "up" /\ panes' = panes
    BY <1>2, CommitRows
  <2>1. /\ (\A k \in DOMAIN pending : ~PaneRow(k, i)) => db.panes[i] = Stored(panes[i])
        /\ \A k \in DOMAIN pending :
              PaneRow(k, i) /\ (\A j \in DOMAIN pending : PaneRow(j, i) => j <= k)
                  => pending[k].value = Stored(panes[i])
    BY <2>0 DEF IInv, ReplayYieldsMemory
  <2>2. \A j \in DOMAIN pending : j # 1 => j - 1 \in DOMAIN pending' /\ (PaneRow(j, i) <=> PaneRow(j - 1, i)')
    <3> SUFFICES ASSUME NEW j \in DOMAIN pending, j # 1
                 PROVE  j - 1 \in DOMAIN pending' /\ pending'[j - 1] = pending[j]
      BY DEF PaneRow
    <3>1. j - 1 \in DOMAIN pending' /\ (j - 1) + 1 = j
      BY <1>2, CommitRows
    <3> QED BY <1>2, <3>1, CommitRows
  <2>3. ASSUME \A k \in DOMAIN pending' : ~PaneRow(k, i)'
        PROVE  db'.panes[i] = Stored(panes[i])
    <3>1. \A j \in DOMAIN pending : PaneRow(j, i) => j <= 1
      BY <2>2, <2>3
    <3>2. CASE PaneRow(1, i)
      <4>1. pending[1].value = Stored(panes[i])
        BY <1>2, <2>1, <3>1, <3>2, CommitRow
      <4> QED BY <1>2, <3>2, <4>1, CommitRow DEF PaneRow
    <3>3. CASE ~PaneRow(1, i)
      <4>1. db.panes[i] = Stored(panes[i])
        BY <2>1, <2>2, <2>3, <3>3
      <4> QED BY <1>2, <3>3, <4>1, CommitRow DEF PaneRow
    <3> QED BY <3>2, <3>3
  <2>4. ASSUME NEW k \in DOMAIN pending', PaneRow(k, i)',
               \A j \in DOMAIN pending' : PaneRow(j, i)' => j <= k
        PROVE  pending'[k].value = Stored(panes[i])
    <3>1. k \in Nat /\ k >= 1 /\ k + 1 \in DOMAIN pending /\ pending'[k] = pending[k + 1]
      BY <1>2, CommitRows
    <3>2. \A j \in DOMAIN pending : PaneRow(j, i) => j <= k + 1
      <4> SUFFICES ASSUME NEW j \in DOMAIN pending, PaneRow(j, i), j # 1
                   PROVE  j <= k + 1
        BY <3>1
      <4>1. j - 1 <= k
        BY <2>2, <2>4
      <4>2. j \in Nat
        BY <1>2, CommitRows
      <4> QED BY <3>1, <4>1, <4>2
    <3>3. PaneRow(k + 1, i)
      BY <2>4, <3>1 DEF PaneRow
    <3> QED BY <2>1, <3>1, <3>2, <3>3
  <2> QED BY <2>0, <2>3, <2>4
<1>3. CASE Crash
  BY <1>3 DEF Crash
<1>4. CASE NewPersistent
  <2>1. up = "down" /\ panes' = db.panes /\ db' = db /\ pending' = pending
    BY <1>4 DEF NewPersistent
  <2>2. pending' = <<>>
    BY <2>1 DEF IInv, DownIsDrained
  <2>3. DOMAIN pending' = {}
    BY <2>2
  <2>4. Stored(db.panes[i]) = db.panes[i]
    BY CounterTypes, StoredFacts DEF IInv, ClaimsAreTransient
  <2> QED BY <2>1, <2>3, <2>4
<1>5. CASE \E id \in PaneIDs, w, p \in Pane : Mutates(id, w, p)
  <2> PICK id \in PaneIDs, w \in Pane, p \in Pane : Mutates(id, w, p)
    BY <1>5
  <2>0. up = "up" /\ db' = db
    BY MutationPanes
  <2>1. CASE i = id
    <3>0. n + 3 \in DOMAIN pending'
      BY MutationRows
    <3> PICK m \in DOMAIN pending' : m = n + 3
      BY <3>0
    <3>1. PaneRow(m, i)'
      BY <2>1, MutationRows DEF PaneRow
    <3>2. ASSUME NEW k \in DOMAIN pending', PaneRow(k, i)', n + 3 <= k
          PROVE  pending'[k].value = Stored(panes'[i])
      <4>1. k = n + 3
        <5>1. k = n + 3 \/ k = n + 4
          BY <3>2, MutationRows
        <5> QED BY <3>2, <5>1, MutationRows DEF PaneRow
      <4> QED BY <2>1, <4>1, MutationRows, MutationPanes
    <3> QED BY <3>1, <3>2
  <2>2. CASE i # id
    <3>1. panes'[i] = panes[i]
      BY <2>2, MutationPanes
    <3>2. \A k \in DOMAIN pending' : PaneRow(k, i)'
              => k \in DOMAIN pending /\ PaneRow(k, i) /\ pending'[k] = pending[k]
      <4> SUFFICES ASSUME NEW k \in DOMAIN pending', PaneRow(k, i)'
                   PROVE  k \in DOMAIN pending /\ PaneRow(k, i) /\ pending'[k] = pending[k]
        OBVIOUS
      <4>1. k \in DOMAIN pending \/ k \in {n + 1, n + 2, n + 3, n + 4}
        BY MutationRows
      <4>2. k \notin {n + 1, n + 2, n + 3, n + 4}
        BY <2>2, MutationRows DEF PaneRow
      <4> QED BY <4>1, <4>2, MutationRows DEF PaneRow
    <3>3. \A k \in DOMAIN pending : PaneRow(k, i) => k \in DOMAIN pending' /\ PaneRow(k, i)'
      BY MutationRows DEF PaneRow
    <3>4. /\ (\A k \in DOMAIN pending : ~PaneRow(k, i)) => db.panes[i] = Stored(panes[i])
          /\ \A k \in DOMAIN pending :
                PaneRow(k, i) /\ (\A j \in DOMAIN pending : PaneRow(j, i) => j <= k)
                    => pending[k].value = Stored(panes[i])
      BY <2>0 DEF IInv, ReplayYieldsMemory
    <3> QED BY <2>0, <3>1, <3>2, <3>3, <3>4
  <2> QED BY <2>1, <2>2
<1> QED BY <1>1, <1>2, <1>3, <1>4, <1>5, MutationCases

LEMMA LatestStep ==
    ASSUME IInv, [Next]_vars
    PROVE  LatestIsLatest'
<1> SUFFICES ASSUME up' = "up", NEW y \in ZellijPaneIDs, NEW i \in latestByZellij'[y]
             PROVE  /\ panes'[i].gen # 0 /\ panes'[i].zellij = y
                    /\ \A j \in PaneIDs : panes'[j].zellij = y => panes'[j].gen <= panes'[i].gen
  BY DEF LatestIsLatest, exists
<1>0. ASSUME up = "up", NEW x \in latestByZellij[y]
      PROVE  /\ x \in PaneIDs /\ panes[x].gen # 0 /\ panes[x].zellij = y
             /\ \A j \in PaneIDs : panes[j].zellij = y => panes[j].gen <= panes[x].gen
  BY <1>0 DEF IInv, LatestIsLatest, exists, TypeOK
<1>1. CASE Same
  BY <1>0, <1>1 DEF Same
<1>2. CASE Commit
  BY <1>0, <1>2, CommitRows
<1>3. CASE Crash
  BY <1>3 DEF Crash
<1>4. CASE NewPersistent
  <2>1. panes' = db.panes /\ latestByZellij' = [z \in ZellijPaneIDs |-> Latest(db, z)]
    BY <1>4 DEF NewPersistent
  <2> QED BY <2>1 DEF Latest
<1>5. CASE \E id \in PaneIDs, s \in SessionIDs, t \in TabIDs, z \in ZellijPaneIDs :
               RegisterPane(id, s, t, z)
  <2> PICK id \in PaneIDs, s \in SessionIDs, t \in TabIDs, z \in ZellijPaneIDs :
               RegisterPane(id, s, t, z)
    BY <1>5
  <2> PICK p \in Pane : /\ p.gen = nextGeneration + 1 /\ p.zellij = z
                        /\ panes' = [panes EXCEPT ![id] = p]
    BY RegisterRecord DEF IInv
  <2>1. /\ panes[id].gen = 0 /\ up = "up"
        /\ latestByZellij' = [latestByZellij EXCEPT ![z] = {id}]
    BY DEF RegisterPane, exists
  <2>2. panes'[id] = p /\ \A j \in PaneIDs : j # id => panes'[j] = panes[j]
    BY DEF IInv, TypeOK
  <2>3. \A j \in PaneIDs : panes[j].gen <= nextGeneration
    BY <2>1, CounterTypes DEF IInv, CounterAhead, Holds
  <2>4. CASE y = z
    <3>1. i = id
      BY <2>1, <2>4 DEF IInv, TypeOK
    <3> QED BY <2>2, <2>3, <2>4, <3>1, CounterTypes
  <2>5. CASE y # z
    <3>1. i \in latestByZellij[y]
      BY <2>1, <2>5 DEF IInv, TypeOK
    <3>2. i \in PaneIDs /\ i # id
      BY <1>0, <2>1, <3>1
    <3> QED BY <1>0, <2>1, <2>2, <2>5, <3>1, <3>2
  <2> QED BY <2>4, <2>5
<1>6. CASE \E id \in PaneIDs : Quiet /\ Removes(id)
  <2> PICK id \in PaneIDs : Quiet /\ Removes(id)
    BY <1>6
  <2>1. /\ panes' = [panes EXCEPT ![id] = NoPane] /\ up = "up"
        /\ latestByZellij' = [latestByZellij EXCEPT ![panes[id].zellij] = @ \ {id}]
    BY DEF Removes, removePaneLocked, Quiet
  <2>2. panes'[id].gen = 0 /\ \A j \in PaneIDs : j # id => panes'[j] = panes[j]
    BY <2>1, NoPaneType DEF IInv, TypeOK
  <2>3. i \in latestByZellij[y] /\ ~(y = panes[id].zellij /\ i = id)
    <3>1. latestByZellij \in [ZellijPaneIDs -> SUBSET PaneIDs]
      BY DEF IInv, TypeOK
    <3> QED BY <2>1, <3>1
  <2>4. i \in PaneIDs /\ i # id
    BY <1>0, <2>1, <2>3
  <2> QED BY <1>0, <2>1, <2>2, <2>3, <2>4, CounterTypes
<1>7. CASE \E id \in PaneIDs, p \in Pane : Quiet /\ Puts(id, p)
  <2> PICK id \in PaneIDs, p \in Pane : Quiet /\ Puts(id, p)
    BY <1>7
  <2>1. /\ panes' = [panes EXCEPT ![id] = p] /\ up = "up" /\ latestByZellij' = latestByZellij
        /\ p.gen = panes[id].gen /\ p.zellij = panes[id].zellij
    BY DEF Puts, put, Quiet
  <2>2. \A j \in PaneIDs : panes'[j].gen = panes[j].gen /\ panes'[j].zellij = panes[j].zellij
    BY <2>1 DEF IInv, TypeOK
  <2> QED BY <1>0, <2>1, <2>2
<1> QED BY <1>1, <1>2, <1>3, <1>4, <1>5, <1>6, <1>7, StepCases DEF IInv


\* A step that announces a generation for the first time keeps its record claimed or
\* removes it.
LEMMA AnnounceStep ==
    ASSUME IInv, NEW id \in PaneIDs, NEW p \in Pane, Quiet, Announces(id), panes[id].gen # 0,
           panes' = [panes EXCEPT ![id] = p], nextGeneration' = nextGeneration,
           p.gen = 0 \/ (p.gen = panes[id].gen /\ p.claimed)
    PROVE  ClosureAnnouncedOnce' /\ AnnouncedIsClaimed'
<1> DEFINE h == panes[id].gen
<1>1. notices \in [1..MaxGeneration -> Nat] /\ notices' = [notices EXCEPT ![h] = @ + 1]
      /\ up = "up" /\ ~panes[id].claimed
  BY DEF IInv, TypeOK, Announces, Quiet
<1>2. \A g \in DOMAIN notices : notices[g] <= 1
  BY DEF IInv, ClosureAnnouncedOnce
<1>3. \A g \in DOMAIN notices : notices[g] = 1
        => g <= nextGeneration /\ \A j \in PaneIDs : panes[j].gen = g => panes[j].claimed
  BY <1>1 DEF IInv, AnnouncedIsClaimed
<1>4. h \in DOMAIN notices => notices[h] = 0
  BY <1>1, <1>2, <1>3
<1>5. DOMAIN notices' = DOMAIN notices /\ (h \in DOMAIN notices => notices'[h] = 1)
      /\ \A g \in DOMAIN notices : g # h => notices'[g] = notices[g]
  BY <1>1, <1>4
<1>6. panes'[id] = p /\ \A j \in PaneIDs : j # id => panes'[j] = panes[j]
  BY DEF IInv, TypeOK
<1>7. h \in Nat \ {0} /\ h <= nextGeneration /\ \A j \in PaneIDs : panes[j].gen = h => j = id
  BY <1>1, CounterTypes DEF IInv, CounterAhead, OneOwner, Holds
<1>8. ClosureAnnouncedOnce'
  BY <1>2, <1>5 DEF ClosureAnnouncedOnce
<1>9. ASSUME NEW g \in DOMAIN notices', notices'[g] = 1
      PROVE  g <= nextGeneration' /\ \A j \in PaneIDs : panes'[j].gen = g => panes'[j].claimed
  <2>1. CASE g = h
    <3>1. \A j \in PaneIDs : panes'[j].gen = g => j = id /\ panes'[j] = p
      BY <1>6, <1>7, <2>1
    <3> QED BY <1>7, <2>1, <3>1
  <2>2. CASE g # h
    <3>1. notices[g] = 1 /\ g \in DOMAIN notices /\ g # 0
      BY <1>1, <1>5, <1>9, <2>2
    <3>2. g <= nextGeneration /\ \A j \in PaneIDs : panes[j].gen = g => panes[j].claimed
      BY <1>3, <3>1
    <3> QED BY <1>6, <2>2, <3>1, <3>2
  <2> QED BY <2>1, <2>2
<1>10. AnnouncedIsClaimed'
  BY <1>9 DEF AnnouncedIsClaimed
<1> QED BY <1>8, <1>10

LEMMA AnnouncedStep ==
    ASSUME IInv, [Next]_vars
    PROVE  ClosureAnnouncedOnce' /\ AnnouncedIsClaimed'
<1>1. \A g \in DOMAIN notices : notices[g] <= 1
  BY DEF IInv, ClosureAnnouncedOnce
<1>2. ASSUME up = "up"
      PROVE  \A g \in DOMAIN notices : notices[g] = 1
                => g <= nextGeneration /\ \A j \in PaneIDs : panes[j].gen = g => panes[j].claimed
  BY <1>2 DEF IInv, AnnouncedIsClaimed
<1>3. ASSUME notices' = notices PROVE ClosureAnnouncedOnce'
  BY <1>1, <1>3 DEF ClosureAnnouncedOnce
<1>4. CASE Same
  BY <1>3, <1>4 DEF Same, IInv, AnnouncedIsClaimed
<1>5. CASE Commit
  BY <1>2, <1>3, <1>5, CommitRows DEF AnnouncedIsClaimed
<1>6. CASE Crash
  BY <1>3, <1>6 DEF Crash, AnnouncedIsClaimed
<1>7. CASE NewPersistent
  <2>1. CASE Loadable(db)
    <3>1. notices' = [g \in 1..MaxGeneration |-> 0]
      BY <1>7, <2>1 DEF NewPersistent
    <3> QED BY <3>1 DEF ClosureAnnouncedOnce, AnnouncedIsClaimed
  <2>2. CASE ~Loadable(db)
    <3>1. notices' = notices /\ up' = "refused"
      BY <1>7, <2>2 DEF NewPersistent
    <3> QED BY <1>3, <3>1 DEF AnnouncedIsClaimed
  <2> QED BY <2>1, <2>2
<1>8. CASE \E id \in PaneIDs, s \in SessionIDs, t \in TabIDs, z \in ZellijPaneIDs :
               RegisterPane(id, s, t, z)
  <2> PICK id \in PaneIDs, s \in SessionIDs, t \in TabIDs, z \in ZellijPaneIDs :
               RegisterPane(id, s, t, z)
    BY <1>8
  <2> PICK p \in Pane : p.gen = nextGeneration + 1 /\ panes' = [panes EXCEPT ![id] = p]
    BY RegisterRecord DEF IInv
  <2>1. up = "up" /\ notices' = notices /\ nextGeneration' = nextGeneration + 1
    BY DEF RegisterPane
  <2>2. panes'[id] = p /\ \A j \in PaneIDs : j # id => panes'[j] = panes[j]
    BY DEF IInv, TypeOK
  <2>3. DOMAIN notices = 1..MaxGeneration /\ MaxGeneration \in Nat
    BY RegistryAssumption DEF IInv, TypeOK
  <2>4. ASSUME NEW g \in DOMAIN notices, notices[g] = 1
        PROVE  g <= nextGeneration' /\ \A j \in PaneIDs : panes'[j].gen = g => panes'[j].claimed
    <3>1. g <= nextGeneration /\ \A j \in PaneIDs : panes[j].gen = g => panes[j].claimed
      BY <1>2, <2>1, <2>4
    <3> QED BY <2>1, <2>2, <2>3, <3>1, CounterTypes
  <2> QED BY <1>3, <2>1, <2>4 DEF AnnouncedIsClaimed
<1>9. CASE \E id \in PaneIDs : Quiet /\ Removes(id)
  <2> PICK id \in PaneIDs : Quiet /\ Removes(id)
    BY <1>9
  <2>1. /\ panes' = [panes EXCEPT ![id] = NoPane] /\ up = "up" /\ nextGeneration' = nextGeneration
        /\ panes[id].gen # 0
    BY DEF Removes, removePaneLocked, Quiet, exists
  <2>2. CASE Announces(id)
    BY <2>1, <2>2, AnnounceStep, NoPaneType
  <2>3. CASE UNCHANGED notices
    <3>1. panes'[id].gen = 0 /\ \A j \in PaneIDs : j # id => panes'[j] = panes[j]
      BY <2>1, NoPaneType DEF IInv, TypeOK
    <3>2. \A g \in DOMAIN notices : g # 0
      BY DEF IInv, TypeOK
    <3> QED BY <1>2, <1>3, <2>1, <2>3, <3>1, <3>2 DEF AnnouncedIsClaimed
  <2> QED BY <2>2, <2>3 DEF Removes
<1>10. CASE \E id \in PaneIDs, p \in Pane : Quiet /\ Puts(id, p)
  <2> PICK id \in PaneIDs, p \in Pane : Quiet /\ Puts(id, p)
    BY <1>10
  <2>1. /\ panes' = [panes EXCEPT ![id] = p] /\ up = "up" /\ nextGeneration' = nextGeneration
        /\ panes[id].gen # 0 /\ p.gen = panes[id].gen /\ (panes[id].claimed => p.claimed)
    BY DEF Puts, put, Quiet, exists
  <2>2. CASE Announces(id) /\ p.claimed
    BY <2>1, <2>2, AnnounceStep
  <2>3. CASE UNCHANGED notices
    <3>1. panes'[id] = p /\ \A j \in PaneIDs : j # id => panes'[j] = panes[j]
      BY <2>1 DEF IInv, TypeOK
    <3> QED BY <1>2, <1>3, <2>1, <2>3, <3>1 DEF AnnouncedIsClaimed
  <2> QED BY <2>2, <2>3 DEF Puts
<1> QED BY <1>4, <1>5, <1>6, <1>7, <1>8, <1>9, <1>10, StepCases DEF IInv

-----------------------------------------------------------------------------
(* Theorems                                                                *)

LEMMA InvInit == Init => IInv
<1> SUFFICES ASSUME Init PROVE IInv
  OBVIOUS
<1>1. TypeOK
  BY TypeInit
<1>2. DOMAIN pending = {} /\ pending = <<>> /\ up = "up" /\ committed = 0 /\ nextGeneration = 0
      /\ \A id \in PaneIDs : panes[id] = NoPane /\ db.panes[id] = NoPane
  BY DEF Init
<1>3. /\ db.gen = 0 /\ DOMAIN notices = 1..MaxGeneration
      /\ \A g \in DOMAIN notices : notices[g] = 0
      /\ \A z \in ZellijPaneIDs : latestByZellij[z] = {}
  BY DEF Init
<1>4. \A id \in PaneIDs, g \in Nat : Holds(id, g) => g = 0
  BY <1>2, NoPaneType DEF Holds
<1>5. OneOwner /\ CounterAhead
  BY <1>2, <1>3, <1>4 DEF OneOwner, CounterAhead
<1>6. CounterRows /\ MarkCatchesUp /\ MarkIsStored /\ GenerationNeverReused /\ ParentsFirst
  BY <1>2, <1>3 DEF CounterRows, MarkCatchesUp, MarkIsStored, GenerationNeverReused,
                    HighWaterMarkKept, ParentsFirst
<1>7. HierarchyRestorable /\ DownIsDrained /\ ClaimsAreTransient
  BY <1>2, NoPaneType DEF HierarchyRestorable, HasParents, DownIsDrained, ClaimsAreTransient
<1>8. ReplayYieldsMemory
  BY <1>2, NoPaneType, StoredFacts DEF ReplayYieldsMemory
<1>9. LatestIsLatest
  BY <1>3 DEF LatestIsLatest
<1>10. ClosureAnnouncedOnce
  BY <1>3 DEF ClosureAnnouncedOnce
<1>11. AnnouncedIsClaimed
  BY <1>3 DEF AnnouncedIsClaimed
<1> QED BY <1>1, <1>5, <1>6, <1>7, <1>8, <1>9, <1>10, <1>11 DEF IInv

\* Memory, FIFO and disk stay in the relation that recovery relies on.
THEOREM Inductive == Spec => []IInv
<1>1. IInv /\ [Next]_vars => IInv'
  <2> SUFFICES ASSUME IInv, [Next]_vars PROVE IInv'
    OBVIOUS
  <2>1. TypeOK'
    BY TypeStep DEF IInv
  <2> QED BY <2>1, OneOwnerStep, CounterAheadStep, CounterRowsStep, MarkCatchesUpStep,
             MarkIsStoredStep, NeverReusedStep, ParentsFirstStep, HierarchyStep, DrainedStep,
             TransientStep, ReplayStep, LatestStep, AnnouncedStep DEF IInv
<1> QED BY <1>1, InvInit, PTL DEF Spec

LEMMA Drained == IInv => DrainedStoreMatches
<1> SUFFICES ASSUME IInv, up = "up", pending = <<>>, NEW id \in PaneIDs
             PROVE  db.panes[id] = Stored(panes[id])
  BY DEF DrainedStoreMatches
<1>1. DOMAIN pending = {}
  OBVIOUS
<1> QED BY <1>1 DEF IInv, ReplayYieldsMemory

\* An entry is the newest record, generations have one owner, and the stored panes are
\* those in memory.
LEMMA AgreesOnLatest == IInv => RestartAgreesOnLatest
<1> SUFFICES ASSUME IInv, up = "up", pending = <<>>, NEW z \in ZellijPaneIDs,
                    NEW x \in latestByZellij[z]
             PROVE  latestByZellij[z] = Latest(db, z)
  BY DEF RestartAgreesOnLatest
<1>1. latestByZellij[z] \subseteq PaneIDs
  BY DEF IInv, TypeOK
<1>2. \A i \in PaneIDs : /\ panes[i] \in Pane /\ panes[i].gen \in Nat
                         /\ db.panes[i].gen = panes[i].gen /\ db.panes[i].zellij = panes[i].zellij
  <2> TAKE i \in PaneIDs
  <2>1. panes[i] \in Pane
    BY DEF IInv, TypeOK
  <2>2. db.panes[i] = Stored(panes[i])
    BY Drained DEF DrainedStoreMatches
  <2> QED BY <2>1, <2>2, StoredFacts DEF Pane
<1>3. \A i \in latestByZellij[z] :
        /\ panes[i].gen # 0 /\ panes[i].zellij = z
        /\ \A j \in PaneIDs : panes[j].zellij = z => panes[j].gen <= panes[i].gen
  BY DEF IInv, LatestIsLatest, exists
<1>4. latestByZellij[z] \subseteq Latest(db, z)
  BY <1>1, <1>2, <1>3 DEF Latest
<1>5. ASSUME NEW i \in Latest(db, z) PROVE i = x
  <2>1. i \in PaneIDs /\ x \in PaneIDs /\ panes[i].gen # 0 /\ panes[i].gen = panes[x].gen
    BY <1>1, <1>2, <1>3, <1>5 DEF Latest
  <2> QED BY <1>2, <2>1 DEF IInv, OneOwner, Holds
<1> QED BY <1>4, <1>5

\* A daemon that dies between any two rows of saveLocked finds parents before panes and,
\* after the first crash, the generations it had given out; one that dies with nothing
\* waiting finds every record, and every entry of the index it had (NewPersistent).
THEOREM RestartFinds == Spec => []RestartFindsRegistry
<1>1. IInv => RestartFindsRegistry
  BY Drained, AgreesOnLatest DEF IInv, RestartFindsRegistry
<1> QED BY <1>1, Inductive, PTL

\* ClaimPaneClosureGeneration and its relatives hand the notification of a closed
\* generation to one caller only.
THEOREM AnnouncedOnce == Spec => []ClosureAnnouncedOnce
<1>1. IInv => ClosureAnnouncedOnce
  BY DEF IInv
<1> QED BY <1>1, Inductive, PTL

\* The generation check of the registry protects a re-registered pane from every
\* operation that read the record before it.
THEOREM StaleHarmless == Spec => StaleCallersAreHarmless
<1> DEFINE Harmless ==
        up = "up" /\ up' = "up" =>
            \A id \in PaneIDs : exists(id) /\ panes'[id] # panes[id] =>
                \E c \in Callers : snap[c][id].gen = panes[id].gen /\ snap'[c][id] = Unseen
<1>1. TypeOK /\ [Next]_vars => Harmless
  <2> SUFFICES ASSUME TypeOK, [Next]_vars, up = "up", up' = "up", NEW i \in PaneIDs,
                      exists(i), panes'[i] # panes[i]
               PROVE  \E c \in Callers : snap[c][i].gen = panes[i].gen /\ snap'[c][i] = Unseen
    OBVIOUS
  <2>1. CASE \E id \in PaneIDs, s \in SessionIDs, t \in TabIDs, z \in ZellijPaneIDs :
                 RegisterPane(id, s, t, z)
    BY <2>1 DEF RegisterPane, TypeOK
  <2>2. CASE \E c \in Callers, id \in PaneIDs : Operation(c, id)
    <3> PICK c \in Callers, id \in PaneIDs : Operation(c, id)
      BY <2>2
    <3>1. Keeps \/ (Applies(c, id) /\ snap'[c][id] = Unseen)
      BY OperationEffect
    <3>2. ~Keeps
      BY DEF Keeps, keep
    <3>3. current(c, id) /\ snap'[c][id] = Unseen /\ (Removes(id) \/ \E p \in Pane : Puts(id, p))
      BY <3>1, <3>2 DEF Applies
    <3>4. i = id
      BY <3>3 DEF Removes, removePaneLocked, Puts, put, TypeOK
    <3> QED BY <3>3, <3>4 DEF current
  <2>3. CASE Commit \/ Crash \/ NewPersistent \/ UNCHANGED vars
    BY <2>3 DEF Commit, Crash, NewPersistent, vars
  <2> QED BY <2>1, <2>2, <2>3 DEF Next
<1>2. TypeOK /\ [Next]_vars => [Harmless]_vars
  BY <1>1
<1>3. [][Harmless]_vars => StaleCallersAreHarmless
  BY DEF StaleCallersAreHarmless
<1> QED BY <1>2, <1>3, TypeCorrect, PTL DEF Spec

=============================================================================
