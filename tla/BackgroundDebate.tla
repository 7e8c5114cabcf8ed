-------------------------- MODULE BackgroundDebate --------------------------
(***************************************************************************)
(* zellij-agent debate-background (internal/cli/debatebackground, internal/*)
(* backgrounddebate, internal/debaterole): proposer, critic and judge run  *)
(* one after the other, each as a process group of its own under a         *)
(* deadline; the result is saved by an atomic replacement, and Codex may be*)
(* started on it.  The command can be killed at any moment.  Its arguments *)
(* are valid ones: what run rejects before it starts is left out.          *)
(***************************************************************************)
EXTENDS Integers, Sequences, FiniteSets

CONSTANT DebateRounds   \* opts.Rounds
ASSUME RoundsAssumption == DebateRounds \in 1 .. 3

VARIABLES
    phase,       \* "next", "role", "create", "write", "rename", "exit?", "codex", "done", "killed"
    turn,        \* [round, role]: whose turn it is
    answers,     \* the answers so far, each with what its prompt quoted
    failure,     \* the kind of failure, "" for none
    group,       \* the processes of the role's group that are alive
    late,        \* roleCtx is past its deadline
    expired,     \* the deadline of the whole command is past
    temp, target,\* the temporary file and the result file
    startCodex, codex, exit,
    orphaned     \* a role died, and what it had started did not

backgroundVars ==
    <<phase, turn, answers, failure, group, late, expired, temp, target, startCodex, codex, exit, orphaned>>

Roles == <<"proposer", "critic", "judge">>
Answer(role, round, quoted) == [role |-> role, round |-> round, quoted |-> quoted]
Absent == [kind |-> "none"]
OldFile == [kind |-> "old"]
PartFile == [kind |-> "part"]

-----------------------------------------------------------------------------

Given(role, round) == {a \in answers : a.role = role /\ a.round = round}

\* proposerPrompt, criticPrompt, judgePrompt: the answers a prompt quotes.
PromptQuotes ==
    CASE turn.role = 1 -> Given("judge", turn.round - 1)
      [] turn.role = 2 -> Given("proposer", turn.round)
      [] turn.role = 3 -> Given("proposer", turn.round) \union Given("critic", turn.round)

BackgroundInit ==
    /\ phase = "next" /\ turn = [round |-> 1, role |-> 1] /\ answers = {} /\ failure = ""
    /\ group = {} /\ late = FALSE /\ expired = FALSE
    /\ temp = Absent /\ target \in {Absent, OldFile}
    /\ startCodex \in BOOLEAN /\ codex = "no" /\ exit = "none" /\ orphaned = FALSE

\* The command's own timeout.
Expire ==
    /\ phase \notin {"done", "killed"} /\ ~expired
    /\ expired' = TRUE /\ late' = (late \/ phase = "role")
    /\ UNCHANGED <<phase, turn, answers, failure, group, temp, target, startCodex, orphaned, codex, exit>>

\* runRole: a deadline that is past already keeps the process from starting.
StartRole ==
    /\ phase = "next"
    /\ IF expired
       THEN phase' = "create" /\ failure' = "timeout" /\ UNCHANGED <<group, late>>
       ELSE phase' = "role" /\ group' = {"role"} /\ late' = FALSE /\ UNCHANGED failure
    /\ UNCHANGED <<turn, answers, expired, temp, target, startCodex, orphaned, codex, exit>>

\* debaterole.Run: the role starts its provider and waits for it.
StartProvider ==
    /\ phase = "role" /\ group = {"role"} /\ ~late
    /\ group' = {"role", "provider"}
    /\ UNCHANGED <<phase, turn, answers, failure, late, expired, temp, target, startCodex, orphaned, codex, exit>>

NextTurn == IF turn.role < 3 THEN [turn EXCEPT !.role = @ + 1] ELSE [round |-> turn.round + 1, role |-> 1]

\* The role is over, with a result or without: ProcessRoleRunner.Run and finishRole.  A role
\* that ends as it should has waited for its provider; one that dies leaves it behind, since
\* only the deadline kills the group.
RoleExits(output) ==
    /\ phase = "role" /\ "role" \in group
    /\ output = "result" => "provider" \in group
    /\ group' = {} \/ (output = "execution" /\ group' = group \ {"role"})
    /\ orphaned' = (group' # {})
    /\ IF output = "result"
       THEN /\ answers' = answers \union {Answer(Roles[turn.role], turn.round, {[role |-> q.role, round |-> q.round] : q \in PromptQuotes})}
            /\ turn' = NextTurn
            /\ phase' = IF NextTurn.round > DebateRounds THEN "create" ELSE "next"
            /\ UNCHANGED failure
       ELSE /\ failure' = IF late THEN "timeout" ELSE output
            /\ phase' = "create" /\ UNCHANGED <<answers, turn>>
    /\ UNCHANGED <<late, expired, temp, target, startCodex, codex, exit>>

\* Slip: the role's process is killed and what it started is not.
KillRole ==
    /\ phase = "role" /\ late
    /\ group' = group \ {"role"} /\ failure' = "timeout" /\ phase' = "create"
    /\ UNCHANGED <<turn, answers, late, expired, temp, target, startCodex, orphaned, codex, exit>>

\* configureProcessTreeCancellation: the deadline kills the group.
KillGroup ==
    /\ phase = "role" /\ late
    /\ group' = {} /\ failure' = "timeout" /\ phase' = "create"
    /\ UNCHANGED <<turn, answers, late, expired, temp, target, startCodex, orphaned, codex, exit>>

AgentDeadline ==
    /\ phase = "role" /\ ~late
    /\ late' = TRUE
    /\ UNCHANGED <<phase, turn, answers, failure, group, expired, temp, target, startCodex, orphaned, codex, exit>>

\* renderResult of what Run returned.
RunResult == [kind |-> "result", success |-> failure = "", answers |-> answers, completed |-> turn.round - 1]

\* printPersistenceFailure: the temporary file is removed, the result only printed.
NotSaved ==
    /\ phase' = "done" /\ exit' = "failed" /\ failure' = "persistence" /\ temp' = Absent
    /\ UNCHANGED <<turn, answers, group, late, expired, target, startCodex, orphaned, codex>>

\* resolveOutputPath, then writeAtomic in three steps.
CreateTemp ==
    /\ phase = "create"
    /\ \/ /\ phase' = "write" /\ temp' = PartFile
          /\ UNCHANGED <<turn, answers, failure, group, late, expired, target, startCodex, orphaned, codex, exit>>
       \/ NotSaved

WriteTemp ==
    /\ phase = "write"
    /\ \/ /\ phase' = "rename" /\ temp' = RunResult
          /\ UNCHANGED <<turn, answers, failure, group, late, expired, target, startCodex, orphaned, codex, exit>>
       \/ NotSaved

RenameTemp ==
    /\ phase = "rename"
    /\ \/ /\ phase' = "exit?" /\ target' = temp /\ temp' = Absent
          /\ UNCHANGED <<turn, answers, failure, group, late, expired, startCodex, orphaned, codex, exit>>
       \/ NotSaved

\* run, after the result is saved.
Conclude ==
    /\ phase = "exit?"
    /\ IF failure = "" /\ startCodex
       THEN phase' = "codex" /\ codex' = "running" /\ UNCHANGED exit
       ELSE phase' = "done" /\ exit' = (IF failure = "" THEN "ok" ELSE "failed") /\ UNCHANGED codex
    /\ UNCHANGED <<turn, answers, failure, group, late, expired, temp, target, startCodex, orphaned>>

\* processCodexStarter.Start: Codex ends, or is killed at the command's own deadline.
CodexEnds(outcome) ==
    /\ phase = "codex" /\ (expired => outcome = "failed")
    /\ phase' = "done" /\ codex' = "ended" /\ exit' = outcome
    /\ UNCHANGED <<turn, answers, failure, group, late, expired, temp, target, startCodex, orphaned>>

\* The command is killed: deferred calls do not run, the role's group lives on.
Killed ==
    /\ phase \notin {"done", "killed"}
    /\ phase' = "killed"
    /\ UNCHANGED <<turn, answers, failure, group, late, expired, temp, target, startCodex, orphaned, codex, exit>>

\* What the command does without waiting for anyone.
CommandStep ==
    StartRole \/ KillGroup \/ CreateTemp \/ WriteTemp \/ RenameTemp \/ Conclude \/ (expired /\ CodexEnds("failed"))

BackgroundNext ==
    \/ Expire \/ StartProvider \/ AgentDeadline \/ Killed \/ CommandStep
    \/ \E output \in {"result", "execution", "malformed", "contract", "empty"} : RoleExits(output)
    \/ \E outcome \in {"ok", "failed"} : CodexEnds(outcome)

-----------------------------------------------------------------------------
(* Properties.                                                             *)

\* The result file is what it was before or a whole result of this run, whenever the
\* command fails or is killed (writeAtomic); and Codex is only started on a whole debate.
ResultFileIsWhole ==
    /\ target.kind \in {"none", "old", "result"}
    /\ target.kind = "result" => target.answers = answers
    /\ codex # "no" => target.kind = "result" /\ target.completed = DebateRounds

\* What the answer of a role has to rest on: the answers of its own round, and the
\* judgment before it.
MustQuote(role, round) ==
    CASE role = "proposer" -> IF round = 1 THEN {} ELSE {[role |-> "judge", round |-> round - 1]}
      [] role = "critic" -> {[role |-> "proposer", round |-> round]}
      [] role = "judge" -> {[role |-> r, round |-> round] : r \in {"proposer", "critic"}}

WholeDebate ==
    {Answer(Roles[i], round, MustQuote(Roles[i], round)) : i \in 1 .. 3, round \in 1 .. DebateRounds}

\* The exit status and the saved status tell the truth: success means that every role
\* answered in every round, each on what it has to rest on; a role's timeout, bad output
\* or failure in any round is never a success.
SuccessIsWholeDebate ==
    /\ exit = "ok" => target.kind = "result" /\ target.success
    /\ target.kind = "result" => (target.success <=> target.answers = WholeDebate)
    /\ target.kind = "result" /\ target.success /\ exit = "failed" => codex = "ended"

\* Unless the command itself is killed, no role outlives its turn, and what it started only if
\* the role died by itself: the deadline takes the whole group (configureProcessTreeCancellation).
NoProcessOutlivesTurn == phase \notin {"role", "killed"} => "role" \notin group /\ (group = {} \/ orphaned)

\* However long roles and Codex take, the command comes to an end.
BackgroundEnds == <>(phase \in {"done", "killed"})

\* Wherever the debate breaks off, no process goes on and no half result is left or
\* passed for a whole one.
BreaksOffCleanly == ResultFileIsWhole /\ SuccessIsWholeDebate /\ NoProcessOutlivesTurn
=============================================================================
