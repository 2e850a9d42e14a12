# A TLA+ model of the local agent runtime

This directory specifies the runtime under `runtime/src/local_agent_runtime/` (paths
below are relative to it): how an agent task is sent, queued, run, held, resumed and
completed, what its tools, provider turns, children and worktree do, and how events
reach the client. The modules are written from the Python source; `PROJECT.json` maps
every definition to the lines it stands for, and lists the runs, the mutated
definitions each property is tested against, the hazards and the theorems.

Contents: 1 inventory, 2 modules, 3 runs, 4 departures of the code from its documents,
5 fairness, 6 proofs, 7 abstractions, 8 what is not modelled, 9 plan.

## 1. Inventory

The program is a desktop application (Tauri and React, `app/`) and a Python runtime.
The runtime is one process: `rpc/server.py` reads JSON-RPC requests line by line and
handles them **one at a time** on the main thread (the *RPC thread*). Work that must not
block the client runs on daemon threads; child tasks run in processes of their own. All
of them share one SQLite database, each store with a connection and a lock of its own.

| Component | State | Operations | Meets others through | What makes it correct |
|---|---|---|---|---|
| Task run (`orchestrator/react_runner.py`, `react_resume.py`, `resume_flow.py`, `approval_flow.py`, `message_execution.py`, `supplement_flow.py`) | `tasks.status`, the pending ReAct state row, approvals, the task inbox; a task record in each thread | message.send, the loop's store accesses, checkpoints, questions, plan approval, completion and failure, task.cancel / pause / resume, approval.submit, supplements, orphan cleanup | the store | one executor per task; a gated tool runs only when approved; an ended task stays ended |
| ReAct steps (`react_runner.py`, `policy/tool_policy_resolver.py`, `tools/plan_mode.py`) | step budget, phase, plan mode, read cache, child results of one loop | resolve tools, run a batch, park, drain, resume, converge | tools, provider | no write under a read-only policy; budgets hold; the loop ends |
| Session queue (`message_routing.py`, `service.py`) | `tasks.status`, `created_at` | enqueue, drain, start | run by the thread whose task ended | first come first served; the end of a task hands the session over |
| Background commands (`services/command_background.py`, `worker_process_runtime.py`, `tools/run_command.py`) | running set, cancel flag and process of each command, output queues, `command_logs` | submit, the command thread, stream drains, command.cancel, cancel by task | event bridge, store | no process outlives its row; all output before the terminal event; every command ends |
| Events (`event_bus.py`, `store/event_store.py`, `rpc/server.py`) | bus counter, `trace_events`, bounded queue, client cursor | publish, append, write, events.after, session.delete | subscribers are called by the publishing thread | a client that recovers misses nothing and sees nothing twice |
| Chat stream (`orchestrator/publishing.py`, `yuanbao_event_adapter.py`, `provider_turn.py`) | text block number, status fingerprints, the trace | publish text, cards, results, statuses; project live and on replay | every producer of events | a reload shows what was shown; the end of a task settles its chat |
| Child tasks (`services/worker_runner.py`, `worker_process_transport.py`, `collaboration_service.py`, `subagent_service.py`, `store/agent_store.py`) | `collaboration_tasks`, `agent_workers`, the child's runtime task and process | dispatch, claim, attempt, time out, retry, block, decide, finalize, team snapshot | starts processes, reports to the parent, publishes the team | one attempt at a time; the parent's answer is the record; every dispatch ends |
| Tool pipeline, policy, hooks (`execution/tool_pipeline.py`, `policy/`, `services/hook_service.py`, `tools/`) | approvals, patches, the tool budget, the files | evaluate, hooks before and after, ask, act, record, retry | called by the loop and by resumes | nothing acts unless allowed or approved as it is; the report is true |
| Provider turn (`provider/adapter.py`, `openai_compatible.py`, `failure_recovery.py`, `cache.py`, `orchestrator/provider_turn.py`) | the turn record, streamed text, the response cache | stream, retry, fall back, recover with a smaller context, cancel | loop, chat stream | the answer is one response; the turn ends |
| Context (`context/builder.py`, `compactor.py`, `token_budget.py`) | the message list of a loop and its token total | build, fit, append, compact, cut, repair, send | loop, provider turn | the budget is kept; calls and results stay paired; fresh results are sent |
| Completion (`orchestrator/task_lifecycle.py`) | verification records, evidence, approvals, children | validate, collect evidence, audit, finalize | store, children, user | completed means settled; verified means something passed |
| Worktrees and revert (`services/worktree_service.py`, `git/worktree_adapter.py`, `write_scope_enforcement.py`, `task_revert_service.py`) | `task_worktrees`, merge approvals, patches, two file trees | bind, write, verify, ask, merge, clean up, revert | approvals, files, git | merges are approved for their target; work is kept; a revert is all or nothing |
| Cancellation tokens, scheduled tasks, memory, MCP, skills, configuration, user interface | various | see 8 | | |

What is hard to test here, and what the models are about:

* **stale records**: a thread reads a task, works for seconds and writes the record's
  status back, with validation against the copy;
* **several store accesses per operation**: drain, checkpoint, resume, append, evidence
  and team snapshot are sequences of statements with other threads in between;
* **what was approved and what runs**: hooks, policy edits, file edits, replays and
  retries come between a decision and its effect;
* **crashes**: only `running` tasks are repaired at start, everything else is taken up
  from the rows, the trace and the repository as they are;
* **races with a process**: cancel, deadline, exit, attach, reply and retry in any order;
* **limits**: the event queue of 1000, the join of the stream drains, the page of
  `events.after`, tails of six and eight messages, windows of twenty and fifty approvals.

## 2. Modules

| Module | Models | Actors |
|---|---|---|
| `TaskRun` | the life of a task | RPC thread, one background thread per task, restart |
| `SessionQueue` | the queue of a session | RPC thread, background threads, restart |
| `BackgroundCommand` | commands of tasks | tool, command and drain threads, RPC thread, operating system |
| `EventLog` | events from publisher to client | publishers, other connections, writer thread, a client |
| `ChildContract` | what a dispatch promises (abstract) | |
| `Collaboration` | child tasks; implements `ChildContract` | dispatching thread, child processes, RPC thread |
| `ToolPolicy`, `ToolCall` | permission engine, guards and hooks; one task's tool calls | loop, hooks, user |
| `ProviderRecovery`, `ProviderTurn` | failure classes and strategies; one turn | loop, adapter, provider, user |
| `ContextSections`, `MessageWindow`, `ContextWindow` | sections and budget; lists and what shortens them; the messages of one task | loop, provider |
| `CompletionEvidence`, `Completion` | what records prove; the end of a task | completing thread, child, user, commands |
| `TurnPolicy`, `ReactSteps` | tools offered in a turn; the turns of a loop | loop, model, user |
| `Worktree` | worktree, merge and revert of one task | task thread, RPC thread, editor outside, crash |
| `ChatProjection`, `ChatStream` | what an event becomes in the chat; the chat of one task | loop, tool threads, RPC thread, crash |
| `MC*`, `*_proofs` | the instances TLC checks; theorems and proofs | |

Modules that name two things pair a module of pure operators with the state machine that
EXTENDS it. Components that meet only at the store have the requests of their neighbours
as actions of their own: `SessionQueue` sees a run of a task as the one step `TaskRun`
opens up, `TaskRun` sees a turn as the steps `ReactSteps` and `ProviderTurn` open up,
`BackgroundCommand` has the `task.cancel` of `TaskRun`, `ChatStream` hands its frames
over in the step `EventLog` opens up.

**TaskRun.** `pc` says where a thread is; every step is one store access together with
the decision it feeds, so whatever a thread may know out of date is in its locals:
`snap` (the status in the record it works with), `copy` (the record of the caller of the
loop), `cur` (tool call or approval in hand). `pend`, `pendReq`, `rest` and `asked`
are the parts of the saved ReAct state that decide anything. `ran` is history.

**SessionQueue.** A thread runs a task, ends it and drains: `DrainCheck`, `DrainList`
and `DrainStart` are the three store accesses of `_drain_session_queue`. `how` is
history: whether a task got its turn from the queue or was sent as new.

**BackgroundCommand.** `worker` is the program counter of `_run`, one action per stage.
Output is counted: in the `pipe`, `held` by a drain thread, `queued`, `traced`. `late`
are commands whose drains outlived the join.

**EventLog.** `Publish` is the locked part of `EventBus.publish`; the subscribers follow
outside the lock: `Skip`, `AppendRead`/`AppendInsert` or `AppendFails` for the trace
mirror, then `Emit`. Events in `Direct` are appended by other stores through their own
connections. `EventsAfter` is one page from the client's cursor.

**Collaboration.** `Dispatches` children are dispatched one after another by the parent's
thread (`pc`), because `task` is not a tool that runs in parallel. `cstatus` and the
worker are the shared records, `rt` the runtime tasks of the attempts, `proc` the process
of each attempt with its reply. Attempts may answer, block on an approval, be cancelled,
die or never answer. A decision (`Rpc`) resumes the child and finalizes the record. After
each write the thread reads the records (`event`) and publishes them as `team`. `raced`
is history: a decision was worked on during a dispatch.

**ToolCall.** `call` is the local state of `_execute_tool`: hooks before the call, the
policy, the approval (`Ask`, `Decide`, replay), the hooks that may rewrite the request,
the effect file by file, the hooks after it (retry, prevent), the terminal event. The
user edits policy and files and pauses in between.

**ProviderTurn.** A token is represented by the request that made it, so text of two
responses can be told apart. Streaming with its retry, the plain request, the adapter's
retries, the payload sent again without a refused parameter (`SendReduced`), recovery
with a smaller context, the cache, and a cancel at any point.

**ContextWindow.** Texts are sizes. `Fit` is `TokenBudget.fit`; results come one by one
with a compaction after each; a held call and its drain, preflight, the cut after a
failure, the repair of pairs and the request follow. A request is serialized in one of
the three formats: chat messages; Responses items, with an item for each call and
neighbours of one role merged; Anthropic messages, with the results as user messages.

**Completion.** `_complete_task` in its reads and writes: validation, verification
records, collaboration records, children, evidence, audit, gate, final write. The child
and the user move between any two. Evidence operators work on records
`[id, cmd, st, ts]`.

**ReactSteps.** One action per way a call may go: blocked, defaulted, cached, in a
parallel run, executed; `Park` and the drain of what was left; convergence, repair turns
and the step budget. `last` is the call handled last, kept as history.

**Worktree.** `files` are two sequences of changes (workspace, worktree), `head` what is
committed to the branch, `rec` the record, `approvals` the merge approvals; the RPC
thread's `arg` holds what a merge or revert has in hand.

**ChatStream.** `work` holds for each thread what is left of the handler it runs, frame
by frame; `chat` is what the client shows, `log` what a reload would.

## 3. Runs

Each run is the only `.cfg` of its MC module, and every property listed here is checked on the
whole state space of the instance.

| Run | Instance | Checks | Shows |
|---|---|---|---|
| `task_run` | one task, a gated command and a plan; 1.4 million states | `TypeOK`, `OneExecutor`, `GatedToolApproved`, `SettledStays` | whatever requests meet the running loop, and whenever the process dies, no second loop runs the task, no gated call runs on another call's approval, and a settled end is final |
| `session_queue` | three messages, two background threads; 4.9 million | `SQTypeOK`, `QueueInOrder`, `HandsOver` | turns in order of arrival, with ties, supplements, cancels and restarts; only a cancel, a late enqueue, a supplement or a restart strands the queue |
| `bg_command` | one command, three chunks; 22 thousand | `FinishedProcessGone`, `OutputBeforeTerminal`, `CancelledInTimeIsReported`, `CommandFinishes` | no process left behind, no output lost, an early cancel reported, every command ends |
| `event_log` | two mirrored events, two of other connections, one unrecorded; 981 thousand | `ReplayOnce`, `NoneSkipped` | no row twice; none skipped as long as the bus alone appends |
| `collaboration` | two dispatches, one with a retry, one cancel; 1.9 million | `OneAttemptExecutes`, `TeamIsCurrent`, `ImplementsContract`, `DispatchAnswered` | attempts do not overlap, records and answers keep the contract, every dispatch ends, the client's team is current |
| `tool_call` | three calls out of twelve requests, four configurations, nine lists of hooks; 2.2 million | `EffectAuthorised`, `ReportIsTrue`, `AppliedPatchIsWhole` | what acts was allowed or approved as it is; what is reported is what happened |
| `provider_turn` | two formats, six errors, two tries, two tokens; 464 thousand | `AnswerOfOneResponse`, `TurnEnds` | retries and fallbacks never mix two responses, and the turn ends |
| `context_window` | 16 contexts, three steps, batches of three, three formats; 1.1 million | `BudgetRespected`, `RequestPaired`, `FreshResultsSent` | what is dropped, and that what is sent is acceptable and fresh |
| `completion` | two pieces of work, a child, three approvals; 2.1 million | `CompletedIsSettled`, `VerifiedIsGrounded`, `LastCheckDecides` | what the words completed, verified and failed_verification are worth |
| `react_steps` | twelve policies, two steps, batches of two, one resume; 201 thousand | `LoopKeepsPolicy`, `BudgetsKept`, `CacheFollowsWork`, `LoopEnds` | the turns keep to the policy and come to an end |
| `worktree` | two patches, three commands, two targets, a crash; 5.3 million | `MergeAuthorised`, `WorkKept`, `RevertAllOrNothing`, `WritesIsolated` | merges are authorised, work is kept, reverts are whole |
| `chat_stream` | two turns, a parallel and a gated tool, a merge card, a crash; 2.9 million | `ReplayMatchesLive`, `TextInItsBlock`, `AnsweredOnce`, `ChatSettles` | a reload agrees with the screen, and the end of the task settles it |

*Exceptions in the properties.* Several properties name the cases in which the code does
not keep them (`raced` in `TeamIsCurrent`, `BusOnly` in `NoneSkipped`, the four
disjuncts of `HandsOver`, the merge card and the crash in `ChatSettles`). Each exception
is there because TLC found the behaviour without it; section 4 lists them. What remains
is claimed for everything else.

*Bounds.* One task suffices in `TaskRun`: tasks share no variable but the RPC thread,
and the theorems cover any number. Two requests are the least at which a decision can
belong to another call than the pending one. Three messages are the least at which a
drain can pick the wrong one while another runs. In `EventLog` a page and the queue hold
one, so both limits are met. Two dispatches let a decision about the first child meet the
dispatch of the second; a second attempt is the least at which attempts could overlap.
Three calls let one approval be replayed and a third call meet the state both left. Two
tries and a fallback give every pair of responses that could be mixed. The tails 6, 8 and
6 of the context code are scaled to 2, 4 and 3 so that a batch of three reaches past the
shorter two. Two checks, an approval window of two and three approvals let an open
approval fall out of the window. Two steps and one resume reach every pressure of the
step budget. Two overlapping patches are the least a revert can fail between. `MaxMoves`,
`MaxRetries`, `MaxCancels`, `MaxCrashes` and the like bound what the environment may do
and are named in the guards. No state constraint is used. Symmetry (messages and threads;
mirrored events) is used only where nothing temporal but an action property is checked.

*Deadlock* is checked in `session_queue` and `task_run`, where a restart is always
possible, and in `completion` and `react_steps`, where a task that has ended (or is held
with nothing more to come within the bounds) rests by an explicit step, so that there
the check finds a thread stuck half way. It is switched off where the system may simply stop.

Where a run does not list `TypeOK`, it documents the state; it holds on the instance, and
is proved where section 6 lists a theorem of types.

## 4. Departures of the code from its documents

The models have all of the following behaviours, and no property excludes them.

*Task run and queue.* `_advance_after_tool` (`react_runner.py:3116`) writes the plan
together with the status its record had, so a cancel in between becomes `running` again
(`docs/haha-cc-alignment-flow-and-gap.md:141` calls the ends absorbing). The marker of an
answered question stays in the saved context and sends the resume of a later, approved
call into the question branch (`resume_flow.py:58`;
`docs/YUANBAO_AGENT_DOCS_CONSOLIDATED.md:258`). Cancelling the running task does not
drain the queue, and an enqueue may just miss the last drain (`publishing.py:2104`;
`docs/chat-runtime-agent-run-todolist.md:267`). A pause can leave a task with nothing to
resume; the drain validates the literal `"queued"` and can start a task that was
cancelled since it was listed.

*Events.* `MAX(sequence) + 1` is taken per connection: two appends take the same number
and the later commit lies below a cursor already handed out (`event_store.py:84`;
`docs/YUANBAO_AGENT_DOCS_CONSOLIDATED.md:194`).

*Children.* An approval of a child is stored before the child is resumed, in the runtime's
main thread and not in the worker (`approval_flow.py:179`). A killed child
leaves its runtime task running; a child that is cancelled or still running may be
reported as completed. The claim is a read followed by a write. The team panel keys its
members by display name, so a newer child of the same type can be hidden; the last
snapshot published may be the older one. A worker that exits is reported as retryable
(`worker_runner.py:511-516`), but the policy classifies by the exception's type and name
and ignores the flag (`worker_policy.py:153-184`): by default it is not retried
(`RetryableErrors`).

*Tools.* A hook that denies a call raises after `tool.started`
(`tool_pipeline.py:2598-2633`). "Auto-approved ... execute the tool with approval bypassed"
(`tool_pipeline.py:3128`) does not execute it. A post-tool hook may ask for retries
without limit (`3201`). A pause is overwritten by `waiting_approval` (`3051`). A patch
that failed half way leaves its record `approved`. The plan-mode drain of a parked turn
executes calls that are not read-only (`react_resume.py:38-50`, against the docstring at
`27-29`), and calls at the tail of a parallel batch skip the policy check.

*Loop.* A question saved without its call is resumed without an answer; a cooperative
resume completes a task whose loop failed; blocked `task` calls count as child results;
plan mode offers a question tool and blocks it.

*Provider and context.* A truncated stream becomes a final answer; a parse error leaves
the turn's record running; the plain request never looks for a cancel; the cache key
does not hold the profile. "tool call arguments exceeded" in `failure_recovery.py:116` is
behind a rule that matches first. The running token total skips messages added at the top
of a turn (`react_runner.py:856`); each full compaction leaves a permanent message; the
second tier of the compactor changes nothing, against its comment.

*Completion.* The gate leaves a task running that nothing will evaluate again
(`task_lifecycle.py:338`). An approval older than the audit's windows is not seen. The
merge of commands by text and status loses a second failure; a passed git snapshot
resolves any earlier failed check. The final write does not look for a concurrent cancel.

*Worktree.* A crash in a cleanup leaves an active record without a directory, one in a
binding a branch nobody knows. A pending merge approval is replaced in place. Commits
after the verification are merged unverified. A conflict leaves the main repository in
the middle of a merge. A revert after a merge touches the worktree only.

*Chat.* `approval.resolved` of an ended task is dropped (`publishing.py:965`), so the
chat stays at permission_pending after a merge; `task.orphaned` is always dropped, so it
stays busy after a restart. A tool running at a cancel never gets a visible result. A
call that ran after an approval may be answered twice when its task fails later.

## 5. Fairness

* `BCFairSpec` of `BackgroundCommand`: weak fairness of the tool thread once it has created the
  row, and of the command thread. The process owes nothing: it may never exit and never
  write; the deadline, which the poll loop evaluates, ends the command.
* `FairSpec` of `Collaboration`: weak fairness of the dispatching thread and of a request the
  RPC thread has begun. Children and users owe nothing: the request of an attempt ends by
  a reply or by its timeout, which the code always sets.
* `FairSpec` of `ProviderTurn`: weak fairness of the turn. Every request has a timeout, and a
  response is finite (`MaxTokens` in the model), so the provider's part ends too.
* `FairSpec` of `ReactSteps`: weak fairness of the loop, not of the user: a parked loop may
  stay parked.

`TaskRun` and `SessionQueue` claim safety only: what is to happen after a stop or the end
of a task is stated as what a step may do (`SettledStays`, `HandsOver`).

## 6. Proofs

For every value of the constants, with TLAPS; assumptions on constants are the named
`ASSUME`s of the modules (distinctness of the special values, subsets, naturals).
Two components share a proof module where their theorems are short or their names do not
clash: `CommandsAndEvents_proofs` (`BackgroundCommand`, `EventLog`),
`QueueAndToolCalls_proofs` (`SessionQueue`, `ToolCall`),
`ChildrenAndCompletion_proofs` (`Collaboration`, `Completion`) and
`TurnAndContext_proofs` (`ProviderTurn`, `ContextWindow`); that is why some modules prefix
their `Init`, `Next` and `TypeOK`.

* **TaskRun** (`TypeCorrect`, `LoopAloneHolds`, `OneExecutorHolds`,
  `GatedToolApprovedHolds`, `SettledStaysHolds`). `OneExecutor` is not inductive: nothing
  in it says why a resume cannot start a second loop. The strengthening is
  `IInv == TypeOK /\ Started /\ OwnThread /\ LoopAlone`: a task that was never sent has no
  thread, no saved state and no approval, and no record that will be written back says so
  (`Started`); a task's own thread neither handles requests nor executes pending calls,
  which only the RPC thread resumes (`OwnThread`); and while it is in the loop nothing is
  saved and the RPC thread is not running or ending that task. Two frame lemmas
  (`LoopFramed`, `HandleFramed`) say once what a step of either kind may touch; the
  invariant is proved from the frames. `GatedToolApproved` needs only that decisions are
  never taken back (`GrantSteps`); `SettledStays` is an action property, proved step by
  step from the guards.
* **SessionQueue** (`QueueTypesCorrect`, `QueueInOrderHolds`, `HandsOverHolds`). `IInv` adds to
  `QueueInOrder` what holds between the store accesses: a created task is no older than
  the clock (`Created`), the task a drain has picked is no younger than those still
  waiting (`AtWork`), and the task of a pending request that creates one does not exist
  yet, nor does any queued task if that request found no open one (`AtRequest`, which also
  holds the status a supplement carries). `HandsOver` is an action property: from a state
  that is not stranded every other step leaves an active task, a drain at work or an
  empty queue.
* **BackgroundCommand** (`CommandTypesCorrect`, `ThreadOrderHolds`, `FinishedProcessGoneHolds`,
  `OutputBeforeTerminalHolds`). `ThreadOrder` relates the stage of the command thread to
  the row, the process and the queue; with `BCTypeOK` it is inductive.
* **EventLog** (`EventTypesCorrect`, `ReplayOnceHolds`, `NoneSkippedHolds`). For the first:
  what was received lies at or below the cursor. For the second, until another connection
  begins to append: one append at a time, ahead of every row and of the cursor, hence
  unique numbers, and a cursor that is 0 or a row of the session, which is why numbers
  given again after `session.delete` do no harm.

* **Collaboration** (`TypeCorrect`, `OneAttemptExecutesHolds`, `TeamIsCurrentHolds`,
  `ContractHolds`), for any number of dispatches, attempts and cancels. `IndInv` is
  `TypeOK` with four parts: the record, the worker and the answer follow the place of the
  dispatching thread (`RecordFollows`); between the lookup and the write of the RPC thread
  the record stays blocked (`StillBlocked`); only the process of the current attempt is
  at work, and only during its request (`OnlyCurrent`, from which `OneAttemptExecutes`
  follows); and as long as no decision was worked on during a dispatch, a team that was
  read is what is recorded (`EventsFresh`, from which `TeamIsCurrent` follows). The
  refinement `ImplementsContract` is proved step by step: the initial state maps to the
  initial state of `ChildContract`, and every action to one of its steps or to a stutter;
  `RecordFollows` and `StillBlocked` are what the guards of the contract come from.
* **ToolCall** (`EffectAuthorisedHolds`, `ReportIsTrueHolds`, `AppliedPatchIsWholeHolds`),
  for any requests, hooks, configurations and number of calls; the assumption `OnePath`
  says that a `write_file` request names one path, as its schema does. `EffectAuthorised`
  speaks of the moment before the effect only. What it needs from earlier stages: the
  approvals a call refers to exist and none is in force before the gate (`Known`), and
  whatever the policy allows now has been noticed, whoever changed policy or call since
  (`OpenSeen`). `Progress` says stage by stage what the call has done and said and gives
  `ReportIsTrue`; `AppliedPatchIsWhole` is an action property, proved from the guards and
  the same invariant. That a replayed call finds the latest approval of its request rests
  on `GreatestExists`, proved from the well-foundedness of the naturals.
* **ProviderTurn** (`TypeCorrect`, `AnswerOfOneResponseHolds`), for any formats, errors,
  tries and tokens. `IndInv`: a response at hand or in the cache is the text of one
  request (`OneSource`); while the adapter works, all it collected is of the current try,
  and nothing was collected before an event was handed out, which is what forbids a retry
  to mix two streams (`FromThisTry`); what a stream collected is what was shown last
  (`StreamShown`); the record is completed last (`ClosedLast`).
* **ContextWindow** (`BudgetRespectedHolds`), for any texts, budget and tool schemas. The
  invariant only says that a fitted context is `Fit` of the sections (`FitInv`); the work
  is in `Fit`, two loops over the eighteen sections. Loop and sum are recursive functions,
  whose definitions may be unfolded (`TotalChain`, `TrimChain`, `DropChain`, from
  `ChainExists`); smaller sections have no larger total (`TotalGrows`), so while the first
  loop still trims, the total was above the budget at every earlier section, and each of
  those was cut or is at its minimum (`TrimmedTo`, `TrimStep`); while the second loop
  still drops, every section before has nothing left (`DroppedTo`, `DropStep`). That an
  earlier section is not touched again rests on the names being distinct (`NamesDiffer`).
* **ReactSteps** (`TypeCorrect`, `LoopKeepsPolicyHolds`, `CacheFollowsWorkHolds`,
  `BudgetsKeptHolds`), for any set of policies, budgets, batch sizes and resumes.
  `LoopKeepsPolicy` needs that the turn offered no write to a policy that must not write
  (`NoWriteOffered`), which lemma `ReaderOffered` shows of the resolver for every phase
  and every summary of results. `BudgetsKept` needs that the limit is the one granted with
  the last resume, or already the next one while the user is asked (`LimitGranted`), that
  every child is counted in the results, and that a turn that offers children began below
  their limit, each call left adding at most one (`ChildrenCounted`). `Granted` is a
  recursive function: that its definition has a solution and may be unfolded
  (`GrantedUnfolds`) is proved by induction over a set of naturals (`NatInduct`), from
  partial solutions that exist for every length and agree (`BudgetsExist`,
  `BudgetsAgree`).
* **Worktree** (`WorktreeTypesCorrect`, `MergeAuthorisedHolds`, `WorkKeptHolds`,
  `RevertAllOrNothingHolds`, `PatchesStayInside`, `WritesIsolatedHolds`), for any patches,
  commands, files and targets. `IInv` says what holds between the steps of the two
  threads: what the task's thread has looked up still stands when it writes (`AtTask`,
  `RootStands`); a change is in a tree only if it was applied there, and once (`Placed`,
  `Once`); the list of a revert holds applied patches of one root, those undone are out of
  the files and the others still in them (`Listed`, `Undoing`, `Gone`); a patch of the
  worktree is in its files, or in the branch once the directory is gone (`Kept`); the
  approval checked before a merge is still given when the merge is made, because only a
  new request replaces it and the RPC thread is busy (`Allowed`, `Aimed`); and only
  finitely many changes were made, so that they can be listed (`Finite`). The trees are
  sequences: lemmas state what appending, removing and joining do to their ranges and to
  `IsInjective`. `PatchesStayInside` needs no more. `WritesIsolated` also speaks of
  commands, which the code judges by what they declare; the theorem has the hypothesis
  `TruthfulCommands` (a command declared read-only changes nothing, one that names files
  changes no others), which the commands of the run satisfy and the code cannot enforce.
* **Completion** (`CompletionTypesCorrect`, `ChildrenSettledHolds`,
  `CompletedIsSettledHolds`, `VerifiedIsGroundedHolds`). `CPInv`: the task asks for one
  approval at a time (`AskedLast`); a child's record that was read as ended stays so
  (`ReadsHold`); the children the evidence does not call open are over (`ChildrenSeen`).
  The part of `CompletedIsSettled` about children holds without a condition
  (`ChildrenSettledHolds`). The part about approvals needs `AskSeen`, that the audit has
  seen the task's own open approval, and this is proved for `MaxAsks <= Window`; beyond
  it the children's approvals push the task's own out of the window the audit reads, and
  TLC finds a completed task with an open approval. `VerifiedIsGrounded` is an action
  property. The evidence is a fold over the command log, merged by text and status:
  `FoldExists` and `FoldStays` say that a fold is defined and keeps what each of its
  steps keeps; with them every passed record is traced back through the merges to a row of
  the log or a child's result (`VerificationIs`, `CommandsLogged`).
* **ChatStream** (`ChatInductive`, `ReplayMatchesLiveHolds`, `TextInItsBlockHolds`,
  `ChatSettlesHolds`), for any tool calls, turns, deltas and crashes. `CSInv` says of every
  thread that all it has still to do is of a kind its handler may have (`Good`), or that
  the loop is streaming a token, whose remaining items are in one of seven shapes
  (`Tokening`). `TextOK` relates the number of the text block in memory to the last one
  announced: none is announced that is not above it, and a delta that is bound to a block
  follows its announcement unless a cancel closed the block. `Phases` keeps the loop, the
  tools and the RPC thread apart: a decision is pending only while the loop waits, tools
  are quiet while it streams, a resumption is the last thing a request does. `ViewsOK`
  says that client and trace are the same but for text. From it follow the first two
  properties. `ChatSettles` has two halves. For the first, `SealOK`: once the chat was
  quiet after the end, all that any thread has to do is harmless, because each publication
  looks at the task first. The second is about runs without a cancel, a merge request or a
  restart (the exceptions the property names); for these `PlainInv` says that at most
  one thread works at a time but for tools that may run side by side (`Alone`), what each
  of them may do (`Does`, `Asking`), that the status shown is that of the fingerprint
  unless its frame is the next thing its thread sends (`StatusOK`), and that an ended
  task's status is idle or somebody still has the end to publish (`EndsIdle`). Two tools
  side by side may cross their statuses, but both say `tool_executing`.

Each inductive invariant was checked by TLC on an instance before it was proved, or is
built of parts that were.

Only model-checked:

* the liveness properties `CommandFinishes`, `DispatchAnswered`, `TurnEnds`, `LoopEnds`
  and `CancelledInTimeIsReported`, which are outside the prover's reach;
* `LastCheckDecides` of `Completion`, which does not hold for all constants: it needs
  that each command is of one language and has one key. Its operators also sort by
  `SortSeq`, of which nothing can be proved here;
* `AnsweredOnce` of `ChatStream`: it counts the answers to each call over a whole run, in
  the client, in the work of the threads and in the stored state at once;
* `RequestPaired` and `FreshResultsSent` of `ContextWindow`: they are about lists that
  are filtered, cut to a tail, merged with their neighbours and sorted, one after another,
  and need a theory of these operators before the first step can be proved.

## 7. Abstractions

*TaskRun.* The statuses `queued`, `planning` and `verifying` do not occur in a started
task of the ReAct path. The in-memory `_pending_react_tasks` is a cache of the row and is
identified with it. The words stop, pause and continue in a supplement act like the
RPC that would follow, so they are those requests. A write and the re-read at its end
(`update_task`) are one step. Remaining calls that a resume drains do not look for a
cancellation; neither does the model. The RPC thread is busy during an inline run, so no
cancel can arrive during one. Cancellation tokens mirror a cancelled status within one
orchestrator and are left out; the hook that cancels one by itself is in `ToolCall`.

*SessionQueue.* `created_at` is taken from a wall clock that does not go back; two tasks
may share a millisecond. Clearing the saved state belongs to the status write before it.

*BackgroundCommand.* Store calls succeed. A grandchild of the shell that keeps the pipe
open is not modelled; drains that outlive the join are.

*EventLog.* Every event has its own publisher, so events of one thread may overlap as
those of two do. INSERT and commit are one step. `ts` and the retention trim are left
out. Events of the command bridge carry no number and go straight to the queue.

*Collaboration.* One parent thread; a restart of the runtime in the middle of a dispatch,
worker health and heartbeats are left out. Lists of the team are short of their cut at 30.

*ToolCall.* A file's content is one of a few values, a command one of the classes the guards
tell apart; result shaping is left out. `agent` stands for the sub-agent tools.

*ProviderTurn.* An error is the set of classes whose markers its message contains. Bytes,
delta parsing and pooled connections are left out.

*ContextWindow.* A message is its role, its calls, the call it answers and its size. The
estimate of a text is its size; the builder's texts are constants of the instance.

*Completion.* The token tables over command texts are the constants `Keys` and
`Targeted`. Acceptance criteria and structural evidence are left out.

*ReactSteps.* One or two tools stand for each class the resolver tells apart; cancel and
pause from outside are in `TaskRun`.

*Worktree.* A tree is the sequence of changes made to it; two changes that share a file
may conflict. A refused request changes nothing and is left out.

*ChatStream.* A tool has at most one output event. A frame reaches client and trace in
one step. The deferral of decisions while a task is paused is left out.

## 8. Not modelled

* The DAG checkpoint of the legacy planner, and code that nothing calls or reaches (in
  `task_lifecycle.py` 1001–1039, 2072–2736 in parts, in `approval_flow.py` 550–759).
* Requests no client sends: writes by `collab.task.*`, `worktree.create/update/delete`;
  the `enter_worktree` and `exit_worktree` tools, which are never offered.
* The tree of cancellation tokens (`execution/cancel_token.py`): the token of a batch has
  no observer and `_release_task_cancel_token` no caller. The one flag that decides
  something, a task's token cancelled by a hook, is in `ToolCall`.
* Scheduled tasks, memory, skills, planner and reflection, configuration and profiles:
  single requests on the RPC thread, without state the tasks depend on; of these only the edit of the
  permission configuration during a call is an action (`ToolCall!SaveConfig`).
* MCP, HTTP, browser and desktop tools, reading and searching: I/O.
* In the chat: computer_use and completion_review cards, panel messages other than the
  team's. Replay beyond the recovery of the chat.
* The desktop application.

`PROJECT.json` gives the reason for each component.

## 9. Plan

Done, in order of importance: `TaskRun`, `SessionQueue`, `BackgroundCommand`, `EventLog`;
then `Collaboration` with its contract, `ToolCall`, `ProviderTurn`, `ContextWindow`,
`Completion`, `ReactSteps`, `Worktree`, `ChatStream`.

Theorems: the safety and action properties of all components, and the refinement of
`Collaboration`, but for those section 6 lists as only model-checked. Next, in this order:

1. `ContextWindow`: that the repair of pairs returns a paired list (`RequestPaired`), by
   induction over the length of the list in the manner of `GrantedUnfolds`.
2. `ChatStream`: `AnsweredOnce`, with the answers still to come counted per call, on top
   of `CSInv`.

Next models: the token tree and the hook that prevents continuation; due runs of
scheduled tasks against run-now and toggling; a restart in the middle of a dispatch.
