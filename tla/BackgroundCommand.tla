-------------------------- MODULE BackgroundCommand --------------------------
(***************************************************************************)
(* Background shell commands of the runtime                                *)
(* (services/command_background.py, services/worker_process_runtime.py,    *)
(* the background branch of tools/run_command.py, and the two RPCs that    *)
(* cancel commands).                                                       *)
(*                                                                         *)
(* Four kinds of thread meet here: the tool thread that creates the        *)
(* command log and submits the request, the daemon thread `_run' of each   *)
(* command, the stream-drain threads of its process, and the RPC thread    *)
(* that cancels one command or every command of a task.                    *)
(*                                                                         *)
(* BCInit, BCNext and the like carry the initials of the module, so that   *)
(* CommandsAndEvents_proofs can extend this module and EventLog.           *)
(***************************************************************************)
EXTENDS Naturals, FiniteSets

CONSTANTS Commands,   \* command_log ids
          Tasks,      \* task ids
          TaskOf,     \* the task_id of each command's request
          MaxChunks   \* bound: chunks a process writes

ASSUME CommandsAssumption ==
  /\ TaskOf \in [Commands -> Tasks]
  /\ MaxChunks \in Nat
  /\ "none" \notin Tasks

VARIABLES
  taskCancelled,  \* tasks whose stored status is "cancelled"
  tool,           \* pc of the tool thread, per command
  log,            \* command_logs.status, "none" before the INSERT
  running,        \* keys of BackgroundCommandService._running
  cancelled,      \* _RunningBackgroundCommand.cancelled
  attached,       \* _RunningBackgroundCommand.runtime is set
  worker,         \* pc of BackgroundCommandService._run
  verdict,        \* local `status' of _run
  proc,           \* the operating system process
  pipe,           \* chunks written by the process, not yet read
  held,           \* chunks the drain threads have read and not yet queued
  late,           \* commands whose drains outlived the one-second join
  queued,         \* chunks in pending_chunks and pending_buffers
  traced,         \* chunks traced and emitted as command.output
  emitted,        \* lifecycle events the bridge has seen, per command
  killing,        \* commands whose cancel() is about to call runtime.kill()
  rpc             \* the RPC thread inside cancel_task

bcVars == <<taskCancelled, tool, log, running, cancelled, attached, worker,
          verdict, proc, pipe, held, late, queued, traced, emitted, killing, rpc>>

Terminal == {"completed", "failed", "killed", "timeout", "cancelled"}
Exited   == {"exit0", "exitN", "signal"}
ProcLive == {"alive", "dying"}
Idle     == [task |-> "none", todo |-> {}]
Drains   == 2    \* one thread each for stdout and stderr

BCTypeOK ==
  /\ taskCancelled \subseteq Tasks
  /\ tool \in [Commands -> {"idle", "checked", "logged", "announced", "submitted"}]
  /\ log \in [Commands -> {"none", "running"} \cup Terminal]
  /\ running \subseteq Commands
  /\ cancelled \in [Commands -> BOOLEAN]
  /\ attached \in [Commands -> BOOLEAN]
  /\ worker \in [Commands -> {"none", "start", "attach", "loop", "decide", "except",
                              "cleanup", "flush", "close", "log", "emit", "pop", "done"}]
  /\ verdict \in [Commands -> Terminal]
  /\ proc \in [Commands -> {"none", "gone"} \cup ProcLive \cup Exited]
  /\ pipe \in [Commands -> Nat]
  /\ held \in [Commands -> Nat]
  /\ late \subseteq Commands
  /\ queued \in [Commands -> Nat]
  /\ traced \in [Commands -> Nat]
  /\ emitted \in [Commands -> SUBSET ({"started"} \cup Terminal)]
  /\ killing \subseteq Commands
  /\ rpc \in [task : Tasks \cup {"none"}, todo : SUBSET Commands]

BCInit ==
  /\ taskCancelled = {}
  /\ tool = [c \in Commands |-> "idle"]
  /\ log = [c \in Commands |-> "none"]
  /\ running = {}
  /\ cancelled = [c \in Commands |-> FALSE]
  /\ attached = [c \in Commands |-> FALSE]
  /\ worker = [c \in Commands |-> "none"]
  /\ verdict = [c \in Commands |-> "completed"]
  /\ proc = [c \in Commands |-> "none"]
  /\ pipe = [c \in Commands |-> 0]
  /\ held = [c \in Commands |-> 0]
  /\ late = {}
  /\ queued = [c \in Commands |-> 0]
  /\ traced = [c \in Commands |-> 0]
  /\ emitted = [c \in Commands |-> {}]
  /\ killing = {}
  /\ rpc = Idle

-----------------------------------------------------------------------------
(* The tool thread: run_command(background = True).                         *)

\* The ReAct loop refreshes the task and enters the tool only while it is
\* not cancelled; nothing re-checks the status before submit().
EnterTool(c) ==
  /\ tool[c] = "idle"
  /\ TaskOf[c] \notin taskCancelled
  /\ tool' = [tool EXCEPT ![c] = "checked"]
  /\ UNCHANGED <<taskCancelled, log, running, cancelled, attached, worker, verdict,
                 proc, pipe, held, late, queued, traced, emitted, killing, rpc>>

CreateCommandLog(c) ==
  /\ tool[c] = "checked"
  /\ tool' = [tool EXCEPT ![c] = "logged"]
  /\ log' = [log EXCEPT ![c] = "running"]
  /\ UNCHANGED <<taskCancelled, running, cancelled, attached, worker, verdict, proc,
                 pipe, held, late, queued, traced, emitted, killing, rpc>>

EmitStartedEvent(c) ==
  /\ tool[c] = "logged"
  /\ tool' = [tool EXCEPT ![c] = "announced"]
  /\ emitted' = [emitted EXCEPT ![c] = @ \cup {"started"}]
  /\ UNCHANGED <<taskCancelled, log, running, cancelled, attached, worker, verdict,
                 proc, pipe, held, late, queued, traced, killing, rpc>>

\* Registers the state under the lock, then starts the daemon thread.
Submit(c) ==
  /\ tool[c] = "announced"
  /\ tool' = [tool EXCEPT ![c] = "submitted"]
  /\ running' = running \cup {c}
  /\ worker' = [worker EXCEPT ![c] = "start"]
  /\ UNCHANGED <<taskCancelled, log, cancelled, attached, verdict, proc, pipe, held,
                 late, queued, traced, emitted, killing, rpc>>

-----------------------------------------------------------------------------
(* The process and its drain threads.                                       *)

ProcessWrites(c) ==
  /\ proc[c] = "alive"
  /\ pipe[c] + held[c] + queued[c] + traced[c] < MaxChunks
  /\ pipe' = [pipe EXCEPT ![c] = @ + 1]
  /\ UNCHANGED <<taskCancelled, tool, log, running, cancelled, attached, worker,
                 verdict, proc, held, late, queued, traced, emitted, killing, rpc>>

\* A killed process dies by the signal; a live one exits with any code.
ProcessExits(c) ==
  /\ \/ proc[c] = "alive" /\ \E r \in {"exit0", "exitN"} : proc' = [proc EXCEPT ![c] = r]
     \/ proc[c] = "dying" /\ proc' = [proc EXCEPT ![c] = "signal"]
  /\ UNCHANGED <<taskCancelled, tool, log, running, cancelled, attached, worker,
                 verdict, pipe, held, late, queued, traced, emitted, killing, rpc>>

\* WorkerProcessStreamDrain._run: a drain thread reads one line.  The drains
\* exist from the poll loop until cleanup() closes their streams.
DrainReads(c) ==
  /\ worker[c] \in {"loop", "decide", "except", "cleanup"}
  /\ attached[c]
  /\ pipe[c] > 0 /\ held[c] < Drains
  /\ pipe' = [pipe EXCEPT ![c] = @ - 1]
  /\ held' = [held EXCEPT ![c] = @ + 1]
  /\ UNCHANGED <<taskCancelled, tool, log, running, cancelled, attached, worker,
                 verdict, proc, late, queued, traced, emitted, killing, rpc>>

\* Its callback writes the artifact and queues the line; once the writers are
\* closed the write raises and the line is gone.
DrainPuts(c) ==
  /\ held[c] > 0
  /\ held' = [held EXCEPT ![c] = @ - 1]
  /\ queued' = [queued EXCEPT ![c] =
                  IF worker[c] \in {"log", "emit", "pop", "done"} THEN @ ELSE @ + 1]
  /\ UNCHANGED <<taskCancelled, tool, log, running, cancelled, attached, worker,
                 verdict, proc, pipe, late, traced, emitted, killing, rpc>>

\* WorkerProcessRuntime.kill on a process that may already be reaped.
Killed(p) == IF p = "alive" THEN "dying" ELSE p

-----------------------------------------------------------------------------
(* The command thread: BackgroundCommandService._run.                       *)

StartProcess(c) ==
  /\ worker[c] = "start"
  /\ \/ /\ worker' = [worker EXCEPT ![c] = "attach"]
        /\ proc' = [proc EXCEPT ![c] = "alive"]
     \/ /\ worker' = [worker EXCEPT ![c] = "except"]     \* Popen raised
        /\ UNCHANGED proc
  /\ UNCHANGED <<taskCancelled, tool, log, running, cancelled, attached, verdict,
                 pipe, held, late, queued, traced, emitted, killing, rpc>>

\* Publishing the runtime and reading `cancelled' is one critical section;
\* a cancel() that came first could not kill, so the worker does.
AttachRuntime(c) ==
  /\ worker[c] = "attach"
  /\ attached' = [attached EXCEPT ![c] = TRUE]
  /\ proc' = [proc EXCEPT ![c] = IF cancelled[c] THEN Killed(@) ELSE @]
  /\ worker' = [worker EXCEPT ![c] = "loop"]
  /\ UNCHANGED <<taskCancelled, tool, log, running, cancelled, verdict, pipe, held,
                 late, queued, traced, emitted, killing, rpc>>

\* _drain_pending_chunks inside the poll loop: a suffix without a newline may
\* stay buffered.
LoopDrain(c) ==
  /\ worker[c] = "loop"
  /\ \E n \in 1..queued[c] :
       /\ queued' = [queued EXCEPT ![c] = @ - n]
       /\ traced' = [traced EXCEPT ![c] = @ + n]
  /\ UNCHANGED <<taskCancelled, tool, log, running, cancelled, attached, worker,
                 verdict, proc, pipe, held, late, emitted, killing, rpc>>

\* is_cancelled() -> kill().
LoopKill(c) ==
  /\ worker[c] = "loop"
  /\ cancelled[c]
  /\ proc[c] = "alive"
  /\ proc' = [proc EXCEPT ![c] = "dying"]
  /\ UNCHANGED <<taskCancelled, tool, log, running, cancelled, attached, worker,
                 verdict, pipe, held, late, queued, traced, emitted, killing, rpc>>

\* poll() returned an exit code.
LoopExit(c) ==
  /\ worker[c] = "loop"
  /\ proc[c] \in Exited
  /\ worker' = [worker EXCEPT ![c] = "decide"]
  /\ UNCHANGED <<taskCancelled, tool, log, running, cancelled, attached, verdict,
                 proc, pipe, held, late, queued, traced, emitted, killing, rpc>>

\* The deadline passed: every request has one, timeout_ms is at least 1000.
\* The process may have exited since the poll before it.
LoopTimeout(c) ==
  /\ worker[c] = "loop"
  /\ proc' = [proc EXCEPT ![c] = Killed(@)]
  /\ verdict' = [verdict EXCEPT ![c] = "timeout"]
  /\ worker' = [worker EXCEPT ![c] = "decide"]
  /\ UNCHANGED <<taskCancelled, tool, log, running, cancelled, attached, pipe, held,
                 late, queued, traced, emitted, killing, rpc>>

\* Opening a drain, or a listener of the output events, raised.
LoopRaises(c) ==
  /\ worker[c] = "loop"
  /\ worker' = [worker EXCEPT ![c] = "except"]
  /\ UNCHANGED <<taskCancelled, tool, log, running, cancelled, attached, verdict, proc,
                 pipe, held, late, queued, traced, emitted, killing, rpc>>

\* The verdict from the exit code once the loop ended without a cancel.
ExitVerdict(c) ==
  CASE verdict[c] = "timeout" -> "timeout"
    [] proc[c] = "exit0"      -> "completed"
    [] proc[c] = "signal"     -> "killed"
    [] OTHER                  -> "failed"

\* Variant: only the exit code decides.
DecideIgnoringCancel(c) ==
  /\ worker[c] = "decide"
  /\ queued' = [queued EXCEPT ![c] = 0]
  /\ traced' = [traced EXCEPT ![c] = @ + queued[c]]
  /\ verdict' = [verdict EXCEPT ![c] = ExitVerdict(c)]
  /\ worker' = [worker EXCEPT ![c] = "cleanup"]
  /\ UNCHANGED <<taskCancelled, tool, log, running, cancelled, attached, proc, pipe,
                 held, late, emitted, killing, rpc>>

\* Flush everything queued, then decide; a cancel seen here wins.
Decide(c) ==
  /\ worker[c] = "decide"
  /\ queued' = [queued EXCEPT ![c] = 0]
  /\ traced' = [traced EXCEPT ![c] = @ + queued[c]]
  /\ verdict' = [verdict EXCEPT ![c] = IF cancelled[c] THEN "cancelled" ELSE ExitVerdict(c)]
  /\ worker' = [worker EXCEPT ![c] = "cleanup"]
  /\ UNCHANGED <<taskCancelled, tool, log, running, cancelled, attached, proc, pipe,
                 held, late, emitted, killing, rpc>>

\* Variant: the exception ends the worker thread.
HandleExceptionEscapes(c) ==
  /\ worker[c] = "except"
  /\ traced' = [traced EXCEPT ![c] = @ + 1]
  /\ worker' = [worker EXCEPT ![c] = "done"]
  /\ UNCHANGED <<taskCancelled, tool, log, running, cancelled, attached, verdict,
                 proc, pipe, held, late, queued, emitted, killing, rpc>>

\* The except branch: the error text is appended and emitted as stderr output.
HandleException(c) ==
  /\ worker[c] = "except"
  /\ verdict' = [verdict EXCEPT ![c] = IF cancelled[c] THEN "cancelled" ELSE "failed"]
  /\ traced' = [traced EXCEPT ![c] = @ + 1]
  /\ worker' = [worker EXCEPT ![c] = "cleanup"]
  /\ UNCHANGED <<taskCancelled, tool, log, running, cancelled, attached, proc, pipe,
                 held, late, queued, emitted, killing, rpc>>

\* Variant: the process is left to itself.
CleanupNoKill(c) ==
  /\ worker[c] = "cleanup"
  /\ pipe' = [pipe EXCEPT ![c] = 0]
  /\ late' = IF held[c] > 0 THEN late \cup {c} ELSE late
  /\ worker' = [worker EXCEPT ![c] = "flush"]
  /\ UNCHANGED <<taskCancelled, tool, log, running, cancelled, attached, verdict, proc,
                 held, queued, traced, emitted, killing, rpc>>

\* finally, runtime.cleanup(): kill and wait if still alive, close the streams
\* (what is left in the pipe is lost), and join the drains, for at most a
\* second each.
Cleanup(c) ==
  /\ worker[c] = "cleanup"
  /\ proc' = [proc EXCEPT ![c] = "gone"]
  /\ pipe' = [pipe EXCEPT ![c] = 0]
  /\ late' = IF held[c] > 0 THEN late \cup {c} ELSE late
  /\ worker' = [worker EXCEPT ![c] = "flush"]
  /\ UNCHANGED <<taskCancelled, tool, log, running, cancelled, attached, verdict,
                 held, queued, traced, emitted, killing, rpc>>

\* Variant: the writers are closed right after the cleanup.
FlushNothing(c) ==
  /\ worker[c] = "flush"
  /\ worker' = [worker EXCEPT ![c] = "close"]
  /\ UNCHANGED <<taskCancelled, tool, log, running, cancelled, attached, verdict, proc,
                 pipe, held, late, queued, traced, emitted, killing, rpc>>

\* The last _drain_pending_chunks, and then the writers are closed.
Flush(c) ==
  /\ worker[c] = "flush"
  /\ queued' = [queued EXCEPT ![c] = 0]
  /\ traced' = [traced EXCEPT ![c] = @ + queued[c]]
  /\ worker' = [worker EXCEPT ![c] = "close"]
  /\ UNCHANGED <<taskCancelled, tool, log, running, cancelled, attached, verdict, proc,
                 pipe, held, late, emitted, killing, rpc>>

CloseWriters(c) ==
  /\ worker[c] = "close"
  /\ worker' = [worker EXCEPT ![c] = "log"]
  /\ UNCHANGED <<taskCancelled, tool, log, running, cancelled, attached, verdict, proc,
                 pipe, held, late, queued, traced, emitted, killing, rpc>>

UpdateCommandLog(c) ==
  /\ worker[c] = "log"
  /\ log' = [log EXCEPT ![c] = verdict[c]]
  /\ worker' = [worker EXCEPT ![c] = "emit"]
  /\ UNCHANGED <<taskCancelled, tool, running, cancelled, attached, verdict, proc,
                 pipe, held, late, queued, traced, emitted, killing, rpc>>

\* _emit_terminal_event reports the row that was just written.
EmitTerminalEvent(c) ==
  /\ worker[c] = "emit"
  /\ emitted' = [emitted EXCEPT ![c] = @ \cup {log[c]}]
  /\ worker' = [worker EXCEPT ![c] = "pop"]
  /\ UNCHANGED <<taskCancelled, tool, log, running, cancelled, attached, verdict,
                 proc, pipe, held, late, queued, traced, killing, rpc>>

PopRunning(c) ==
  /\ worker[c] = "pop"
  /\ running' = running \ {c}
  /\ worker' = [worker EXCEPT ![c] = "done"]
  /\ UNCHANGED <<taskCancelled, tool, log, cancelled, attached, verdict, proc, pipe,
                 held, late, queued, traced, emitted, killing, rpc>>

-----------------------------------------------------------------------------
(* Cancellation, on the RPC thread.                                         *)

\* _RunningBackgroundCommand.cancel: the flag and the runtime are read in one
\* critical section, the kill happens after it.
CancelState(c) ==
  /\ cancelled' = [cancelled EXCEPT ![c] = TRUE]
  /\ killing' = IF ~cancelled[c] /\ attached[c] THEN killing \cup {c} ELSE killing

\* The second half of cancel(): runtime.kill(), a no-op after cleanup().
KillAfterCancel(c) ==
  /\ c \in killing
  /\ killing' = killing \ {c}
  /\ proc' = [proc EXCEPT ![c] = Killed(@)]
  /\ UNCHANGED <<taskCancelled, tool, log, running, cancelled, attached, worker,
                 verdict, pipe, held, late, queued, traced, emitted, rpc>>

\* command.cancel: the row is read first, and must say running ...
CancelCommand(c) ==
  /\ rpc = Idle /\ killing = {}
  /\ log[c] = "running"
  /\ rpc' = [task |-> "none", todo |-> {c}]
  /\ UNCHANGED <<taskCancelled, tool, log, running, cancelled, attached, worker, verdict,
                 proc, pipe, held, late, queued, traced, emitted, killing>>

\* ... then the command is looked up among the running ones.
CancelLookup(c) ==
  /\ rpc = [task |-> "none", todo |-> {c}]
  /\ IF c \in running THEN CancelState(c) ELSE UNCHANGED <<cancelled, killing>>
  /\ rpc' = Idle
  /\ UNCHANGED <<taskCancelled, tool, log, running, attached, worker, verdict, proc,
                 pipe, held, late, queued, traced, emitted>>

\* cancel_task: snapshot of the task's running commands ...
CancelTaskSnapshot(t) ==
  /\ rpc = Idle /\ killing = {}
  /\ t \notin taskCancelled
  /\ rpc' = [task |-> t, todo |-> {c \in running : TaskOf[c] = t}]
  /\ UNCHANGED <<taskCancelled, tool, log, running, cancelled, attached, worker,
                 verdict, proc, pipe, held, late, queued, traced, emitted, killing>>

\* ... each state cancelled in turn ...
CancelTaskCommand(c) ==
  /\ rpc.task \in Tasks /\ c \in rpc.todo /\ killing = {}
  /\ rpc' = [rpc EXCEPT !.todo = @ \ {c}]
  /\ CancelState(c)
  /\ UNCHANGED <<taskCancelled, tool, log, running, attached, worker, verdict, proc,
                 pipe, held, late, queued, traced, emitted>>

\* ... and the task stored as cancelled.
CancelTaskStore ==
  /\ rpc.task \in Tasks /\ rpc.todo = {} /\ killing = {}
  /\ taskCancelled' = taskCancelled \cup {rpc.task}
  /\ rpc' = Idle
  /\ UNCHANGED <<tool, log, running, cancelled, attached, worker, verdict, proc, pipe,
                 held, late, queued, traced, emitted, killing>>

-----------------------------------------------------------------------------
ToolThread(c) == EnterTool(c) \/ CreateCommandLog(c) \/ EmitStartedEvent(c) \/ Submit(c)

Run(c) == \/ StartProcess(c) \/ AttachRuntime(c) \/ LoopDrain(c) \/ LoopKill(c)
          \/ LoopExit(c) \/ LoopTimeout(c) \/ LoopRaises(c) \/ Decide(c)
          \/ HandleException(c) \/ Cleanup(c) \/ Flush(c) \/ CloseWriters(c)
          \/ UpdateCommandLog(c) \/ EmitTerminalEvent(c) \/ PopRunning(c)

Environment(c) == ProcessWrites(c) \/ ProcessExits(c) \/ DrainReads(c) \/ DrainPuts(c)

RpcThread == \/ \E c \in Commands : \/ CancelCommand(c) \/ CancelLookup(c)
                                    \/ CancelTaskCommand(c) \/ KillAfterCancel(c)
             \/ \E t \in Tasks : CancelTaskSnapshot(t)
             \/ CancelTaskStore

BCNext == \/ \E c \in Commands : ToolThread(c) \/ Run(c) \/ Environment(c)
          \/ RpcThread

\* The command thread is a scheduled daemon thread whose loop has a deadline;
\* a tool thread that created the log goes on to submit.
Fairness ==
  \A c \in Commands :
    /\ WF_bcVars(CreateCommandLog(c) \/ EmitStartedEvent(c) \/ Submit(c))
    /\ WF_bcVars(StartProcess(c) \/ AttachRuntime(c) \/ LoopExit(c) \/ LoopTimeout(c)
                 \/ Decide(c) \/ HandleException(c) \/ Cleanup(c) \/ Flush(c)
                 \/ CloseWriters(c) \/ UpdateCommandLog(c) \/ EmitTerminalEvent(c)
                 \/ PopRunning(c))

BCSpec == BCInit /\ [][BCNext]_bcVars
BCFairSpec == BCSpec /\ Fairness
-----------------------------------------------------------------------------
(* Properties *)

\* The inductive strengthening of the two invariants below: where the command
\* thread stands determines what the row, the process and the queue can be.
ThreadOrder ==
  \A c \in Commands :
    /\ worker[c] # "none" => tool[c] = "submitted"
    /\ log[c] \in Terminal <=> worker[c] \in {"emit", "pop", "done"}
    /\ emitted[c] \cap Terminal # {} => worker[c] \in {"pop", "done"}
    /\ worker[c] \in {"flush", "close", "log", "emit", "pop", "done"} => proc[c] = "gone"
    /\ worker[c] \in {"flush", "close", "log", "emit", "pop", "done"} /\ c \notin late
         => held[c] = 0
    /\ worker[c] \in {"close", "log", "emit", "pop", "done"} /\ c \notin late
         => queued[c] = 0

\* A log row leaves "running" only after cleanup() has reaped the process: a
\* finished command never has a process left behind, however cancel, timeout
\* and a late attach interleave.
FinishedProcessGone == \A c \in Commands : log[c] \in Terminal => proc[c] \notin ProcLive

\* The attach/cancel race and the cancel/exit race: a command cancelled before
\* its thread left the poll loop ends as "cancelled", never as "killed",
\* "failed" or "completed", whichever of cancel() and attach_runtime() was first.
CancelledInTimeIsReported ==
  \A c \in Commands :
    cancelled[c] /\ worker[c] \in {"start", "attach", "loop"} ~> log[c] = "cancelled"

\* No line that was read is lost unless its drain thread outlived the join:
\* when the terminal event goes out, every line has been traced and emitted.
OutputBeforeTerminal ==
  \A c \in Commands :
    emitted[c] \cap Terminal # {} /\ c \notin late => queued[c] = 0 /\ held[c] = 0

\* Every command that was logged reaches a final row, with no fairness asked
\* of the process: the deadline ends it.
CommandFinishes == \A c \in Commands : log[c] = "running" ~> log[c] \in Terminal
=============================================================================
