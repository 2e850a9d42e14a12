---------------------- MODULE CommandsAndEvents_proofs ----------------------
(***************************************************************************)
(* Proofs about two components whose states are disjoint: the background   *)
(* commands, for every set of commands and tasks, and the events a client  *)
(* of events.after receives, for any number of events, any queue and any   *)
(* page size.                                                              *)
(***************************************************************************)
EXTENDS BackgroundCommand, EventLog, TLAPS

(* Background commands. *)

\* Every step keeps the types; that the terminal event carries a terminal
\* status needs the thread order.
LEMMA CommandTypeStep == BCTypeOK /\ ThreadOrder /\ [BCNext]_bcVars => BCTypeOK'
<1> SUFFICES ASSUME BCTypeOK, ThreadOrder, [BCNext]_bcVars PROVE BCTypeOK'
  OBVIOUS
<1> USE DEF BCTypeOK
<1>1. ASSUME NEW c \in Commands, ToolThread(c) PROVE BCTypeOK'
  BY <1>1 DEF ToolThread, EnterTool, CreateCommandLog, EmitStartedEvent, Submit
<1>2. ASSUME NEW c \in Commands, Environment(c) PROVE BCTypeOK'
  BY <1>2 DEF Environment, ProcessWrites, ProcessExits, DrainReads, DrainPuts, Drains, Exited,
              ProcLive
<1>3. ASSUME NEW c \in Commands, Run(c) PROVE BCTypeOK'
  <2>1. CASE StartProcess(c) \/ LoopKill(c)
    BY <2>1 DEF StartProcess, LoopKill, ProcLive
  <2>2. CASE AttachRuntime(c)
    <3>1. proc' \in [Commands -> {"none", "gone"} \cup ProcLive \cup Exited]
      BY <2>2 DEF AttachRuntime, Killed, ProcLive, Exited
    <3> QED BY <2>2, <3>1 DEF AttachRuntime
  <2>3. CASE LoopExit(c) \/ LoopTimeout(c) \/ LoopRaises(c)
    BY <2>3 DEF LoopExit, LoopTimeout, LoopRaises, Killed, Exited, ProcLive, Terminal
  <2>4. CASE LoopDrain(c)
    BY <2>4 DEF LoopDrain
  <2>5. CASE Decide(c)
    BY <2>5 DEF Decide, ExitVerdict, Terminal
  <2>6. CASE HandleException(c) \/ Cleanup(c) \/ Flush(c) \/ CloseWriters(c)
    BY <2>6 DEF HandleException, Cleanup, Flush, CloseWriters, Terminal
  <2>7. CASE UpdateCommandLog(c) \/ EmitTerminalEvent(c) \/ PopRunning(c)
    BY <2>7 DEF UpdateCommandLog, EmitTerminalEvent, PopRunning, ThreadOrder
  <2> QED BY <1>3, <2>1, <2>2, <2>3, <2>4, <2>5, <2>6, <2>7 DEF Run
<1>4. ASSUME RpcThread PROVE BCTypeOK'
  <2>1. ASSUME NEW c \in Commands, KillAfterCancel(c) PROVE BCTypeOK'
    BY <2>1 DEF KillAfterCancel, Killed, ProcLive
  <2>2. ASSUME NEW c \in Commands, CancelCommand(c) \/ CancelLookup(c) PROVE BCTypeOK'
    <3>1. rpc' \in [task : Tasks \cup {"none"}, todo : SUBSET Commands]
      BY <2>2 DEF CancelCommand, CancelLookup, Idle
    <3>2. CASE CancelCommand(c)
      BY <3>1, <3>2 DEF CancelCommand
    <3>3. CASE CancelLookup(c)
      BY <3>1, <3>3 DEF CancelLookup, CancelState
    <3> QED BY <2>2, <3>2, <3>3
  <2>3. ASSUME NEW c \in Commands, CancelTaskCommand(c) PROVE BCTypeOK'
    BY <2>3 DEF CancelTaskCommand, CancelState
  <2>4. ASSUME NEW t \in Tasks, CancelTaskSnapshot(t) PROVE BCTypeOK'
    BY <2>4 DEF CancelTaskSnapshot
  <2>5. CASE CancelTaskStore
    BY <2>5 DEF CancelTaskStore, Idle
  <2> QED BY <1>4, <2>1, <2>2, <2>3, <2>4, <2>5 DEF RpcThread
<1>5. CASE UNCHANGED bcVars
  BY <1>5 DEF bcVars
<1> QED BY <1>1, <1>2, <1>3, <1>4, <1>5 DEF BCNext

\* Every step of every thread keeps the thread order.
LEMMA ThreadOrderStep == BCTypeOK /\ ThreadOrder /\ [BCNext]_bcVars => ThreadOrder'
<1> SUFFICES ASSUME BCTypeOK, ThreadOrder, [BCNext]_bcVars PROVE ThreadOrder'
  OBVIOUS
<1> USE DEF BCTypeOK, ThreadOrder, Terminal
<1>1. ASSUME NEW c \in Commands, ToolThread(c) PROVE ThreadOrder'
  BY <1>1 DEF ToolThread, EnterTool, CreateCommandLog, EmitStartedEvent, Submit
<1>2. ASSUME NEW c \in Commands, Environment(c) PROVE ThreadOrder'
  BY <1>2 DEF Environment, ProcessWrites, ProcessExits, DrainReads, DrainPuts
<1>3. ASSUME NEW c \in Commands, Run(c) PROVE ThreadOrder'
  <2>1. CASE StartProcess(c) \/ AttachRuntime(c) \/ LoopDrain(c) \/ LoopKill(c)
    BY <2>1 DEF StartProcess, AttachRuntime, LoopDrain, LoopKill, Killed
  <2>2. CASE LoopExit(c) \/ LoopTimeout(c) \/ LoopRaises(c) \/ Decide(c) \/ HandleException(c)
    BY <2>2 DEF LoopExit, LoopTimeout, LoopRaises, Decide, HandleException, Killed
  <2>3. CASE Cleanup(c) \/ Flush(c) \/ CloseWriters(c) \/ UpdateCommandLog(c) \/ PopRunning(c)
    BY <2>3 DEF Cleanup, Flush, CloseWriters, UpdateCommandLog, PopRunning
  <2>4. CASE EmitTerminalEvent(c)
    BY <2>4 DEF EmitTerminalEvent
  <2> QED BY <1>3, <2>1, <2>2, <2>3, <2>4 DEF Run
<1>4. ASSUME RpcThread PROVE ThreadOrder'
  BY <1>4 DEF RpcThread, CancelCommand, CancelLookup, CancelTaskCommand, KillAfterCancel,
              CancelState, Killed, CancelTaskSnapshot, CancelTaskStore
<1>5. CASE UNCHANGED bcVars
  BY <1>5 DEF bcVars
<1> QED BY <1>1, <1>2, <1>3, <1>4, <1>5 DEF BCNext

\* The type invariant and the thread order hold in every reachable state, for
\* any number of commands and tasks.
THEOREM CommandInductive == BCSpec => [](BCTypeOK /\ ThreadOrder)
<1>1. BCInit => BCTypeOK /\ ThreadOrder
  BY CommandsAssumption DEF BCInit, BCTypeOK, ThreadOrder, Terminal, Idle
<1> QED BY <1>1, CommandTypeStep, ThreadOrderStep, PTL DEF BCSpec

\* Every variable keeps its type, for any number of commands and tasks.
THEOREM CommandTypesCorrect == BCSpec => []BCTypeOK
  BY CommandInductive, PTL

\* The stages of a command's thread, its row, its process and its output keep in
\* step (ThreadOrder), for any number of commands and any amount of output.
THEOREM ThreadOrderHolds == BCSpec => []ThreadOrder
  BY CommandInductive, PTL

\* However cancel, timeout, process exit and the late attach of the runtime
\* interleave, a command whose row is final has no live process (_run reaps it
\* in its finally block before update_command_log).
THEOREM FinishedProcessGoneHolds == BCSpec => []FinishedProcessGone
<1>1. ThreadOrder => FinishedProcessGone
  BY DEF ThreadOrder, FinishedProcessGone, ProcLive
<1> QED BY CommandInductive, <1>1, PTL

\* Every line a drain thread read is traced before the terminal event, unless
\* the thread outlived the join of cleanup().
THEOREM OutputBeforeTerminalHolds == BCSpec => []OutputBeforeTerminal
<1>1. ThreadOrder => OutputBeforeTerminal
  BY DEF ThreadOrder, OutputBeforeTerminal
<1> QED BY CommandInductive, <1>1, PTL

-----------------------------------------------------------------------------
(* The event log. *)

\* A step keeps the types.
LEMMA EventTypeStep == TypeOK /\ [Next]_vars => TypeOK'
<1> SUFFICES ASSUME TypeOK, [Next]_vars PROVE TypeOK'
  OBVIOUS
<1> USE DEF TypeOK, bus, wire, client, Goto, Pcs
<1>1. ASSUME NEW e \in Events, Publish(e) \/ PublishDirect(e) \/ Skip(e) \/ AppendFails(e)
      PROVE  TypeOK'
  <2>1. CASE Publish(e)
    BY <2>1 DEF Publish
  <2>2. CASE PublishDirect(e) \/ Skip(e) \/ AppendFails(e)
    <3>1. UNCHANGED <<bus, num, trace, wire, client>>
      BY <2>2 DEF PublishDirect, Skip, AppendFails
    <3>2. pc' \in [Events -> Pcs]
      BY <2>2 DEF PublishDirect, Skip, AppendFails
    <3>. QED
      BY <3>1, <3>2
  <2>. QED
    BY <1>1, <2>1, <2>2
<1>2. ASSUME NEW e \in Events, AppendRead(e) PROVE TypeOK'
  <2>1. \A r \in trace : r.seq + 1 \in Nat
    BY DEF Row
  <2>. QED
    BY <1>2, <2>1 DEF AppendRead
<1>3. ASSUME NEW e \in Events, AppendInsert(e) PROVE TypeOK'
  <2>1. trace' \subseteq Row
    BY <1>3 DEF AppendInsert, Row
  <2>2. pc' \in [Events -> Pcs] /\ seq' \in [Events -> Nat]
    BY <1>3 DEF AppendInsert
  <2>. QED
    BY <1>3, <2>1, <2>2 DEF AppendInsert
<1>4. ASSUME NEW e \in Events, Emit(e) PROVE TypeOK'
  <2>1. [ev |-> e, seq |-> seq[e]] \in Row
    BY DEF Row
  <2>2. queue' \in Seq(Row)
    BY <1>4, <2>1 DEF Emit
  <2>. QED
    BY <1>4, <2>2 DEF Emit
<1>5. CASE WriteEventPayload
  BY <1>5 DEF WriteEventPayload
<1>6. CASE DeleteSession
  BY <1>6 DEF DeleteSession
<1>7. CASE EventsAfter
  <2>1. After \subseteq Row /\ \A r \in After : r.seq \in Nat
    BY DEF After, Row
  <2>. QED
    BY <1>7, <2>1 DEF EventsAfter
<1>8. CASE UNCHANGED vars
  BY <1>8 DEF vars
<1>. QED
  BY <1>1, <1>2, <1>3, <1>4, <1>5, <1>6, <1>7, <1>8 DEF Next

-----------------------------------------------------------------------------
\* What has been received lies at or below the cursor.
Received == again = {} /\ \A r \in got : r.seq <= cursor

\* A step keeps what was received at or below the cursor.
LEMMA ReceivedStep == TypeOK /\ Received /\ [Next]_vars => Received'
<1> SUFFICES ASSUME TypeOK, Received, [Next]_vars PROVE Received'
  OBVIOUS
<1> USE DEF Received
<1>1. CASE EventsAfter
  <2>1. PICK P \in SUBSET After :
          /\ got' = got \cup P
          /\ again' = again \cup (got \cap P)
          /\ \E last \in P : (\A r \in P : r.seq <= last.seq) /\ cursor' = last.seq
    BY <1>1 DEF EventsAfter
  <2>2. cursor \in Nat /\ (\A r \in got \cup P : r.seq \in Nat) /\ \A r \in P : r.seq > cursor
    BY DEF TypeOK, Row, After
  <2>3. got \cap P = {}
    BY <2>2
  <2>4. \A r \in got' : r.seq <= cursor'
    BY <2>1, <2>2
  <2>. QED
    BY <2>1, <2>3, <2>4
<1>2. CASE UNCHANGED client
  BY <1>2 DEF client
<1>. QED
  BY <1>1, <1>2 DEF Next, vars, Publish, PublishDirect, Skip, AppendRead, AppendInsert,
     AppendFails, Emit, WriteEventPayload, DeleteSession

\* Every variable keeps its type, for any events, connections, queue and page size.
THEOREM EventTypesCorrect == Spec => []TypeOK
<1>1. Init => TypeOK
  BY DEF Init, TypeOK, Pcs
<1>. QED
  BY <1>1, EventTypeStep, PTL DEF Spec

\* events.after never delivers a row twice (ReplayOnce), whatever connections
\* append, whatever sessions are deleted and whatever the page size.
THEOREM ReplayOnceHolds == Spec => []ReplayOnce
<1>1. Init => Received
  BY DEF Init, Received
<1>2. TypeOK /\ Received /\ [Next]_vars => Received'
  BY ReceivedStep
<1>3. Received => ReplayOnce
  BY DEF Received, ReplayOnce
<1>. QED
  BY <1>1, <1>2, <1>3, EventTypesCorrect, PTL DEF Spec

-----------------------------------------------------------------------------
\* While the bus is the only writer: one append at a time, ahead of every row
\* and of the cursor, and so no number twice.
Alone == \A e, f \in Events : pc[e] = "insert" /\ pc[f] = "insert" => e = f

Ahead == \A e \in Events : pc[e] = "insert" =>
           num[e] > cursor /\ \A r \in trace : r.seq < num[e]

Unique == \A r, q \in trace : r.seq = q.seq => r = q

\* The cursor is a row of the session, or the client has not begun.
AtRow == cursor = 0 \/ \E r \in trace : r.ev \in Home /\ r.seq = cursor

Ordered == Alone /\ Ahead /\ Unique /\ AtRow /\ NoneSkipped

\* A connection that has begun to append has begun for good.
LEMMA BusOnlyBefore == TypeOK /\ [Next]_vars /\ BusOnly' => BusOnly
<1> SUFFICES ASSUME TypeOK, [Next]_vars, NEW d \in Events, pc'[d] = "new"
             PROVE  pc[d] = "new"
  BY EventLogAssumption DEF BusOnly
<1> USE DEF TypeOK, Goto
<1>1. ASSUME NEW e \in Events, Publish(e) \/ PublishDirect(e) \/ Skip(e) \/ AppendRead(e)
      PROVE  pc[d] = "new"
  BY <1>1 DEF Publish, PublishDirect, Skip, AppendRead
<1>2. ASSUME NEW e \in Events, AppendInsert(e) \/ AppendFails(e) \/ Emit(e)
      PROVE  pc[d] = "new"
  BY <1>2 DEF AppendInsert, AppendFails, Emit
<1>3. CASE UNCHANGED pc
  BY <1>3
<1>. QED
  BY <1>1, <1>2, <1>3 DEF Next, vars, WriteEventPayload, DeleteSession, EventsAfter

\* A step keeps the rows a client has not seen ahead of its cursor.
LEMMA OrderedStep ==
  ASSUME BusOnly, TypeOK, Ordered, [Next]_vars, BusOnly'
  PROVE  Ordered'
<1>0. cursor \in Nat /\ \A r \in trace : r.seq \in Nat
  BY DEF TypeOK, Row
<1> USE DEF Ordered, bus, wire, client, Goto
<1>1. ASSUME NEW e \in Events,
             Publish(e) \/ PublishDirect(e) \/ Skip(e) \/ AppendFails(e) \/ Emit(e)
      PROVE  Ordered'
  <2>1. UNCHANGED <<num, trace, cursor, got>>
    BY <1>1 DEF Publish, PublishDirect, Skip, AppendFails, Emit
  <2>2. \A f \in Events : pc'[f] = "insert" => pc[f] = "insert"
    BY <1>1 DEF Publish, PublishDirect, Skip, AppendFails, Emit, TypeOK
  <2>. QED
    BY <2>1, <2>2 DEF Alone, Ahead, Unique, AtRow, NoneSkipped
<1>2. ASSUME NEW e \in Events, AppendRead(e) PROVE Ordered'
  <2>1. UNCHANGED <<trace, cursor, got>>
    BY <1>2 DEF AppendRead
  <2>2. \A f \in Events : pc[f] # "insert"
    BY <1>2 DEF AppendRead, LockFree, BusOnly
  <2>3. \A f \in Events : pc'[f] = "insert" => f = e
    BY <1>2, <2>2 DEF AppendRead, TypeOK
  <2>4. num'[e] \in Nat \ {0} /\ \A r \in trace : r.seq < num'[e]
    BY <1>0, <1>2 DEF AppendRead, NextSequence, TypeOK
  <2>5. num'[e] > cursor
    BY <1>0, <2>4 DEF AtRow
  <2>. QED
    BY <2>1, <2>3, <2>4, <2>5 DEF Alone, Ahead, Unique, AtRow, NoneSkipped
<1>3. ASSUME NEW e \in Events, AppendInsert(e) PROVE Ordered'
  <2> DEFINE row == [ev |-> e, seq |-> num[e]]
  <2>1. trace' = trace \cup {row} /\ UNCHANGED <<num, cursor, got>>
    BY <1>3 DEF AppendInsert
  <2>2. \A f \in Events : pc'[f] # "insert"
    BY <1>3 DEF AppendInsert, Alone, TypeOK
  <2>3. num[e] \in Nat /\ num[e] > cursor /\ \A r \in trace : r.seq < num[e]
    BY <1>3 DEF AppendInsert, Ahead, TypeOK
  <2>4. Unique'
    BY <1>0, <2>1, <2>3 DEF Unique
  <2>5. NoneSkipped'
    BY <1>0, <2>1, <2>3 DEF NoneSkipped
  <2>. QED
    BY <2>1, <2>2, <2>4, <2>5 DEF Alone, Ahead, AtRow
<1>4. CASE DeleteSession
  BY <1>4 DEF DeleteSession, Alone, Ahead, Unique, AtRow, NoneSkipped
<1>5. CASE EventsAfter
  <2>1. PICK P \in SUBSET After :
          /\ IsPage(P)
          /\ got' = got \cup P
          /\ \E last \in P : (\A r \in P : r.seq <= last.seq) /\ cursor' = last.seq
    BY <1>5 DEF EventsAfter
  <2>2. PICK last \in P : (\A r \in P : r.seq <= last.seq) /\ cursor' = last.seq
    BY <2>1
  <2>3. UNCHANGED <<pc, num, trace>>
    BY <1>5 DEF EventsAfter
  <2>4. last \in trace /\ last.ev \in Home /\ last.seq > cursor
    BY DEF After
  <2>5. ASSUME NEW r \in trace, r.ev \in Home, r.seq <= last.seq PROVE r \in got'
    <3>1. CASE r.seq <= cursor
      BY <2>1, <2>5, <3>1 DEF NoneSkipped
    <3>2. CASE r.seq > cursor
      <4>1. r \in After
        BY <2>5, <3>2 DEF After
      <4>2. CASE r \notin P
        <5>1. last.seq <= r.seq
          BY <2>1, <4>1, <4>2 DEF IsPage
        <5>. QED
          BY <1>0, <2>4, <2>5, <4>2, <5>1 DEF Unique
      <4>. QED
        BY <2>1, <4>2
    <3>. QED
      BY <1>0, <3>1, <3>2
  <2>6. Ahead'
    BY <2>2, <2>3, <2>4 DEF Ahead
  <2>. QED
    BY <2>2, <2>3, <2>4, <2>5, <2>6 DEF Alone, Unique, AtRow, NoneSkipped
<1>6. CASE WriteEventPayload \/ UNCHANGED vars
  BY <1>6 DEF WriteEventPayload, vars, Alone, Ahead, Unique, AtRow, NoneSkipped
<1>. QED
  BY <1>1, <1>2, <1>3, <1>4, <1>5, <1>6 DEF Next

\* As long as every row is appended through the connection of the bus, a client
\* that pages through events.after misses nothing it has paged past (NoneSkipped),
\* whatever sessions are deleted meanwhile.
THEOREM NoneSkippedHolds == Spec => []NoneSkipped
<1> DEFINE Inv == TypeOK /\ (BusOnly => Ordered)
<1>1. Init => Inv
  BY DEF Init, TypeOK, Ordered, Alone, Ahead, Unique, AtRow, NoneSkipped, Pcs
<1>2. Inv /\ [Next]_vars => Inv'
  BY EventTypeStep, OrderedStep, BusOnlyBefore
<1>3. Inv => NoneSkipped
  BY DEF Ordered, NoneSkipped
<1>. QED
  BY <1>1, <1>2, <1>3, PTL DEF Spec
=============================================================================
