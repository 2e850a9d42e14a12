------------------------------ MODULE EventLog ------------------------------
(***************************************************************************)
(* Runtime events on their way to a client: EventBus.publish               *)
(* (event_bus.py), the trace mirror (store/event_store.py), the bounded    *)
(* queue and the writer thread of rpc/server.py, and the recovery of       *)
(* missed events with events.after.                                        *)
(*                                                                         *)
(* Every event has a publisher of its own.  Those of the bus share one     *)
(* trace connection and its lock; the events in Direct are appended by     *)
(* other stores (approvals, patches, command output), each through its own *)
(* connection, with a lock that protects it from nobody else.              *)
(***************************************************************************)
EXTENDS Naturals, Sequences, FiniteSets

CONSTANTS Events,    \* events that may be published
          Home,      \* those of the session the client follows
          Direct,    \* those appended by append_trace_event, without the bus
          Mirrored,  \* those of the bus that append_runtime_event records
          QueueMax,  \* maxsize of _event_write_queue
          PageMax    \* limit of events.after

ASSUME EventLogAssumption ==
  /\ Home \subseteq Events
  /\ Direct \subseteq Events
  /\ Mirrored \subseteq Events \ Direct
  /\ QueueMax \in Nat /\ PageMax \in Nat \ {0}

VARIABLES
  counter,  \* EventBus._seq_counter
  pc,       \* where each publisher is
  seq,      \* event.seq
  num,      \* the number an append has read, MAX(sequence) + 1
  trace,    \* rows of trace_events
  queue,    \* _event_write_queue
  live,     \* payloads written to the client
  cursor,   \* the client's afterSeq
  got,      \* rows it has received from events.after
  again     \* history: rows it has received more than once

bus    == <<counter, seq>>
wire   == <<queue, live>>
client == <<cursor, got, again>>
vars   == <<bus, pc, num, trace, wire, client>>

Row == [ev : Events, seq : Nat]
Pcs == {"new", "append", "insert", "emit", "done"}

TypeOK ==
  /\ counter \in Nat
  /\ pc \in [Events -> Pcs]
  /\ seq \in [Events -> Nat]
  /\ num \in [Events -> Nat]
  /\ trace \subseteq Row
  /\ queue \in Seq(Row)
  /\ live \in Seq(Row)
  /\ cursor \in Nat
  /\ got \subseteq Row
  /\ again \subseteq Row

Init ==
  /\ counter = 0
  /\ pc = [e \in Events |-> "new"]
  /\ seq = [e \in Events |-> 0]
  /\ num = [e \in Events |-> 0]
  /\ trace = {}
  /\ queue = <<>>
  /\ live = <<>>
  /\ cursor = 0
  /\ got = {}
  /\ again = {}

Goto(e, p) == pc' = [pc EXCEPT ![e] = p]

-----------------------------------------------------------------------------
(* Publishing.                                                              *)

\* publish(): the number is taken under the bus lock, and the subscribers are
\* called outside it.
Publish(e) ==
  /\ pc[e] = "new" /\ e \notin Direct
  /\ counter' = counter + 1
  /\ seq' = [seq EXCEPT ![e] = counter + 1]
  /\ Goto(e, "append")
  /\ UNCHANGED <<num, trace, wire, client>>

\* append_trace_event() by a store of its own.
PublishDirect(e) ==
  /\ pc[e] = "new" /\ e \in Direct
  /\ Goto(e, "append")
  /\ UNCHANGED <<bus, num, trace, wire, client>>

\* append_runtime_event() returns None for what others record or nobody does.
Skip(e) ==
  /\ pc[e] = "append" /\ e \notin Direct \cup Mirrored
  /\ Goto(e, "emit")
  /\ UNCHANGED <<bus, num, trace, wire, client>>

\* Variant: the trace store appends without its lock.
LockFreeAlways(e) == TRUE

\* The events of the bus share the trace store, whose lock is held from the
\* SELECT to the commit.
LockFree(e) == e \in Direct \/ \A f \in Events \ Direct : pc[f] # "insert"

\* SELECT COALESCE(MAX(sequence), 0) + 1, over the rows of every session.
NextSequence(n) ==
  /\ n \in {1} \cup {r.seq + 1 : r \in trace}
  /\ \A r \in trace : r.seq < n

AppendRead(e) ==
  /\ pc[e] = "append" /\ e \in Direct \cup Mirrored
  /\ LockFree(e)
  /\ \E n \in {1} \cup {r.seq + 1 : r \in trace} :
       NextSequence(n) /\ num' = [num EXCEPT ![e] = n]
  /\ Goto(e, "insert")
  /\ UNCHANGED <<bus, trace, wire, client>>

\* INSERT and commit; publish() takes over the number of the row.
AppendInsert(e) ==
  /\ pc[e] = "insert"
  /\ trace' = trace \cup {[ev |-> e, seq |-> num[e]]}
  /\ IF e \in Direct
       THEN Goto(e, "done") /\ UNCHANGED seq
       ELSE Goto(e, "emit") /\ seq' = [seq EXCEPT ![e] = num[e]]
  /\ UNCHANGED <<counter, num, wire, client>>

\* The append raises (the database is locked, the task is gone): publish()
\* swallows it and the event keeps the number of the bus.
AppendFails(e) ==
  /\ \/ pc[e] = "append" /\ e \in Direct \cup Mirrored
     \/ pc[e] = "insert"
  /\ Goto(e, IF e \in Direct THEN "done" ELSE "emit")
  /\ UNCHANGED <<bus, num, trace, wire, client>>

\* _emit_event: put_nowait, and an event that finds the queue full is dropped.
Emit(e) ==
  /\ pc[e] = "emit"
  /\ queue' = IF Len(queue) < QueueMax
              THEN Append(queue, [ev |-> e, seq |-> seq[e]]) ELSE queue
  /\ Goto(e, "done")
  /\ UNCHANGED <<bus, num, trace, live, client>>

\* The event writer thread.
WriteEventPayload ==
  /\ queue # <<>>
  /\ live' = Append(live, Head(queue))
  /\ queue' = Tail(queue)
  /\ UNCHANGED <<bus, pc, num, trace, client>>

-----------------------------------------------------------------------------
\* session.delete of another session: its rows go, and with them perhaps the
\* highest numbers.
DeleteSession ==
  /\ \E r \in trace : r.ev \notin Home
  /\ trace' = {r \in trace : r.ev \in Home}
  /\ UNCHANGED <<bus, pc, num, wire, client>>

\* Variant: the row at the cursor is read again.
AfterInclusive == {r \in trace : r.ev \in Home /\ r.seq >= cursor}

\* WHERE session_id = ? AND sequence > ?
After == {r \in trace : r.ev \in Home /\ r.seq > cursor}

\* ORDER BY sequence ASC LIMIT PageMax.
IsPage(P) ==
  /\ \A r \in P : \A q \in After \ P : r.seq <= q.seq
  /\ Cardinality(P) = (IF Cardinality(After) < PageMax THEN Cardinality(After) ELSE PageMax)

\* events.after from the client's cursor, which moves to the highest number of
\* the page.
EventsAfter ==
  /\ After # {}
  /\ \E P \in SUBSET After :
       /\ IsPage(P)
       /\ got' = got \cup P
       /\ again' = again \cup (got \cap P)
       /\ \E last \in P : (\A r \in P : r.seq <= last.seq) /\ cursor' = last.seq
  /\ UNCHANGED <<bus, pc, num, trace, wire>>

-----------------------------------------------------------------------------
Next ==
  \/ \E e \in Events : \/ Publish(e) \/ PublishDirect(e) \/ Skip(e) \/ AppendRead(e)
                       \/ AppendInsert(e) \/ AppendFails(e) \/ Emit(e)
  \/ WriteEventPayload
  \/ DeleteSession
  \/ EventsAfter

Spec == Init /\ [][Next]_vars

-----------------------------------------------------------------------------
(* Properties.                                                              *)

\* A client that pages through events.after receives no row twice, although
\* numbers are given again after a session was deleted and, between two
\* connections, even without that.
ReplayOnce == again = {}

\* Only the bus has appended so far.
BusOnly == \A e \in Direct : pc[e] = "new"

\* What the client has paged past it has received: every row of its session at
\* or below its cursor, until another connection begins to append.  It rests on
\* numbers being unique and committed in order, which the lock of one connection
\* ensures and two connections do not.
NoneSkipped ==
  BusOnly => \A r \in trace : r.ev \in Home /\ r.seq <= cursor => r \in got

=============================================================================
