--------------------------- MODULE ChatProjection ---------------------------
(***************************************************************************)
(* What a runtime event becomes in the chat: the visibility of each kind   *)
(* of event and the parts of its payload that may be shown                 *)
(* (orchestrator/publishing.py), whether the trace keeps it                *)
(* (store/event_store.py), and whether it is projected to a flat chat      *)
(* message when it is sent and when it is replayed                         *)
(* (yuanbao_event_adapter.py).  Events of a root task; names of fields and *)
(* texts are reduced to the classes the rules tell apart.                  *)
(***************************************************************************)
EXTENDS Naturals, Sequences

(* Events. *)
ChatFrames == {"content_start", "content_delta", "thinking", "status", "tool_use_complete",
               "tool_result", "permission_request", "message_complete"}
ToolEvents == {"tool.started", "tool.progress", "tool.output", "tool.completed",
               "tool.failed", "tool.blocked", "command.output"}
TaskEnds == {"task.completed", "task.failed", "task.cancelled"}
PanelMirrored == TaskEnds \cup {"approval.requested", "approval.resolved", "task.orphaned"}

Visibility(type) ==
  CASE type \in ChatFrames \cup {"assistant.token", "message.delta", "message.failed",
                                 "approval.requested", "approval.resolved"} -> "chat"
    [] type \in TaskEnds \cup {"task.orphaned", "goal_event"} -> "panel"
    [] OTHER -> "trace"

\* The visibility under which an event is turned into chat frames.
ChatVisibility(type, visibility) ==
  IF type \in ToolEvents \cup {"message.completed"} THEN "chat" ELSE visibility

\* The visibility of the event itself, when its publisher named none.
RawVisibility(type) ==
  CASE type \in ToolEvents \cup {"message.completed", "assistant.token"} -> "trace"
    [] type \in PanelMirrored -> "panel"
    [] OTHER -> Visibility(type)

----------------------------------------------------------------------------
(* An ended task publishes a few kinds of events only. *)
Ended == {"completed", "failed", "cancelled"}
AllowedAfter(status) ==
  CASE status = "completed" -> {"message.completed", "approval.requested", "task.completed"}
    [] status = "failed"    -> {"message.failed", "task.failed"}
    [] OTHER                -> {"task.cancelled"}

\* Variant: the gate does not know the cancelled status.
DroppedUnlessCancelled(status, type, note, visibility) ==
  /\ status \in {"completed", "failed"}
  /\ IF type = "approval.resolved" THEN note # "ignored"
     ELSE type \notin AllowedAfter(status) /\ visibility # "trace"

\* `note` is "ignored" for a decision that came after the task's end.
Dropped(status, type, note, visibility) ==
  /\ status \in Ended
  /\ IF type = "approval.resolved" THEN note # "ignored"
     ELSE type \notin AllowedAfter(status) /\ (status = "cancelled" \/ visibility # "trace")

----------------------------------------------------------------------------
(* Payloads are sets of classes of fields: "plain" a short public value,   *)
(* "extra" one no allow-list names, "body" the content of a file or a long *)
(* text, "diff" the diff of an approval, "internal" an identifier, a path  *)
(* or a secret of the runtime.  "chars" is a body replaced by its length.  *)
Fields == {"plain", "extra", "body", "diff", "internal"}

Compacted(fields) == {IF f = "body" THEN "chars" ELSE f : f \in fields \ {"internal"}}

\* Tools whose arguments are shown through an allow-list of their own.
Listed == {"exit_plan_mode", "task", "write_file", "apply_patch", "run_command"}

PublicInput(kind, fields) ==
  Compacted(IF kind \in Listed THEN fields \ {"extra", "internal"} ELSE fields)

PublicRequest(kind, fields) ==
  PublicInput(kind, fields \ {"diff"}) \cup (fields \cap {"diff"})

PublicResult(fields) == Compacted(fields)

\* A text is public or internal as a whole; an internal one is not shown.
PublicText(text) == IF text = "internal" THEN {} ELSE {text}

----------------------------------------------------------------------------
(* Frames and the trace. *)

\* Variant: the results of tools are not mirrored to the trace.
RecoverableButResults(frame) ==
  frame.type # "tool_result" /\ (frame.type # "content_delta" \/ frame.note # "text")

\* The frames a reload needs: all but the text deltas.
Recoverable(frame) == frame.type # "content_delta" \/ frame.note # "text"

\* The event of a frame: its bridge flags say whether the trace keeps it.
Compat(frame) ==
  [type |-> frame.type, visibility |-> "chat", compat |-> TRUE,
   bridge |-> IF Recoverable(frame) THEN {"persist"} ELSE {"skip"}]

TextDelta ==
  [type |-> "message.delta", visibility |-> "chat", compat |-> TRUE,
   bridge |-> {"persist", "quietLive", "quietReplay"}]

Raw(type) ==
  [type |-> type, visibility |-> RawVisibility(type), compat |-> FALSE,
   bridge |-> IF type \in {"message.completed", "assistant.token"} THEN {"quietLive", "quietReplay"} ELSE {}]

Kept(event) ==
  /\ event.type \notin {"approval.requested", "approval.resolved"}
  /\ "skip" \in event.bridge => "persist" \in event.bridge

\* An event that is not to be shown live is not to be replayed either.
AsKept(event) ==
  IF "quietLive" \in event.bridge /\ "persist" \notin event.bridge /\ event.type # "message.delta"
  THEN [event EXCEPT !.bridge = @ \cup {"quietReplay"}] ELSE event

----------------------------------------------------------------------------
(* Projection to a flat message. *)
ToServerMessage(event) ==
  CASE event.visibility \in {"panel", "trace"} -> "none"
    [] event.type \in ChatFrames               -> event.type
    [] event.type = "message.delta"            -> IF event.compat THEN "content_delta" ELSE "none"
    [] event.type = "message.failed"           -> "error"
    [] OTHER                                   -> "none"

ShouldEmit(event, mode) ==
  /\ event.visibility \notin {"panel", "trace"}
  /\ IF mode = "live"
     THEN (event.type = "message.delta" /\ event.compat) \/ "quietLive" \notin event.bridge
     ELSE "quietReplay" \notin event.bridge

Live(event) == ShouldEmit(event, "live") /\ ToServerMessage(event) # "none"
Replayed(event) ==
  /\ Kept(event)
  /\ ShouldEmit(AsKept(event), "replay") /\ ToServerMessage(event) # "none"

=============================================================================
