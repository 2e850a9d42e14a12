-------------------------- MODULE ContextSections --------------------------
(***************************************************************************)
(* The sections a context is built of and the token budget they are fitted *)
(* to (context/builder.py, context/_history_mixin.py and                   *)
(* context/token_budget.py). A section is its name, the tokens it keeps at *)
(* least, whether it may be trimmed, and the layer of the prompt it goes   *)
(* to; its text is represented by its size alone.                          *)
(***************************************************************************)
EXTENDS Integers, Sequences, SequencesExt, FiniteSetsExt

Trimmable(name, minimum, layer) ==
  [name |-> name, min |-> minimum, fixed |-> FALSE, layer |-> layer]

Fixed(name, layer) == [name |-> name, min |-> 0, fixed |-> TRUE, layer |-> layer]

PatchDiff           == Trimmable("patch_diff", 1, "dynamic")
CommandHistory      == Trimmable("command_history", 1, "dynamic")
GitStatus           == Trimmable("git_status", 1, "dynamic")
StableWorkspace     == Trimmable("stable_workspace_context", 4, "stable")
SessionSummary      == Trimmable("session_summary", 2, "dynamic")
Scratchpad          == Trimmable("scratchpad", 1, "dynamic")
TaskHistory         == Trimmable("task_history", 0, "dynamic")
ProjectMemory       == Trimmable("project_memory", 1, "stable")
WorkspaceSummary    == Trimmable("workspace_summary", 1, "stable")
KeyFile             == Trimmable("key_file", 1, "stable")
ReferencedFile      == Trimmable("referenced_file", 2, "dynamic")
ExternalAttachment  == Trimmable("external_attachment", 2, "dynamic")
UserMessage         == Fixed("user_message", "request")
RuntimeRole         == Fixed("runtime_role", "stable")
RecentConversation  == Fixed("recent_conversation", "dynamic")
ProjectFocus        == Fixed("project_focus", "stable")
CanonicalMemory     == Fixed("canonical_memory", "stable")
SystemPrompt        == Fixed("system_prompt", "system")

\* The sections in the order of their priorities, the lowest first.
Sections ==
  << PatchDiff, CommandHistory, GitStatus, StableWorkspace, SessionSummary, Scratchpad,
     TaskHistory, ProjectMemory, WorkspaceSummary, KeyFile, UserMessage, RuntimeRole,
     RecentConversation, ExternalAttachment, ReferencedFile, ProjectFocus,
     CanonicalMemory, SystemPrompt >>

Names == {Sections[i].name : i \in DOMAIN Sections}

\* What _build_messages leaves out of a lightweight and of a minimal context.
HistoryNames == {"patch_diff", "command_history", "task_history"}

MinimalNames == {"system_prompt", "workspace_summary", "runtime_role", "external_attachment",
                 "user_message"}

Included(mode) ==
  CASE mode = "full"        -> Names
    [] mode = "lightweight" -> Names \ (HistoryNames \cup {"git_status"})
    [] mode = "minimal"     -> MinimalNames

Total(sizes) ==
  LET sum[i \in 0 .. Len(Sections)] == IF i = 0 THEN 0 ELSE sizes[Sections[i].name] + sum[i - 1]
  IN sum[Len(Sections)]

Layer(sizes, layer) ==
  MapThenSumSet(LAMBDA i : sizes[Sections[i].name],
                {i \in DOMAIN Sections : Sections[i].layer = layer})

\* trim_text_to_tokens: the text is cut to the target; the estimate of the cut text
\* may lie above it where the text mixes scripts (wide).
TrimTo(size, target, wide) ==
  IF target >= size THEN size
  ELSE IF target + 1 < size /\ wide THEN target + 1 ELSE target

\* The first loop of TokenBudget.fit, for one section. A section without a text stays
\* without one.
TrimSection(sizes, section, max, wide) ==
  LET over   == Total(sizes) - max
      size   == sizes[section.name]
      target == Max({section.min, size - over})
  IN IF section.fixed \/ size = 0 \/ over <= 0 THEN sizes
     ELSE [sizes EXCEPT ![section.name] = IF target <= 0 THEN 0 ELSE TrimTo(size, target, wide)]

TrimAll(sizes, max, wide) ==
  LET after[i \in 0 .. Len(Sections)] ==
        IF i = 0 THEN sizes ELSE TrimSection(after[i - 1], Sections[i], max, wide)
  IN after[Len(Sections)]

\* The second loop: the lowest section that may go, goes.
DropSection(sizes, section, max) ==
  IF section.fixed \/ sizes[section.name] = 0 \/ Total(sizes) <= max THEN sizes
  ELSE [sizes EXCEPT ![section.name] = 0]

DropAll(sizes, max) ==
  LET after[i \in 0 .. Len(Sections)] ==
        IF i = 0 THEN sizes ELSE DropSection(after[i - 1], Sections[i], max)
  IN after[Len(Sections)]

\* Variant: the sections are trimmed from the highest priority down.
FitFromTheTop(sizes, max, wide) ==
  LET after[i \in 0 .. Len(Sections)] ==
        IF i = 0 THEN sizes ELSE TrimSection(after[i - 1], Reverse(Sections)[i], max, wide)
  IN DropAll(after[Len(Sections)], max)

\* TokenBudget.fit; max is what the tool schemas leave of the budget.
Fit(sizes, max, wide) == DropAll(TrimAll(sizes, max, wide), max)
=============================================================================
