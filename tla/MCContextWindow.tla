-------------------------- MODULE MCContextWindow --------------------------
(* The code's tails 6, 8 and 6 are scaled to 2, 4 and 3, so that a batch of   *)
(* three calls reaches past the shorter two and fits the longest.             *)
EXTENDS ContextWindow

\* Three sections that may be trimmed beside three that may not.
MCTexts ==
  { [n \in Names |->
       CASE n \in {"system_prompt", "user_message"} -> 1
         [] n = "workspace_summary"                 -> a
         [] n = "task_history"                      -> b
         [] n = "session_summary"                   -> c
         [] n = "recent_conversation"               -> d
         [] OTHER                                   -> 0] :
    a \in {1, 2}, b \in {0, 3}, c \in {0, 3}, d \in {0, 4} }
=============================================================================
