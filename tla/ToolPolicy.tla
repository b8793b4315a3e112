----------------------------- MODULE ToolPolicy -----------------------------
(***************************************************************************)
(* The permission-mode tier of Process.handleToolApproval: which tool      *)
(* calls of an agent are allowed without asking the user.  A tool call is  *)
(* a record: the tool's name, and whether it writes below .claude/plans/.  *)
(***************************************************************************)

Modes == {"default", "acceptEdits", "plan", "bypassPermissions"}

\* The list readOnlyTools, repeated in three branches of the code's switch.
ReadOnlyTools ==
    {"Read", "Glob", "Grep", "LSP", "WebFetch", "WebSearch",
     "Task", "Agent", "TaskOutput"}

\* The list editTools of the acceptEdits branch.
EditTools == {"Edit", "Write", "NotebookEdit"}

\* The tools that every mode puts before the user.
InteractiveTools == {"ExitPlanMode", "AskUserQuestion"}

\* The switch over the permission mode: TRUE where the branch returns
\* { behavior: "allow" }, FALSE where it falls through to ask the user.
AutoAllowed(mode, tool) ==
    \/ /\ mode = "bypassPermissions"
       /\ tool.name \notin InteractiveTools
    \/ /\ mode = "plan"
       /\ \/ tool.name \in ReadOnlyTools
          \/ tool.name = "Write" /\ tool.planFile
    \/ /\ mode = "acceptEdits"
       /\ tool.name \in EditTools \cup ReadOnlyTools
    \/ /\ mode = "default"
       /\ tool.name \in ReadOnlyTools

\* The mode that the approval of a tool call switches to: EnterPlanMode and
\* ExitPlanMode change it, every other approval leaves it alone.
ModeAfterApproval(mode, tool) ==
    CASE tool.name = "EnterPlanMode" -> "plan"
      [] tool.name = "ExitPlanMode"  -> "default"
      [] OTHER                       -> mode
=============================================================================
