---------------------------- MODULE MCAgentLoop ----------------------------
(* TLC instances of AgentLoop: the tool sets of the runs. *)
EXTENDS AgentLoop

PlanTools    == {"edit_file", "enter_plan_mode", "exit_plan_mode", "unregistered"}
SessionTools == {"write_memory_entry", "todo_write", "read_file"}
=============================================================================
