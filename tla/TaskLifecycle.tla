---------------------------- MODULE TaskLifecycle ----------------------------
(***************************************************************************)
(* The status rules of the tasks module that every other part reads: which *)
(* statuses an agent may claim a task from, which are terminal, and when a *)
(* task may be put on the dispatch queue.                                  *)
(***************************************************************************)

TaskStatuses ==
  {"backlog", "todo", "in_progress", "in_review", "request", "blocked", "done",
   "cancelled"}

\* TASK_TERMINAL_STATUSES
TerminalStatuses == {"done", "cancelled"}

\* TASK_AGENT_CHECKOUT_ENTRY_STATUSES: read by the dispatch gate and by checkout.
EntryStatuses == {"todo", "backlog"}

\* TASK_CREATE_AUTOSTART_STATUSES / startsOnCreate
StartsOnCreate(status) == status \in {"todo"}

\* isDispatchableTask: assigned to an agent, unclaimed, in an entry status.
Dispatchable(isAgents, claimed, status) ==
  /\ isAgents
  /\ ~claimed
  /\ status \in EntryStatuses

=============================================================================
