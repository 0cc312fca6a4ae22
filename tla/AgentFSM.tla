------------------------------ MODULE AgentFSM ------------------------------
(***************************************************************************)
(* The agent state machine of state_machine.py: the transition table and   *)
(* what `handle` does with it.  The machine is driven by a worker (module  *)
(* Workflow), so this module declares no variable: it gives the table, the *)
(* legality of an event and the state an event leads to.                   *)
(***************************************************************************)

\* AgentState: the states of one logical agent.
AgentState == {"IDLE", "CLAIM_TASK", "PLANNING", "EXECUTING", "WAITING_DEP",
               "REVIEWING", "RETRYING", "COMPLETED", "FAILED", "COOLDOWN"}

\* TRANSITIONS: <<state, event, next state>>.
Transitions ==
    { <<"IDLE",        "task_available",        "CLAIM_TASK">>,
      <<"CLAIM_TASK",  "task_claimed",          "PLANNING">>,
      <<"CLAIM_TASK",  "claim_lost",            "IDLE">>,
      <<"PLANNING",    "plan_ok",               "EXECUTING">>,
      <<"PLANNING",    "planning_error",        "FAILED">>,
      <<"EXECUTING",   "output_ready",          "REVIEWING">>,
      <<"EXECUTING",   "waiting_on_dependency", "WAITING_DEP">>,
      <<"EXECUTING",   "tool_error",            "FAILED">>,
      <<"EXECUTING",   "no_progress",           "FAILED">>,
      <<"EXECUTING",   "budget_exhausted",      "FAILED">>,
      <<"WAITING_DEP", "deps_resolved",         "EXECUTING">>,
      <<"WAITING_DEP", "dependency_failed",     "FAILED">>,
      <<"REVIEWING",   "approved",              "COMPLETED">>,
      <<"REVIEWING",   "needs_changes",         "RETRYING">>,
      <<"RETRYING",    "retry_allowed",         "EXECUTING">>,
      <<"RETRYING",    "retries_exhausted",     "FAILED">>,
      <<"FAILED",      "soft_fail",             "COOLDOWN">>,
      <<"COOLDOWN",    "cooldown_elapsed",      "IDLE">>,
      <<"COMPLETED",   "reset",                 "IDLE">> }

\* `handle` raises InvalidTransition unless the pair is in the table.
Legal(s, e) == \E t \in Transitions : t[1] = s /\ t[2] = e

\* The state `handle(e)` moves to.  An illegal event raises and moves nothing.
After(s, e) == IF Legal(s, e)
               THEN CHOOSE x \in AgentState : <<s, e, x>> \in Transitions
               ELSE s

\* Several `handle` calls in a row; the first illegal one stops the sequence.
AfterTwo(s, e, f) == IF Legal(s, e) THEN After(After(s, e), f) ELSE s

=============================================================================
