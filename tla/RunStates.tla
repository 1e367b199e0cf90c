------------------------------ MODULE RunStates ------------------------------
(***************************************************************************)
(* The canonical run state machine: the states a run can be in, the table  *)
(* of legal transitions and the sets of states derived from it             *)
(* (apps/api/app/models/runs.py), and the approval gates of the run routes *)
(* (apps/api/app/routers/runs.py).  Pure definitions, shared by every      *)
(* module about runs.                                                      *)
(***************************************************************************)

RunState == {"DRAFT", "PLANNING", "AWAITING_PLAN_APPROVAL", "QUEUED", "RUNNING",
             "AWAITING_ACTION_APPROVAL", "PAUSED", "COMPLETED", "FAILED", "CANCELLED"}

(* The table as a relation: <<current, target>> for every legal transition. *)
LEGAL_TRANSITIONS ==
     {"DRAFT"} \X {"PLANNING", "CANCELLED"}
  \union {"PLANNING"} \X {"AWAITING_PLAN_APPROVAL", "FAILED", "CANCELLED"}
  \union {"AWAITING_PLAN_APPROVAL"} \X {"QUEUED", "CANCELLED"}
  \union {"QUEUED"} \X {"RUNNING", "FAILED", "CANCELLED"}
  \union {"RUNNING"} \X {"AWAITING_ACTION_APPROVAL", "PAUSED", "COMPLETED", "FAILED", "CANCELLED"}
  \union {"AWAITING_ACTION_APPROVAL"} \X {"RUNNING", "CANCELLED"}
  \union {"PAUSED"} \X {"QUEUED", "CANCELLED"}
  \union {"FAILED"} \X {"DRAFT"}

TERMINAL_STATES == {"COMPLETED", "FAILED", "CANCELLED"}

(* States that occupy one of a project's concurrency slots. *)
ActiveStates == {"QUEUED", "RUNNING", "AWAITING_ACTION_APPROVAL"}

validate_transition(current, target) == <<current, target>> \in LEGAL_TRANSITIONS

(* The approval gates: the state a gate waits in, what an approval of it is *)
(* recorded as, and the state an approval moves the run to.                 *)
ApprovalGates ==
  { [at |-> "AWAITING_PLAN_APPROVAL",   type |-> "plan",   next |-> "QUEUED"],
    [at |-> "AWAITING_ACTION_APPROVAL", type |-> "action", next |-> "RUNNING"] }

==============================================================================
