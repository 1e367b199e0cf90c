---------------------------- MODULE ConsoleViews ------------------------------
(***************************************************************************)
(* What the pages about runs show and offer, as functions of the run they   *)
(* have at hand (apps/web/src/pages/RunDetail.tsx, Operations.tsx, Runs.tsx,*)
(* Approvals.tsx, ProjectDetail.tsx, components/ApprovalGate.tsx and        *)
(* ExecutionGraph.tsx), with the contract's sets of states that they are    *)
(* written in (packages/contracts/src/run_states.ts, lib/types.ts).  Pure   *)
(* definitions: RunConsole says when a page has which run at hand.          *)
(***************************************************************************)
EXTENDS RunStates, Naturals, SequencesExt

-----------------------------------------------------------------------------
(* The contract as the web application has it *)

CANCELLABLE_STATES == {"DRAFT", "PLANNING", "AWAITING_PLAN_APPROVAL", "QUEUED", "RUNNING",
                       "AWAITING_ACTION_APPROVAL", "PAUSED"}

APPROVAL_STATES == {"AWAITING_PLAN_APPROVAL", "AWAITING_ACTION_APPROVAL"}

FinalStates == {"COMPLETED", "FAILED", "CANCELLED"}

isLiveState(state) == state \in {"QUEUED", "RUNNING"}

-----------------------------------------------------------------------------
(* Controls *)

Pages == {"detail", "operations", "runs", "approvals", "project", "elsewhere"}

(* The cached queries a page is drawn from, and the one it takes the run of. *)
Keys == {"run", "runs", "run-events", "run-steps"}

Main(page) == IF page = "detail" THEN "run" ELSE "runs"

(* What the owner can ask for: a decision at a gate, a cancellation, or the *)
(* next step of RunDetail, named by the state it leads to.                  *)
Decisions == {"approve", "reject"}
Ops == Decisions \union {"cancel", "PLANNING", "AWAITING_PLAN_APPROVAL", "QUEUED", "DRAFT"}

(* Seeded bug: a run whose plan needs no change skips the planning. *)
NEXT_STEP_SkipsPlanning(state) ==
  CASE state = "DRAFT"    -> {"AWAITING_PLAN_APPROVAL"}
    [] state = "PLANNING" -> {"AWAITING_PLAN_APPROVAL"}
    [] state = "PAUSED"   -> {"QUEUED"}
    [] state = "FAILED"   -> {"DRAFT"}
    [] OTHER -> {}

NEXT_STEP(state) ==
  CASE state = "DRAFT"    -> {"PLANNING"}
    [] state = "PLANNING" -> {"AWAITING_PLAN_APPROVAL"}
    [] state = "PAUSED"   -> {"QUEUED"}
    [] state = "FAILED"   -> {"DRAFT"}
    [] OTHER -> {}

(* RunDetail's CONTROLS panel. *)
Controls(state) ==
  IF state \in APPROVAL_STATES THEN {}
  ELSE NEXT_STEP(state) \union IF state \in FinalStates THEN {} ELSE {"cancel"}

(* ApprovalGate, which RunDetail and Operations embed. *)
GateOffers(state) == IF state \in APPROVAL_STATES THEN Decisions \union {"cancel"} ELSE {}

(* An expanded row of the Runs page. *)
RowOffers(state) ==
  IF state \in APPROVAL_STATES THEN Decisions
  ELSE IF state \in CANCELLABLE_STATES THEN {"cancel"} ELSE {}

(* A row of ProjectDetail's Runs tab. *)
ProjectRowOffers(state) ==
  (IF state \in APPROVAL_STATES THEN Decisions ELSE {})
    \union (IF state \in CANCELLABLE_STATES \ APPROVAL_STATES THEN {"cancel"} ELSE {})

(* A card of the Approvals page, which lists the waiting runs only. *)
CardOffers(state) == IF state \in APPROVAL_STATES THEN Decisions ELSE {}

(* The controls of a page, with the component they are part of. *)
Offers(page, state) ==
  CASE page = "detail"     -> {"controls"} \X Controls(state) \union {"gate"} \X GateOffers(state)
    [] page = "operations" -> {"gate"} \X GateOffers(state)
    [] page = "runs"       -> {"row"} \X RowOffers(state)
    [] page = "project"    -> {"row"} \X ProjectRowOffers(state)
    [] page = "approvals"  -> {"card"} \X CardOffers(state)
    [] OTHER -> {}

(* Seeded bug: the gate invalidates the run's own page only. *)
Invalidates_Detail(by, op) ==
  CASE by = "controls" -> Keys
    [] by = "gate"     -> {"run"} \union IF op = "approve" THEN {"run-events"} ELSE {}
    [] OTHER           -> {"runs"}

(* The queries that the success of an action invalidates. *)
Invalidates(by, op) ==
  CASE by = "controls" -> Keys
    [] by = "gate"     -> {"run", "runs"} \union IF op = "approve" THEN {"run-events"} ELSE {}
    [] OTHER           -> {"runs"}

(* Seeded bug: the evidence only. *)
InvalidatedWhenFinal_Evidence == {}

(* The queries RunDetail invalidates when it sees the run become final. *)
InvalidatedWhenFinal == {"run-steps", "run-events"}

-----------------------------------------------------------------------------
(* Lists of runs, newest first *)

FirstIn(runs, states) == SelectInSeq(runs, LAMBDA state : state \in states)

(* The place of the run Operations shows while the user has chosen none: a  *)
(* waiting one, else a live one, else the newest.                           *)
activeRun(runs) ==
  LET waiting == FirstIn(runs, APPROVAL_STATES)
      live    == FirstIn(runs, {"QUEUED", "RUNNING"})
  IN IF waiting # 0 THEN waiting ELSE IF live # 0 THEN live ELSE 1

-----------------------------------------------------------------------------
(* The execution graph *)

(* Seeded bug: the two gates stand at the same place. *)
order_Gates(state) ==
  CASE state = "DRAFT" -> 0
    [] state = "PLANNING" -> 1
    [] state = "QUEUED" -> 3
    [] state \in {"RUNNING", "PAUSED"} \union APPROVAL_STATES -> 4
    [] state \in FinalStates -> 7

order(state) ==
  CASE state = "DRAFT" -> 0
    [] state = "PLANNING" -> 1
    [] state = "AWAITING_PLAN_APPROVAL" -> 2
    [] state = "QUEUED" -> 3
    [] state \in {"RUNNING", "AWAITING_ACTION_APPROVAL", "PAUSED"} -> 4
    [] state \in FinalStates -> 7

(* The states a run has been in, since it was last a draft, when it is      *)
(* through what a node stands for.  Only the nodes whose claim is about the *)
(* run's own way are here: the scope checks, the approval, the evidence and *)
(* the finding are drawn from the same position, but claim what other       *)
(* records would have to show.                                              *)
Through == [planning  |-> {"PLANNING", "AWAITING_PLAN_APPROVAL"},
            queue     |-> {"QUEUED", "RUNNING"},
            execution |-> {"RUNNING", "COMPLETED"}]

(* Those that deriveGraph draws as passed for a run in this state.          *)
PassedNodes(state) ==
  LET pos == order(state)
  IN {node \in DOMAIN Through :
        CASE node = "planning"  -> pos > 1
          [] node = "queue"     -> state # "QUEUED" /\ pos > 3
          [] node = "execution" -> state \notin {"RUNNING", "FAILED"} /\ pos > 4}

===============================================================================
