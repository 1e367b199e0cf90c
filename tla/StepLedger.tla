----------------------------- MODULE StepLedger -----------------------------
(***************************************************************************)
(* What the run-step table promises, whoever writes it and whatever        *)
(* crashes: for every run an append-only ledger, written strictly in plan  *)
(* order, one row for each step number, never past the end of the plan.    *)
(* RunSystem implements this specification with its RunStep rows           *)
(* (apps/api/app/models/runs.py, RunStep; apps/api/app/routers/worker.py,  *)
(* claim_run and submit_step).                                             *)
(***************************************************************************)
EXTENDS Naturals, Sequences

CONSTANTS
  Runs,     \* the runs
  PlanLen   \* the number of steps of every run's plan

VARIABLE ledger   \* for every run, its recorded steps in the order recorded

StepStatus == {"completed", "failed"}

Row == [number : Nat \ {0}, status : StepStatus]

Init == ledger = [r \in Runs |-> <<>>]

(* The next step of run r is recorded, once, with the outcome it had. *)
Record(r, status) ==
  /\ Len(ledger[r]) < PlanLen[r]
  /\ ledger' = [ledger EXCEPT ![r] = Append(@, [number |-> Len(@) + 1, status |-> status])]

Next == \E r \in Runs, status \in StepStatus : Record(r, status)

Spec == Init /\ [][Next]_ledger

=============================================================================
