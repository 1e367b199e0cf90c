------------------------------ MODULE RunSystem ------------------------------
(***************************************************************************)
(* The run orchestration core: the owner's run requests served by the API  *)
(* (apps/api/app/routers/runs.py), the Redis job list                      *)
(* (apps/api/app/services/queue.py), the worker processes                  *)
(* (apps/worker/app/main.py) and the worker callbacks of the API           *)
(* (apps/api/app/routers/worker.py), all over one PostgreSQL database.     *)
(*                                                                         *)
(* The database runs at READ COMMITTED, without SELECT ... FOR UPDATE and  *)
(* without a version column, so a handler's read of a run and its later    *)
(* write of it are two steps.  An owner request commits before it answers. *)
(* A worker callback commits in get_db's cleanup, which may run after the  *)
(* answer has been sent: its transaction stays open meanwhile, holding the *)
(* row lock of the run (stateTx) or the unique key of the step (stepTx).   *)
(*                                                                         *)
(* Left out: the run events without states (run.step_claimed and           *)
(* run.step_completed, which no code reads), failure reasons and payloads. *)
(***************************************************************************)
EXTENDS RunStates, Integers, Sequences, FiniteSets

CONSTANTS
  Runs,           \* the runs
  Workers,        \* the worker processes
  Reqs,           \* slots for owner requests in flight at once
  NoRun,          \* what an idle worker or request slot works on
  PlanLen,        \* the number of steps of every run's plan
  Projects,       \* the projects
  ProjectOf,      \* the project every run belongs to
  HasEngagement,  \* the runs whose engagement_id is set
  EngagedIn,      \* the project of that engagement: create_run does not compare the two
  Sensitive,      \* the <<run, step>> whose action needs an approved ApprovalRequest
  MaxConcurrent,  \* the concurrency limit of the scope check
  OwnerOps,       \* the operations the owner uses
  OwnerTargets,   \* the states the owner asks /transition for
  Prepared,       \* how far along PreparationPath every run starts
  FaultKinds,     \* the faults that may happen
  MaxRequests,    \* bound on the owner's requests
  MaxFaults,      \* bound on the number of faults
  MaxEdits        \* bound on the number of scope edits

(* The states a run walks through before its plan can be approved. *)
PreparationPath == <<"DRAFT", "PLANNING", "AWAITING_PLAN_APPROVAL">>

ASSUME ConstantsAssumption ==
  /\ NoRun \notin Runs
  /\ PlanLen \in [Runs -> Nat]
  /\ HasEngagement \subseteq Runs
  /\ ProjectOf \in [Runs -> Projects]
  /\ EngagedIn \in [Runs -> Projects]
  /\ Sensitive \subseteq Runs \X (Nat \ {0})
  /\ MaxConcurrent \in Nat
  /\ OwnerOps \subseteq {"create", "transition", "cancel", "approve", "reject"}
  /\ OwnerTargets \subseteq RunState
  /\ Prepared \in [Runs -> 0 .. Len(PreparationPath)]
  /\ FaultKinds \subseteq {"worker", "api", "redis"}
  /\ MaxRequests \in Nat /\ MaxFaults \in Nat /\ MaxEdits \in Nat

(* The pools are finite: what counts their members is a number. *)
ASSUME FinitenessAssumption == IsFiniteSet(Workers) /\ IsFiniteSet(Reqs)

VARIABLES
  runState,   \* Run.state as committed, "NONE" before the row exists
  steps,      \* the committed RunStep rows of every run, in commit order
  events,     \* the committed RunEvent rows that carry states, in commit order
  approvals,  \* the ApprovalRequest rows of every run, in commit order
  auditRows,  \* the number of approval AuditEvent rows of every run
  changes,    \* history: the transitions committed to every run
  queue,      \* the Redis list morphia:jobs, next job first
  req,        \* every owner request slot
  wk,         \* every worker process, with the callback it is inside of
  stateTx,    \* the open worker transaction that has written the run, if any
  stepTx,     \* the RunStep rows inserted by open worker transactions
  scopeOpen,  \* whether the run's engagement and rules let its steps pass
  used        \* how much of the bounds is used up; stops: the API's among the faults

rows == <<runState, steps, events, approvals, auditRows, changes>>
tx   == <<stateTx, stepTx>>
vars == <<rows, queue, req, wk, tx, scopeOpen, used>>

-----------------------------------------------------------------------------
(* Data *)

States     == RunState \union {"NONE"}
StepStatus == {"completed", "failed"}
StepRow    == [number : Nat \ {0}, status : StepStatus]
Event      == [from : States, to : RunState, by : {"owner", "worker"}]
Approval   == [type : {"plan", "action"}, status : {"approved", "rejected"}]
TxRecord   == [from : States, to : States, replied : BOOLEAN]

Request == [pc : {"idle", "write", "event", "audit", "enqueue"},
            op : {"none", "create", "transition", "cancel", "approve", "reject"},
            run : Runs \union {NoRun}, seen : States, to : States]

Worker == [pc : {"idle", "claim", "count", "scope", "invoke", "submit", "transition", "write"},
           run : Runs \union {NoRun}, step : Nat, seen : States, status : StepStatus]

Ev(from, to, by) == [from |-> from, to |-> to, by |-> by]

NoTx == [from |-> "NONE", to |-> "NONE", replied |-> FALSE]
Tx(from, to, replied) == [from |-> from, to |-> to, replied |-> replied]

(* The row lock of run r is held by an open worker transaction. *)
Locked(r) == stateTx[r] # NoTx

IdleReq    == [pc |-> "idle", op |-> "none", run |-> NoRun, seen |-> "NONE", to |-> "NONE"]
IdleWorker == [pc |-> "idle", run |-> NoRun, step |-> 0, seen |-> "NONE", status |-> "completed"]

(* What the owner's preparation of a run has left in the database. *)
PreparationEvents ==
  << Ev("NONE", "DRAFT", "owner"), Ev("DRAFT", "PLANNING", "owner"),
     Ev("PLANNING", "AWAITING_PLAN_APPROVAL", "owner") >>

Init ==
  /\ runState  = [r \in Runs |-> IF Prepared[r] = 0 THEN "NONE" ELSE PreparationPath[Prepared[r]]]
  /\ steps     = [r \in Runs |-> <<>>]
  /\ events    = [r \in Runs |-> SubSeq(PreparationEvents, 1, Prepared[r])]
  /\ approvals = [r \in Runs |-> <<>>]
  /\ auditRows = [r \in Runs |-> 0]
  /\ changes   = [r \in Runs |-> Prepared[r]]
  /\ queue     = <<>>
  /\ req       = [q \in Reqs |-> IdleReq]
  /\ wk        = [w \in Workers |-> IdleWorker]
  /\ stateTx   = [r \in Runs |-> NoTx]
  /\ stepTx    = {}
  /\ scopeOpen = [r \in Runs |-> TRUE]
  /\ used      = [requests |-> 0, faults |-> 0, stops |-> 0, edits |-> 0]

-----------------------------------------------------------------------------
(* Owner requests, routers/runs.py.  A request reads the run and decides   *)
(* (refusals change nothing and are left out), commits the new state, then *)
(* records its RunEvent, its AuditEvent and its job, each on its own.      *)

(* Request q has read run r, passed its guards and will move it to target. *)
Start(q, op, r, target) ==
  /\ op \in OwnerOps
  /\ req[q].pc = "idle"
  /\ used.requests < MaxRequests
  /\ used' = [used EXCEPT !.requests = @ + 1]
  /\ req'  = [req EXCEPT ![q] = [pc |-> "write", op |-> op, run |-> r,
                                 seen |-> runState[r], to |-> target]]
  /\ UNCHANGED <<rows, queue, wk, tx, scopeOpen>>

(* Seeded bug: the transition table is not consulted. *)
transition_run_Unchecked(q, r, target) ==
  /\ target \in OwnerTargets
  /\ Start(q, "transition", r, target)

transition_run(q, r, target) ==
  /\ target \in OwnerTargets
  /\ validate_transition(runState[r], target)
  /\ Start(q, "transition", r, target)

cancel_run(q, r) ==
  /\ runState[r] \notin TERMINAL_STATES
  /\ validate_transition(runState[r], "CANCELLED")
  /\ Start(q, "cancel", r, "CANCELLED")

approve_run(q, r) ==
  \E gate \in ApprovalGates :
    /\ runState[r] = gate.at
    /\ validate_transition(runState[r], gate.next)
    /\ Start(q, "approve", r, gate.next)

reject_run(q, r) ==
  \E gate \in ApprovalGates :
    /\ runState[r] = gate.at
    /\ validate_transition(runState[r], "CANCELLED")
    /\ Start(q, "reject", r, "CANCELLED")

(* The row is inserted and committed; its event follows on its own. *)
create_run(q, r) ==
  /\ "create" \in OwnerOps
  /\ req[q].pc = "idle"
  /\ used.requests < MaxRequests
  /\ runState[r] = "NONE"
  /\ used'     = [used EXCEPT !.requests = @ + 1]
  /\ runState' = [runState EXCEPT ![r] = "DRAFT"]
  /\ changes'  = [changes EXCEPT ![r] = @ + 1]
  /\ req'      = [req EXCEPT ![q] = [pc |-> "event", op |-> "create", run |-> r,
                                     seen |-> "NONE", to |-> "DRAFT"]]
  /\ UNCHANGED <<steps, events, approvals, auditRows, queue, wk, tx, scopeOpen>>

(* The ApprovalRequest rows the request writes together with the state. *)
DecisionRows(d) ==
  IF d.op \in {"approve", "reject"}
  THEN LET gate == CHOOSE g \in ApprovalGates : g.at = d.seen
       IN  << [type   |-> gate.type,
               status |-> IF d.op = "approve" THEN "approved" ELSE "rejected"] >>
  ELSE <<>>

(* The UPDATE waits for the row lock, but not for what it read to still hold. *)
CommitState(q) ==
  LET d == req[q] IN
  /\ d.pc = "write"
  /\ ~ Locked(d.run)
  /\ runState'  = [runState EXCEPT ![d.run] = d.to]
  /\ approvals' = [approvals EXCEPT ![d.run] = @ \o DecisionRows(d)]
  /\ changes'   = [changes EXCEPT ![d.run] = @ + 1]
  /\ req'       = [req EXCEPT ![q].pc = "event"]
  /\ UNCHANGED <<steps, events, auditRows, queue, wk, tx, scopeOpen, used>>

(* Seeded bug: /transition to QUEUED enqueues a job too. *)
_record_event_EnqueuesQueued(q) ==
  LET d == req[q] IN
  /\ d.pc = "event"
  /\ events' = [events EXCEPT ![d.run] = Append(@, Ev(d.seen, d.to, "owner"))]
  /\ req'    = [req EXCEPT ![q] = IF d.op \in {"approve", "reject"} THEN [d EXCEPT !.pc = "audit"]
                                  ELSE IF d.to = "QUEUED" THEN [d EXCEPT !.pc = "enqueue"]
                                  ELSE IdleReq]
  /\ UNCHANGED <<runState, steps, approvals, auditRows, changes, queue, wk, tx, scopeOpen, used>>

(* Seeded bug: a rejection leaves no AuditEvent. *)
_record_event_RejectUnaudited(q) ==
  LET d == req[q] IN
  /\ d.pc = "event"
  /\ events' = [events EXCEPT ![d.run] = Append(@, Ev(d.seen, d.to, "owner"))]
  /\ req'    = [req EXCEPT ![q] = IF d.op = "approve" THEN [d EXCEPT !.pc = "audit"] ELSE IdleReq]
  /\ UNCHANGED <<runState, steps, approvals, auditRows, changes, queue, wk, tx, scopeOpen, used>>

_record_event(q) ==
  LET d == req[q] IN
  /\ d.pc = "event"
  /\ events' = [events EXCEPT ![d.run] = Append(@, Ev(d.seen, d.to, "owner"))]
  /\ req'    = [req EXCEPT ![q] = IF d.op \in {"approve", "reject"}
                                  THEN [d EXCEPT !.pc = "audit"] ELSE IdleReq]
  /\ UNCHANGED <<runState, steps, approvals, auditRows, changes, queue, wk, tx, scopeOpen, used>>

(* Only an approval that queues the run goes on to enqueue a job. *)
Enqueues(d) == d.op = "approve" /\ d.to = "QUEUED"

WriteAudit(q) ==
  LET d == req[q] IN
  /\ d.pc = "audit"
  /\ auditRows' = [auditRows EXCEPT ![d.run] = @ + 1]
  /\ req' = [req EXCEPT ![q] = IF Enqueues(d) THEN [d EXCEPT !.pc = "enqueue"] ELSE IdleReq]
  /\ UNCHANGED <<runState, steps, events, approvals, changes, queue, wk, tx, scopeOpen, used>>

(* One more fault of this kind happens. *)
Fault(kind) ==
  /\ kind \in FaultKinds
  /\ used.faults < MaxFaults
  /\ used' = [used EXCEPT !.faults = @ + 1, !.stops = IF kind = "api" THEN @ + 1 ELSE @]

(* The push either reaches Redis or fails; the failure is only logged. *)
enqueue_run_job(q) ==
  LET d == req[q] IN
  /\ d.pc = "enqueue"
  /\ req' = [req EXCEPT ![q] = IdleReq]
  /\ \/ queue' = Append(queue, d.run) /\ UNCHANGED used
     \/ Fault("redis") /\ UNCHANGED queue
  /\ UNCHANGED <<rows, wk, tx, scopeOpen>>

-----------------------------------------------------------------------------
(* The worker process, apps/worker/app/main.py, and the callbacks it makes, *)
(* routers/worker.py.  A worker's pc names the call it is about to make     *)
(* ("claim", "invoke", "submit", "transition") or the point its claim       *)
(* ("count", "scope") or transition ("write") handler has reached.          *)

(* brpop timed out: the worker polls again. *)
process_jobs_timeout(w) ==
  /\ wk[w].pc = "idle"
  /\ queue = <<>>
  /\ UNCHANGED vars

(* Seeded bug: the job stays on the list while it is worked on. *)
process_jobs_Peek(w) ==
  /\ wk[w].pc = "idle"
  /\ queue # <<>>
  /\ wk' = [wk EXCEPT ![w].pc = "claim", ![w].run = Head(queue)]
  /\ UNCHANGED <<rows, queue, req, tx, scopeOpen, used>>

process_jobs(w) ==
  /\ wk[w].pc = "idle"
  /\ queue # <<>>
  /\ wk'    = [wk EXCEPT ![w].pc = "claim", ![w].run = Head(queue)]
  /\ queue' = Tail(queue)
  /\ UNCHANGED <<rows, req, tx, scopeOpen, used>>

(* Seeded bug: the second claim of a run, by then RUNNING, is refused. *)
ClaimRead_QueuedOnly(w) ==
  LET r == wk[w].run IN
  /\ wk[w].pc = "claim"
  /\ wk' = [wk EXCEPT ![w] = IF runState[r] = "QUEUED"
                             THEN [@ EXCEPT !.pc = "count", !.seen = runState[r]]
                             ELSE IdleWorker]
  /\ UNCHANGED <<rows, queue, req, tx, scopeOpen, used>>

(* Seeded bug: the worker claims again when a claim is refused. *)
ClaimRead_Retries(w) ==
  LET r == wk[w].run IN
  /\ wk[w].pc = "claim"
  /\ wk' = [wk EXCEPT ![w] = IF runState[r] \in {"QUEUED", "RUNNING"}
                             THEN [@ EXCEPT !.pc = "count", !.seen = runState[r]]
                             ELSE @]
  /\ UNCHANGED <<rows, queue, req, tx, scopeOpen, used>>

(* The claim handler reads the run; a run in no claimable state ends the job. *)
ClaimRead(w) ==
  LET r == wk[w].run IN
  /\ wk[w].pc = "claim"
  /\ wk' = [wk EXCEPT ![w] = IF runState[r] \in {"QUEUED", "RUNNING"}
                             THEN [@ EXCEPT !.pc = "count", !.seen = runState[r]]
                             ELSE IdleWorker]
  /\ UNCHANGED <<rows, queue, req, tx, scopeOpen, used>>

(* The events of a claim that fails the run: its own claim comes first. *)
FailureEvents(w) ==
  (IF wk[w].seen = "QUEUED" THEN <<Ev("QUEUED", "RUNNING", "worker")>> ELSE <<>>)
    \o <<Ev("RUNNING", "FAILED", "worker")>>

(* The claim fails the run, commits and answers with an error: the job ends. *)
FailRun(w) ==
  LET r == wk[w].run IN
  /\ runState' = [runState EXCEPT ![r] = "FAILED"]
  /\ events'   = [events EXCEPT ![r] = @ \o FailureEvents(w)]
  /\ changes'  = [changes EXCEPT ![r] = @ + Len(FailureEvents(w))]
  /\ wk'       = [wk EXCEPT ![w] = IdleWorker]
  /\ UNCHANGED <<steps, approvals, auditRows, queue, req, stepTx, scopeOpen, used>>

(* A claim of a QUEUED run writes RUNNING and keeps the row lock. *)
Claims(w, replied) ==
  IF wk[w].seen = "QUEUED"
  THEN /\ ~ Locked(wk[w].run)
       /\ stateTx' = [stateTx EXCEPT ![wk[w].run] = Tx("QUEUED", "RUNNING", replied)]
  ELSE UNCHANGED stateTx

(* Seeded bugs: the count is off by one, either way. *)
completed_count_Under(r) == Len(steps[r]) - 1
completed_count_Over(r)  == Len(steps[r]) + 1

(* How many steps the claim takes for done: all the recorded ones. *)
completed_count(r) == Len(steps[r])

(* The handler writes RUNNING if it read QUEUED, then counts the recorded  *)
(* steps: all done, or the next one is looked up and its scope checked.    *)
ClaimCount(w) ==
  LET r == wk[w].run
      done == completed_count(r) >= PlanLen[r]
  IN
  /\ wk[w].pc = "count"
  /\ r \in HasEngagement
  /\ Claims(w, done)
  /\ wk' = [wk EXCEPT ![w] = IF done
                             THEN [@ EXCEPT !.pc = "transition", !.status = "completed"]
                             ELSE [@ EXCEPT !.pc = "scope", !.step = completed_count(r) + 1]]
  /\ UNCHANGED <<rows, queue, req, stepTx, scopeOpen, used>>

ClaimNoEngagement(w) ==
  /\ wk[w].pc = "count"
  /\ wk[w].run \notin HasEngagement
  /\ ~ Locked(wk[w].run)
  /\ FailRun(w)
  /\ UNCHANGED stateTx

(* The state of run s as worker w's claim sees it: its own write included. *)
StateSeenBy(w, s) ==
  IF s = wk[w].run /\ wk[w].seen = "QUEUED" THEN stateTx[s].to ELSE runState[s]

(* The runs of the project whose engagement worker w's run names that are at work. *)
AtWork(w) == {s \in Runs : /\ ProjectOf[s] = EngagedIn[wk[w].run]
                           /\ StateSeenBy(w, s) \in ActiveStates}

(* Seeded bug: the limit itself is let through. *)
_check_concurrency_Inclusive(w) == Cardinality(AtWork(w)) <= MaxConcurrent

_check_concurrency(w) == Cardinality(AtWork(w)) < MaxConcurrent

(* Seeded bug: only approvals of an action count. *)
_has_approval_Actions(r) ==
  \E s \in Runs : /\ ProjectOf[s] = EngagedIn[r]
                  /\ \E i \in 1 .. Len(approvals[s]) :
                        approvals[s][i] = [type |-> "action", status |-> "approved"]

(* An approved ApprovalRequest of any run of the engagement's project will do. *)
_has_approval(r) ==
  \E s \in Runs : /\ ProjectOf[s] = EngagedIn[r]
                  /\ \E i \in 1 .. Len(approvals[s]) : approvals[s][i].status = "approved"

(* ScopeValidator.validate_target for the step worker w claims. *)
ScopeAllows(w) ==
  /\ scopeOpen[wk[w].run]
  /\ _check_concurrency(w)
  /\ <<wk[w].run, wk[w].step>> \in Sensitive => _has_approval(wk[w].run)

ClaimGranted(w) ==
  LET r == wk[w].run IN
  /\ wk[w].pc = "scope"
  /\ ScopeAllows(w)
  /\ wk' = [wk EXCEPT ![w].pc = "invoke"]
  /\ stateTx' = IF wk[w].seen = "QUEUED"
                THEN [stateTx EXCEPT ![r].replied = TRUE] ELSE stateTx
  /\ UNCHANGED <<rows, queue, req, stepTx, scopeOpen, used>>

ClaimDenied(w) ==
  LET r == wk[w].run IN
  /\ wk[w].pc = "scope"
  /\ ~ ScopeAllows(w)
  /\ IF wk[w].seen = "QUEUED"
     THEN stateTx' = [stateTx EXCEPT ![r] = NoTx]
     ELSE ~ Locked(r) /\ UNCHANGED stateTx
  /\ FailRun(w)

(* provider.invoke returns a result or raises ProviderError. *)
Invoke(w) ==
  /\ wk[w].pc = "invoke"
  /\ \E s \in StepStatus : wk' = [wk EXCEPT ![w].pc = "submit", ![w].status = s]
  /\ UNCHANGED <<rows, queue, req, tx, scopeOpen, used>>

(* Seeded bugs: the key is not looked up, and it is not unique. *)
Recorded_Unchecked(r, n)  == FALSE
Inserting_NotAwaited(r, n) == FALSE

Recorded(r, n) == \E i \in 1 .. Len(steps[r]) : steps[r][i].number = n
Inserting(r, n) == \E t \in stepTx : t.run = r /\ t.row.number = n

(* Seeded bug: the worker goes on after a failed step. *)
submit_step_KeepsGoing(w) ==
  LET r == wk[w].run
      n == wk[w].step
  IN
  /\ wk[w].pc = "submit"
  /\ ~ Inserting(r, n)
  /\ stepTx' = IF Recorded(r, n) THEN stepTx
               ELSE stepTx \union {[run |-> r, row |-> [number |-> n, status |-> wk[w].status]]}
  /\ wk' = [wk EXCEPT ![w].pc = "claim"]
  /\ UNCHANGED <<rows, queue, req, stateTx, scopeOpen, used>>

(* The insert waits for an open transaction with the same idempotency key, *)
(* and a key already recorded is answered as such: nothing is written.     *)
submit_step(w) ==
  LET r == wk[w].run
      n == wk[w].step
  IN
  /\ wk[w].pc = "submit"
  /\ ~ Inserting(r, n)
  /\ stepTx' = IF Recorded(r, n) THEN stepTx
               ELSE stepTx \union {[run |-> r, row |-> [number |-> n, status |-> wk[w].status]]}
  /\ wk' = [wk EXCEPT ![w].pc = IF wk[w].status = "completed" THEN "claim" ELSE "transition"]
  /\ UNCHANGED <<rows, queue, req, stateTx, scopeOpen, used>>

(* What the worker asks for when its job is over. *)
TargetOf(w) == IF wk[w].status = "completed" THEN "COMPLETED" ELSE "FAILED"

(* The transition handler reads the run; an illegal move is refused and    *)
(* the worker drops the job either way.                                    *)
TransitionRead(w) ==
  LET r == wk[w].run IN
  /\ wk[w].pc = "transition"
  /\ wk' = [wk EXCEPT ![w] = IF /\ runState[r] \notin TERMINAL_STATES
                                /\ validate_transition(runState[r], TargetOf(w))
                             THEN [@ EXCEPT !.pc = "write", !.seen = runState[r]]
                             ELSE IdleWorker]
  /\ UNCHANGED <<rows, queue, req, tx, scopeOpen, used>>

TransitionWrite(w) ==
  LET r == wk[w].run IN
  /\ wk[w].pc = "write"
  /\ ~ Locked(r)
  /\ stateTx' = [stateTx EXCEPT ![r] = Tx(wk[w].seen, TargetOf(w), TRUE)]
  /\ wk' = [wk EXCEPT ![w] = IdleWorker]
  /\ UNCHANGED <<rows, queue, req, stepTx, scopeOpen, used>>

-----------------------------------------------------------------------------
(* get_db's cleanup commits what an answered callback has written. *)

CommitStateTx(r) ==
  /\ stateTx[r].replied
  /\ runState' = [runState EXCEPT ![r] = stateTx[r].to]
  /\ events'   = [events EXCEPT ![r] = Append(@, Ev(stateTx[r].from, stateTx[r].to, "worker"))]
  /\ changes'  = [changes EXCEPT ![r] = @ + 1]
  /\ stateTx'  = [stateTx EXCEPT ![r] = NoTx]
  /\ UNCHANGED <<steps, approvals, auditRows, queue, req, wk, stepTx, scopeOpen, used>>

CommitStepTx(r) ==
  \E t \in stepTx :
    /\ t.run = r
    /\ steps'  = [steps EXCEPT ![r] = Append(@, t.row)]
    /\ stepTx' = stepTx \ {t}
    /\ UNCHANGED <<runState, events, approvals, auditRows, changes, queue, req, wk, stateTx,
                   scopeOpen, used>>

-----------------------------------------------------------------------------
(* Faults and the environment *)

(* A worker dies, is restarted, times out on a call or is refused by the   *)
(* rate limit: it never comes back to the job it had popped.               *)
AbandonJob(w) ==
  /\ Fault("worker")
  /\ wk[w].pc \in {"claim", "invoke", "submit", "transition"}
  /\ wk' = [wk EXCEPT ![w] = IdleWorker]
  /\ UNCHANGED <<rows, queue, req, tx, scopeOpen>>

(* The API process dies: requests in flight end where they are, open       *)
(* transactions roll back, workers inside a callback get an error.         *)
ApiCrash ==
  /\ Fault("api")
  /\ req' = [q \in Reqs |-> IdleReq]
  /\ wk'  = [w \in Workers |-> IF wk[w].pc \in {"count", "scope", "write"} THEN IdleWorker ELSE wk[w]]
  /\ stateTx' = [r \in Runs |-> NoTx]
  /\ stepTx'  = {}
  /\ UNCHANGED <<rows, queue, scopeOpen>>

(* An engagement is deactivated or reactivated, or its rules are edited. *)
EditScope(r) ==
  /\ used.edits < MaxEdits
  /\ used' = [used EXCEPT !.edits = @ + 1]
  /\ scopeOpen' = [scopeOpen EXCEPT ![r] = ~ @]
  /\ UNCHANGED <<rows, queue, req, wk, tx>>

-----------------------------------------------------------------------------

OwnerStarts ==
  \E q \in Reqs, r \in Runs :
    \/ create_run(q, r)
    \/ cancel_run(q, r)
    \/ approve_run(q, r)
    \/ reject_run(q, r)
    \/ \E target \in OwnerTargets : transition_run(q, r, target)

RequestStep(q) == CommitState(q) \/ _record_event(q) \/ WriteAudit(q) \/ enqueue_run_job(q)

WorkerStep(w) ==
  \/ process_jobs(w)
  \/ ClaimRead(w) \/ ClaimCount(w) \/ ClaimNoEngagement(w) \/ ClaimGranted(w) \/ ClaimDenied(w)
  \/ Invoke(w) \/ submit_step(w)
  \/ TransitionRead(w) \/ TransitionWrite(w)

Commits == \E r \in Runs : CommitStateTx(r) \/ CommitStepTx(r)

Faults == ApiCrash \/ \E w \in Workers : AbandonJob(w)

Next ==
  \/ OwnerStarts
  \/ \E q \in Reqs : RequestStep(q)
  \/ \E w \in Workers : WorkerStep(w) \/ process_jobs_timeout(w)
  \/ Commits
  \/ Faults
  \/ \E r \in Runs : EditScope(r)

Spec == Init /\ [][Next]_vars

(* A handler that has started runs on, a worker keeps working and an       *)
(* answered callback commits.  Nothing makes the owner send a request, and *)
(* no fault or edit has to happen.                                         *)
Fairness ==
  /\ \A q \in Reqs : WF_vars(RequestStep(q))
  /\ \A w \in Workers : WF_vars(WorkerStep(w))
  /\ \A r \in Runs : WF_vars(CommitStateTx(r)) /\ WF_vars(CommitStepTx(r))

FairSpec == Spec /\ Fairness

-----------------------------------------------------------------------------
(* Properties *)

Budget == [requests : Nat, faults : Nat, stops : Nat, edits : Nat]

(* Every variable keeps to the values the schema and the handlers allow.   *)
TypeOK ==
  /\ runState \in [Runs -> States]
  /\ steps \in [Runs -> Seq(StepRow)]
  /\ events \in [Runs -> Seq(Event)]
  /\ approvals \in [Runs -> Seq(Approval)]
  /\ auditRows \in [Runs -> Nat]
  /\ changes \in [Runs -> Nat]
  /\ queue \in Seq(Runs)
  /\ req \in [Reqs -> Request]
  /\ wk \in [Workers -> Worker]
  /\ stateTx \in [Runs -> TxRecord]
  /\ stepTx \subseteq [run : Runs, row : StepRow]
  /\ scopeOpen \in [Runs -> BOOLEAN]
  /\ used \in Budget

(* The step table of a run never has a gap, a repetition or a row past the *)
(* end of the plan, and no open insert can make one, however many workers  *)
(* hold the run and however late their transactions commit.                *)
StepsInOrder ==
  /\ \A r \in Runs : /\ Len(steps[r]) <= PlanLen[r]
                     /\ \A i \in 1 .. Len(steps[r]) : steps[r][i].number = i
  /\ \A t \in stepTx : t.row.number = Len(steps[t.run]) + 1 /\ t.row.number <= PlanLen[t.run]
  /\ \A t, u \in stepTx : t.run = u.run => t = u

(* A COMPLETED a worker reports is backed by a recorded row for every step *)
(* of the plan, although another worker, or an earlier attempt, may have   *)
(* recorded them and the run may have changed hands since the count.       *)
WorkerCompletionBacked ==
  \A r \in Runs : \A i \in 1 .. Len(events[r]) :
    events[r][i].by = "worker" /\ events[r][i].to = "COMPLETED" => Len(steps[r]) >= PlanLen[r]

(* The worker holds run r: it has popped a job for it and not ended it. *)
Holds(w, r) == wk[w].pc # "idle" /\ wk[w].run = r

PlanApproved(r) ==
  \E i \in 1 .. Len(approvals[r]) : approvals[r][i] = [type |-> "plan", status |-> "approved"]

(* Nothing is queued for a worker, and no worker touches a run, unless its *)
(* plan was approved by a recorded ApprovalRequest: neither /transition to *)
(* QUEUED nor a redelivered or stale job gets round the plan gate.         *)
ExecutionApproved ==
  \A r \in Runs :
    (\E i \in 1 .. Len(queue) : queue[i] = r) \/ (\E w \in Workers : Holds(w, r)) => PlanApproved(r)

PlanApprovals(r) ==
  {i \in 1 .. Len(approvals[r]) : approvals[r][i] = [type |-> "plan", status |-> "approved"]}

(* The jobs of a run: on the list, in a worker's hands or about to be pushed. *)
LiveJobs(r) ==
  Cardinality({i \in 1 .. Len(queue) : queue[i] = r})
    + Cardinality({w \in Workers : Holds(w, r)})
    + Cardinality({q \in Reqs : req[q].run = r /\ Enqueues(req[q]) /\ req[q].pc # "write"})

(* Jobs are conserved: the jobs of a run that are queued, about to be      *)
(* queued or in a worker's hands never outnumber its plan approvals.       *)
JobsBacked == \A r \in Runs : LiveJobs(r) <= Cardinality(PlanApprovals(r))

(* An approval is spent for good: a job that was finished, refused, lost   *)
(* or dropped makes no room for another, and a run that is retried or      *)
(* resumed after it gets a job only with another approval of its plan.     *)
ApprovalsSpentOnce ==
  [][\A r \in Runs : LiveJobs(r)' + Cardinality(PlanApprovals(r))
                       <= LiveJobs(r) + Cardinality(PlanApprovals(r))']_vars

(* Some handler or open transaction is about to write run r on a read that *)
(* no longer holds.                                                        *)
StaleWriter(r) ==
  \/ \E q \in Reqs : req[q].pc = "write" /\ req[q].run = r /\ req[q].seen # runState[r]
  \/ \E w \in Workers : /\ wk[w].pc \in {"count", "scope", "write"}
                        /\ wk[w].run = r /\ wk[w].seen # runState[r]
  \/ Locked(r) /\ stateTx[r].from # runState[r]

(* Stale reads are the only way round the transition table: while no       *)
(* handler holds a stale read of the run, each committed change of its     *)
(* state is a legal transition, whoever makes it.                          *)
LegalUnlessStale ==
  [][\A r \in Runs :
       runState'[r] # runState[r] /\ runState[r] # "NONE" /\ ~ StaleWriter(r)
         => validate_transition(runState[r], runState'[r])]_vars

(* As long as the API has not stopped, each committed transition has its   *)
(* RunEvent, save those whose request is still about to record it, and     *)
(* each decision has its AuditEvent, save those still in flight, whatever  *)
(* workers give up and whatever pushes fail.                               *)
TrailComplete ==
  used.stops = 0 => \A r \in Runs :
    /\ changes[r] = Len(events[r]) + Cardinality({q \in Reqs : req[q].run = r /\ req[q].pc = "event"})
    /\ Len(approvals[r]) = auditRows[r]
         + Cardinality({q \in Reqs : /\ req[q].run = r /\ req[q].op \in {"approve", "reject"}
                                     /\ req[q].pc \in {"event", "audit"}})

(* The step table implements the step ledger: rows are only ever appended, *)
(* in plan order, one for each step.                                       *)
Ledger == INSTANCE StepLedger WITH ledger <- steps
LedgerSpec == Ledger!Spec

(* The engagement a run names is one of the run's own project. *)
EngagedAtHome(r) == EngagedIn[r] = ProjectOf[r]

(* When the scope of a step is checked for a run whose engagement is of    *)
(* its own project, the approval a sensitive action needs is there: any    *)
(* approved ApprovalRequest of the project will do, and the one that       *)
(* approved the plan is among them, so check 6 of the validator never      *)
(* denies such a run.  A run with an engagement of another project is      *)
(* judged by the approvals of that one: it may be denied, its plan         *)
(* approved, or pass on the approval of a run it has nothing to do with.   *)
ApprovalCheckNeverDenies ==
  \A w \in Workers : wk[w].pc = "scope" /\ EngagedAtHome(wk[w].run) => _has_approval(wk[w].run)

(* Some worker executes a step of run r. *)
InExecution(r) == \E w \in Workers : Holds(w, r) /\ wk[w].pc \in {"invoke", "submit"}

(* When the owner takes no run away from the worker that executes it, at   *)
(* most MaxConcurrent - 1 runs of a project have a step in execution at a  *)
(* time, of those whose engagement is the project's own.  A run that names *)
(* an engagement of another project is not in the count the check makes,   *)
(* neither here nor there, and executes on top of them.                    *)
ConcurrencyBounded ==
  \A p \in Projects :
    Cardinality({r \in Runs : ProjectOf[r] = p /\ EngagedAtHome(r) /\ InExecution(r)}) < MaxConcurrent

Queued(r) == \E i \in 1 .. Len(queue) : queue[i] = r

(* A run whose only job is on the list, with a step left to do, is settled *)
(* in the end: some worker takes the job and the run leaves QUEUED and     *)
(* RUNNING.  It takes a step left, since a plan that is empty or recorded  *)
(* to its end is answered done before RUNNING is committed, and the        *)
(* COMPLETED that answers is refused.  It takes the run's only job, and no *)
(* two owner requests at once, since a second worker may write RUNNING on  *)
(* its old read over the COMPLETED of the first.                           *)
JobsSettle ==
  \A r \in Runs :
    Queued(r) /\ LiveJobs(r) = 1 /\ stepTx = {} /\ Len(steps[r]) < PlanLen[r]
      ~> runState[r] \notin {"QUEUED", "RUNNING"}

FailedSteps(r) == {i \in 1 .. Len(steps[r]) : steps[r][i].status = "failed"}

(* The events that end an attempt: a worker or a claim reports FAILED, or  *)
(* the owner cancels the run or takes it out of RUNNING by hand.           *)
Endings(r) ==
  {i \in 1 .. Len(events[r]) :
     \/ events[r][i].to \in {"FAILED", "CANCELLED"}
     \/ events[r][i].by = "owner" /\ events[r][i].from = "RUNNING"}

(* A step that failed is not only recorded: for each one the attempt ends  *)
(* with the run reported FAILED, or because the owner cancelled it or took *)
(* it out of RUNNING (paused it, say), from where the worker's FAILED is   *)
(* refused.  The row and the report are two calls of the worker, another   *)
(* claim or request may come between them, and the run can be retried and  *)
(* fail again.                                                             *)
FailureReported ==
  \A r \in Runs : []<>(Cardinality(FailedSteps(r)) <= Cardinality(Endings(r)))

(* A run that stays CANCELLED is let go: no worker works on it for ever,   *)
(* although no callback of the worker but the claim looks at the state.    *)
CancelStopsWorkers ==
  \A r \in Runs : <>[](runState[r] = "CANCELLED") => <>[](\A w \in Workers : ~ Holds(w, r))

-----------------------------------------------------------------------------
(* What the documents and comments say and the code does not keep *)

(* "Idempotency keys prevent duplicate execution": a step is executed only *)
(* while it has no row and no other worker executes it.                    *)
NoDuplicateExecution ==
  \A w \in Workers : wk[w].pc = "invoke" =>
    LET r == wk[w].run
        n == wk[w].step
    IN  /\ ~ Recorded(r, n) /\ ~ Inserting(r, n)
        /\ \A v \in Workers \ {w} : ~ (Holds(v, r) /\ wk[v].pc \in {"invoke", "submit"} /\ wk[v].step = n)

(* "When a run reaches QUEUED, the API pushes a job": a QUEUED run does    *)
(* not stay so for ever while nothing fails.                               *)
QueuedLeaves == \A r \in Runs : runState[r] = "QUEUED" ~> runState[r] # "QUEUED"

=============================================================================
