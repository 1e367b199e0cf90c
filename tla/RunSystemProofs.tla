--------------------------- MODULE RunSystemProofs ---------------------------
(***************************************************************************)
(* Theorems about RunSystem, for every value of its constants: any number  *)
(* of runs, workers and requests, any plans, any faults.                   *)
(***************************************************************************)
EXTENDS RunSystem, SequenceTheorems, TLAPS

-----------------------------------------------------------------------------
(* The inductive invariant behind the types. *)

(* A request in flight is about a run and will move it to a real state; a  *)
(* decision was taken at a gate, and only a plan approval queues the run.  *)
ReqOK ==
  \A q \in Reqs : req[q].pc # "idle" =>
    /\ req[q].run \in Runs
    /\ req[q].to \in RunState
    /\ req[q].op \in {"approve", "reject"} =>
         req[q].seen \in {"AWAITING_PLAN_APPROVAL", "AWAITING_ACTION_APPROVAL"}
    /\ Enqueues(req[q]) => req[q].seen = "AWAITING_PLAN_APPROVAL"

(* A worker with a job has a run, and one with a step has its number. *)
WkOK ==
  \A w \in Workers :
    /\ wk[w].pc # "idle" => wk[w].run \in Runs
    /\ wk[w].pc \in {"scope", "invoke", "submit"} => wk[w].step >= 1

(* A claim that is past its write of RUNNING and not yet answered owns the *)
(* open transaction of its run, alone.                                     *)
Owns(w, r) == wk[w].pc = "scope" /\ wk[w].seen = "QUEUED" /\ wk[w].run = r

LockOK ==
  /\ \A r \in Runs : stateTx[r].replied => stateTx[r].to \in RunState
  /\ \A w \in Workers, r \in Runs : Owns(w, r) => stateTx[r] = Tx("QUEUED", "RUNNING", FALSE)
  /\ \A w, v \in Workers, r \in Runs : Owns(w, r) /\ Owns(v, r) => w = v

TypeInv == TypeOK /\ ReqOK /\ WkOK /\ LockOK

LEMMA IdleTypes == IdleReq \in Request /\ IdleWorker \in Worker
  BY DEF IdleReq, IdleWorker, Request, Worker, States, StepStatus

LEMMA BudgetLemma ==
  ASSUME NEW u \in Budget
  PROVE  /\ [u EXCEPT !.requests = @ + 1] \in Budget
         /\ [u EXCEPT !.edits = @ + 1] \in Budget
  BY DEF Budget

LEMMA FaultLemma ==
  ASSUME NEW kind, used \in Budget, Fault(kind)
  PROVE  /\ used' \in Budget
         /\ used'.stops = IF kind = "api" THEN used.stops + 1 ELSE used.stops
<1>1. used' = [used EXCEPT !.faults = @ + 1, !.stops = IF kind = "api" THEN @ + 1 ELSE @]
  BY DEF Fault
<1>2. used = [requests |-> used.requests, faults |-> used.faults, stops |-> used.stops,
              edits |-> used.edits]
      /\ used.requests \in Nat /\ used.faults \in Nat /\ used.stops \in Nat /\ used.edits \in Nat
  BY DEF Budget
<1>3. used' = [requests |-> used.requests, faults |-> used.faults + 1,
               stops |-> IF kind = "api" THEN used.stops + 1 ELSE used.stops, edits |-> used.edits]
  BY <1>1, <1>2
<1> QED
  BY <1>2, <1>3 DEF Budget

(* What a decision writes: one ApprovalRequest row, of the gate's type. *)
LEMMA DecisionRowsLemma ==
  ASSUME NEW d,
         d.op \in {"approve", "reject"} =>
           d.seen \in {"AWAITING_PLAN_APPROVAL", "AWAITING_ACTION_APPROVAL"}
  PROVE  /\ DecisionRows(d) \in Seq(Approval)
         /\ d.op = "approve" /\ d.seen = "AWAITING_PLAN_APPROVAL" =>
              DecisionRows(d) = <<[type |-> "plan", status |-> "approved"]>>
<1> DEFINE G == CHOOSE g \in ApprovalGates : g.at = d.seen
<1>1. CASE d.op \notin {"approve", "reject"}
  BY <1>1 DEF DecisionRows
<1>2. CASE d.op \in {"approve", "reject"}
  <2>1. \E g \in ApprovalGates : g.at = d.seen
    BY <1>2 DEF ApprovalGates
  <2>2. G \in ApprovalGates /\ G.at = d.seen
    BY <2>1
  <2>3. G.type \in {"plan", "action"} /\ (d.seen = "AWAITING_PLAN_APPROVAL" => G.type = "plan")
    <3>1. \A g \in ApprovalGates : /\ g.type \in {"plan", "action"}
                                   /\ g.at = "AWAITING_PLAN_APPROVAL" => g.type = "plan"
      BY DEF ApprovalGates
    <3> HIDE DEF G
    <3> QED
      BY <3>1, <2>2
  <2>4. DecisionRows(d) = <<[type |-> G.type, status |-> IF d.op = "approve" THEN "approved" ELSE "rejected"]>>
    BY <1>2 DEF DecisionRows
  <2>5. [type |-> G.type, status |-> IF d.op = "approve" THEN "approved" ELSE "rejected"] \in Approval
    BY <2>3 DEF Approval
  <2> HIDE DEF G
  <2> QED
    BY <2>3, <2>4, <2>5
<1> QED
  BY <1>1, <1>2

LEMMA InitTypeInv == Init => TypeInv
<1> SUFFICES ASSUME Init PROVE TypeInv
  OBVIOUS
<1>1. TypeOK
  <2>0. \A r \in Runs : Prepared[r] \in 0 .. 3
    BY ConstantsAssumption DEF PreparationPath
  <2>1. runState \in [Runs -> States]
    <3>1. \A i \in 1 .. 3 : PreparationPath[i] \in States
      BY DEF States, RunState, PreparationPath
    <3> QED
      BY <2>0, <3>1 DEF Init, States
  <2>2. events \in [Runs -> Seq(Event)]
    <3>1. PreparationEvents \in Seq(Event) /\ Len(PreparationEvents) = 3
      BY DEF PreparationEvents, Event, Ev, States, RunState
    <3>2. ASSUME NEW r \in Runs PROVE SubSeq(PreparationEvents, 1, Prepared[r]) \in Seq(Event)
      <4>1. \A i \in 1 .. 3 : PreparationEvents[i] \in Event
        BY DEF PreparationEvents, Event, Ev, States, RunState
      <4>2. \A i \in 1 .. Prepared[r] : PreparationEvents[i] \in Event
        BY <2>0, <4>1
      <4> QED
        BY <4>2, <2>0, SubSeqProperties
    <3>3. events = [r \in Runs |-> SubSeq(PreparationEvents, 1, Prepared[r])]
      BY DEF Init
    <3> QED
      BY <3>2, <3>3, Zenon
  <2>3. changes \in [Runs -> Nat]
    BY <2>0 DEF Init
  <2>4. /\ steps \in [Runs -> Seq(StepRow)] /\ approvals \in [Runs -> Seq(Approval)]
        /\ auditRows \in [Runs -> Nat] /\ queue \in Seq(Runs) /\ scopeOpen \in [Runs -> BOOLEAN]
        /\ stepTx \subseteq [run : Runs, row : StepRow]
        /\ used \in Budget
    BY ConstantsAssumption DEF Init, Budget
  <2>5. stateTx \in [Runs -> TxRecord]
    BY DEF Init, NoTx, States, TxRecord
  <2>6. req \in [Reqs -> Request] /\ wk \in [Workers -> Worker]
    BY DEF Init, IdleReq, IdleWorker, States, StepStatus, Request, Worker
  <2> QED
    BY <2>1, <2>2, <2>3, <2>4, <2>5, <2>6 DEF TypeOK
<1>2. ReqOK /\ WkOK
  BY DEF Init, ReqOK, WkOK, IdleReq, IdleWorker
<1>3. LockOK
  BY DEF Init, LockOK, Owns, IdleWorker, NoTx
<1> QED
  BY <1>1, <1>2, <1>3 DEF TypeInv

-----------------------------------------------------------------------------
(* Every action preserves it. *)

LEMMA StartTypeInv ==
  ASSUME TypeInv, NEW q \in Reqs, NEW r \in Runs, NEW op, NEW target \in RunState,
         Start(q, op, r, target),
         op \in {"transition", "cancel", "approve", "reject"},
         op \in {"approve", "reject"} =>
           runState[r] \in {"AWAITING_PLAN_APPROVAL", "AWAITING_ACTION_APPROVAL"},
         op = "approve" /\ target = "QUEUED" => runState[r] = "AWAITING_PLAN_APPROVAL"
  PROVE  TypeInv'
<1>1. TypeOK'
  <2>1. [pc |-> "write", op |-> op, run |-> r, seen |-> runState[r], to |-> target] \in Request
    BY DEF TypeInv, TypeOK, Request, States
  <2>2. req' \in [Reqs -> Request]
    BY <2>1 DEF TypeInv, TypeOK, Start
  <2>3. used' \in Budget
    BY BudgetLemma DEF TypeInv, TypeOK, Start
  <2> QED
    BY <2>2, <2>3 DEF TypeInv, TypeOK, Start, rows, tx
<1>2. ReqOK'
  BY DEF TypeInv, TypeOK, ReqOK, Start, Enqueues
<1>3. WkOK' /\ LockOK'
  BY DEF TypeInv, WkOK, LockOK, Owns, Start, tx
<1> QED
  BY <1>1, <1>2, <1>3 DEF TypeInv

LEMMA OwnerStartsTypeInv ==
  ASSUME TypeInv, OwnerStarts
  PROVE  TypeInv'
<1> USE ConstantsAssumption
<1>0. \A r \in Runs : runState[r] \in States
  BY DEF TypeInv, TypeOK
<1>1. ASSUME NEW q \in Reqs, NEW r \in Runs, create_run(q, r) PROVE TypeInv'
  <2>1. TypeOK'
    <3>1. req' \in [Reqs -> Request]
      BY <1>1 DEF TypeInv, TypeOK, create_run, Request, States, RunState
    <3>2. used' \in Budget
      BY <1>1, BudgetLemma DEF TypeInv, TypeOK, create_run
    <3>3. runState' \in [Runs -> States] /\ changes' \in [Runs -> Nat]
      BY <1>1 DEF TypeInv, TypeOK, create_run, States, RunState
    <3> QED
      BY <1>1, <3>1, <3>2, <3>3 DEF TypeInv, TypeOK, create_run, tx
  <2>2. ReqOK'
    BY <1>1 DEF TypeInv, TypeOK, ReqOK, create_run, Enqueues, RunState
  <2>3. WkOK' /\ LockOK'
    BY <1>1 DEF TypeInv, WkOK, LockOK, Owns, create_run, tx
  <2> QED
    BY <2>1, <2>2, <2>3 DEF TypeInv
<1>2. ASSUME NEW q \in Reqs, NEW r \in Runs, cancel_run(q, r) PROVE TypeInv'
  BY <1>2, StartTypeInv DEF cancel_run, RunState
<1>3. ASSUME NEW q \in Reqs, NEW r \in Runs, approve_run(q, r) PROVE TypeInv'
  <2>1. PICK gate \in ApprovalGates : runState[r] = gate.at /\ Start(q, "approve", r, gate.next)
    BY <1>3 DEF approve_run
  <2>2. /\ gate.next \in RunState
        /\ gate.at \in {"AWAITING_PLAN_APPROVAL", "AWAITING_ACTION_APPROVAL"}
        /\ gate.next = "QUEUED" => gate.at = "AWAITING_PLAN_APPROVAL"
    BY DEF ApprovalGates, RunState
  <2> QED
    BY <2>1, <2>2, StartTypeInv
<1>4. ASSUME NEW q \in Reqs, NEW r \in Runs, reject_run(q, r) PROVE TypeInv'
  <2>1. PICK gate \in ApprovalGates : runState[r] = gate.at /\ Start(q, "reject", r, "CANCELLED")
    BY <1>4 DEF reject_run
  <2>2. /\ "CANCELLED" \in RunState
        /\ gate.at \in {"AWAITING_PLAN_APPROVAL", "AWAITING_ACTION_APPROVAL"}
    BY DEF ApprovalGates, RunState
  <2> QED
    BY <2>1, <2>2, StartTypeInv
<1>5. ASSUME NEW q \in Reqs, NEW r \in Runs, NEW target \in OwnerTargets, transition_run(q, r, target)
      PROVE  TypeInv'
  BY <1>5, StartTypeInv DEF transition_run
<1> QED
  BY <1>1, <1>2, <1>3, <1>4, <1>5 DEF OwnerStarts

LEMMA RequestStepTypeInv ==
  ASSUME TypeInv, NEW q \in Reqs, RequestStep(q)
  PROVE  TypeInv'
<1> DEFINE d == req[q]
<1>1. CASE CommitState(q)
  <2>1. /\ d.pc = "write" /\ d.run \in Runs /\ d.to \in RunState
        /\ DecisionRows(d) \in Seq(Approval)
    <3>1. d.pc = "write"
      BY <1>1 DEF CommitState
    <3> QED
      BY <3>1, DecisionRowsLemma DEF TypeInv, ReqOK
  <2>2. approvals[d.run] \o DecisionRows(d) \in Seq(Approval)
    BY <2>1, ConcatProperties DEF TypeInv, TypeOK
  <2>3. TypeOK'
    <3>1. req' \in [Reqs -> Request]
      BY <1>1 DEF TypeInv, TypeOK, CommitState, Request
    <3>2. /\ runState' \in [Runs -> States] /\ changes' \in [Runs -> Nat]
          /\ approvals' \in [Runs -> Seq(Approval)]
      BY <1>1, <2>1, <2>2 DEF TypeInv, TypeOK, CommitState, States
    <3> QED
      BY <1>1, <3>1, <3>2 DEF TypeInv, TypeOK, CommitState, tx
  <2>4. ReqOK'
    BY <1>1, <2>1 DEF TypeInv, TypeOK, ReqOK, CommitState, Enqueues
  <2>5. WkOK' /\ LockOK'
    BY <1>1 DEF TypeInv, WkOK, LockOK, Owns, CommitState, tx
  <2> QED
    BY <2>3, <2>4, <2>5 DEF TypeInv
<1>2. CASE _record_event(q)
  <2>1. d.pc = "event" /\ d.run \in Runs /\ Ev(d.seen, d.to, "owner") \in Event
    <3>1. d.pc = "event"
      BY <1>2 DEF _record_event
    <3>2. d.run \in Runs /\ d.to \in RunState
      BY <3>1 DEF TypeInv, ReqOK
    <3>3. d.seen \in States
      BY DEF TypeInv, TypeOK, Request
    <3> QED
      BY <3>1, <3>2, <3>3 DEF Event, Ev
  <2>2. Append(events[d.run], Ev(d.seen, d.to, "owner")) \in Seq(Event)
    BY <2>1, AppendProperties DEF TypeInv, TypeOK
  <2>3. TypeOK'
    <3>1. req' \in [Reqs -> Request]
      BY <1>2, IdleTypes DEF TypeInv, TypeOK, _record_event, Request
    <3>2. events' \in [Runs -> Seq(Event)]
      BY <1>2, <2>1, <2>2 DEF TypeInv, TypeOK, _record_event
    <3> QED
      BY <1>2, <3>1, <3>2 DEF TypeInv, TypeOK, _record_event, tx
  <2>4. ReqOK'
    BY <1>2, <2>1 DEF TypeInv, TypeOK, ReqOK, _record_event, Enqueues, IdleReq
  <2>5. WkOK' /\ LockOK'
    BY <1>2 DEF TypeInv, WkOK, LockOK, Owns, _record_event, tx
  <2> QED
    BY <2>3, <2>4, <2>5 DEF TypeInv
<1>3. CASE WriteAudit(q)
  <2>3. TypeOK'
    <3>1. req' \in [Reqs -> Request]
      BY <1>3, IdleTypes DEF TypeInv, TypeOK, WriteAudit, Request
    <3>2. auditRows' \in [Runs -> Nat]
      <4>1. auditRows \in [Runs -> Nat] /\ auditRows' = [auditRows EXCEPT ![d.run] = @ + 1]
        BY <1>3 DEF TypeInv, TypeOK, WriteAudit
      <4>2. d.run \in Runs
        BY <1>3 DEF TypeInv, ReqOK, WriteAudit
      <4> HIDE DEF d
      <4> QED
        BY <4>1, <4>2
    <3> QED
      BY <1>3, <3>1, <3>2 DEF TypeInv, TypeOK, WriteAudit, tx
  <2>4. ReqOK'
    BY <1>3 DEF TypeInv, TypeOK, ReqOK, WriteAudit, Enqueues, IdleReq
  <2>5. WkOK' /\ LockOK'
    BY <1>3 DEF TypeInv, WkOK, LockOK, Owns, WriteAudit, tx
  <2> QED
    BY <2>3, <2>4, <2>5 DEF TypeInv
<1>4. CASE enqueue_run_job(q)
  <2>1. d.pc = "enqueue" /\ d.run \in Runs
    BY <1>4 DEF enqueue_run_job, TypeInv, ReqOK
  <2>2. Append(queue, d.run) \in Seq(Runs)
    BY <2>1, AppendProperties DEF TypeInv, TypeOK
  <2>3. TypeOK'
    <3>1. req' \in [Reqs -> Request]
      BY <1>4, IdleTypes DEF TypeInv, TypeOK, enqueue_run_job
    <3>2. queue' \in Seq(Runs)
      BY <1>4, <2>2 DEF TypeInv, TypeOK, enqueue_run_job
    <3>3. used' \in Budget
      BY <1>4, FaultLemma DEF TypeInv, TypeOK, enqueue_run_job
    <3> QED
      BY <1>4, <3>1, <3>2, <3>3 DEF TypeInv, TypeOK, enqueue_run_job, rows, tx
  <2>4. ReqOK'
    BY <1>4 DEF TypeInv, TypeOK, ReqOK, enqueue_run_job, Enqueues, IdleReq
  <2>5. WkOK' /\ LockOK'
    BY <1>4 DEF TypeInv, WkOK, LockOK, Owns, enqueue_run_job, tx
  <2> QED
    BY <2>3, <2>4, <2>5 DEF TypeInv
<1> QED
  BY <1>1, <1>2, <1>3, <1>4 DEF RequestStep


LEMMA TxLemma ==
  /\ NoTx \in TxRecord
  /\ \A from, to \in States, replied \in BOOLEAN : Tx(from, to, replied) \in TxRecord
  /\ \A t \in TxRecord : [t EXCEPT !.replied = TRUE] \in TxRecord
  BY DEF NoTx, Tx, TxRecord, States

(* The steps of a worker that touch nothing but its own record. *)
LEMMA WkOnlyTypeInv ==
  ASSUME TypeInv, NEW w \in Workers, NEW record \in Worker,
         wk' = [wk EXCEPT ![w] = record],
         UNCHANGED <<rows, queue, req, tx, scopeOpen, used>>,
         record.pc # "idle" => record.run \in Runs,
         record.pc \in {"invoke", "submit"} => record.step >= 1,
         record.pc # "scope"
  PROVE  TypeInv'
<1>1. TypeOK'
  BY DEF TypeInv, TypeOK, rows, tx
<1>2. ReqOK'
  BY DEF TypeInv, ReqOK
<1>3. WkOK'
  BY DEF TypeInv, TypeOK, WkOK
<1>4. LockOK'
  BY DEF TypeInv, TypeOK, LockOK, Owns, tx
<1> QED
  BY <1>1, <1>2, <1>3, <1>4 DEF TypeInv

LEMMA FailureEventsLemma ==
  ASSUME NEW w
  PROVE  FailureEvents(w) \in Seq(Event) /\ Len(FailureEvents(w)) \in Nat
<1> DEFINE claimed == Ev("QUEUED", "RUNNING", "worker")
           failed  == Ev("RUNNING", "FAILED", "worker")
<1>1. claimed \in Event /\ failed \in Event
  BY DEF Ev, Event, States, RunState
<1> HIDE DEF claimed, failed
<1>2. <<>> \in Seq(Event) /\ <<claimed>> \in Seq(Event) /\ <<failed>> \in Seq(Event)
  BY <1>1
<1>3. FailureEvents(w) \in Seq(Event)
  BY <1>2, ConcatProperties DEF FailureEvents, claimed, failed
<1> QED
  BY <1>3, LenProperties

(* A claim that fails its run leaves no lock of its own behind. *)
LEMMA FailRunTypeInv ==
  ASSUME TypeInv, NEW w \in Workers, wk[w].run \in Runs, FailRun(w),
         \/ UNCHANGED stateTx
         \/ wk[w].pc = "scope" /\ wk[w].seen = "QUEUED"
            /\ stateTx' = [stateTx EXCEPT ![wk[w].run] = NoTx]
  PROVE  TypeInv'
<1> DEFINE r == wk[w].run
<1>1. TypeOK'
  <2>1. runState' \in [Runs -> States]
    BY DEF TypeInv, TypeOK, FailRun, States, RunState
  <2>2. events[r] \o FailureEvents(w) \in Seq(Event) /\ changes[r] + Len(FailureEvents(w)) \in Nat
    BY FailureEventsLemma, ConcatProperties DEF TypeInv, TypeOK
  <2>3. events' \in [Runs -> Seq(Event)] /\ changes' \in [Runs -> Nat]
    BY <2>2 DEF TypeInv, TypeOK, FailRun
  <2>4. wk' \in [Workers -> Worker]
    BY IdleTypes DEF TypeInv, TypeOK, FailRun
  <2>5. stateTx' \in [Runs -> TxRecord]
    BY TxLemma DEF TypeInv, TypeOK
  <2> QED
    BY <2>1, <2>3, <2>4, <2>5 DEF TypeInv, TypeOK, FailRun
<1>2. ReqOK'
  BY DEF TypeInv, ReqOK, FailRun
<1>3. WkOK'
  BY DEF TypeInv, TypeOK, WkOK, FailRun, IdleWorker
<1>4. LockOK'
  <2>1. \A v \in Workers, s \in Runs : Owns(v, s)' => v # w /\ Owns(v, s)
    BY DEF TypeInv, TypeOK, FailRun, Owns, IdleWorker
  <2>2. CASE UNCHANGED stateTx
    BY <2>1, <2>2 DEF TypeInv, LockOK
  <2>3. CASE /\ wk[w].pc = "scope" /\ wk[w].seen = "QUEUED"
             /\ stateTx' = [stateTx EXCEPT ![r] = NoTx]
    <3>1. Owns(w, r)
      BY <2>3 DEF Owns
    <3>2. \A v \in Workers, s \in Runs : Owns(v, s)' => s # r /\ stateTx'[s] = stateTx[s]
      BY <2>1, <2>3, <3>1 DEF TypeInv, TypeOK, LockOK
    <3>3. \A s \in Runs : stateTx'[s].replied => stateTx'[s].to \in RunState
      BY <2>3 DEF TypeInv, TypeOK, LockOK, NoTx
    <3> QED
      BY <2>1, <3>2, <3>3 DEF TypeInv, LockOK
  <2> QED
    BY <2>2, <2>3
<1> QED
  BY <1>1, <1>2, <1>3, <1>4 DEF TypeInv

LEMMA ClaimCountTypeInv ==
  ASSUME TypeInv, NEW w \in Workers, ClaimCount(w)
  PROVE  TypeInv'
<1> DEFINE r == wk[w].run
           done == completed_count(r) >= PlanLen[r]
           record == IF done THEN [wk[w] EXCEPT !.pc = "transition", !.status = "completed"]
                     ELSE [wk[w] EXCEPT !.pc = "scope", !.step = completed_count(r) + 1]
<1>1. r \in Runs /\ wk[w].pc = "count" /\ wk[w] \in Worker
  BY DEF TypeInv, TypeOK, WkOK, ClaimCount
<1>2. completed_count(r) \in Nat
  BY <1>1, LenProperties DEF TypeInv, TypeOK, completed_count
<1>3. record \in Worker
  <2>1. [wk[w] EXCEPT !.pc = "transition", !.status = "completed"] \in Worker
    BY <1>1 DEF Worker, StepStatus
  <2>2. completed_count(r) + 1 \in Nat
    BY <1>2
  <2>3. [wk[w] EXCEPT !.pc = "scope", !.step = completed_count(r) + 1] \in Worker
    BY <1>1, <2>2 DEF Worker
  <2> QED
    BY <2>1, <2>3
<1>4. wk' = [wk EXCEPT ![w] = record]
  BY DEF ClaimCount
<1>5. \/ wk[w].seen # "QUEUED" /\ UNCHANGED stateTx
      \/ wk[w].seen = "QUEUED" /\ stateTx[r] = NoTx
         /\ stateTx' = [stateTx EXCEPT ![r] = Tx("QUEUED", "RUNNING", done)]
  BY DEF ClaimCount, Claims, Locked
<1>6. record.run = r /\ record.seen = wk[w].seen /\ (done => record.pc = "transition")
      /\ (~ done => record.pc = "scope" /\ record.step >= 1)
  BY <1>1, <1>2 DEF Worker
<1> HIDE DEF record
<1>7. TypeOK'
  <2>1. Tx("QUEUED", "RUNNING", TRUE) \in TxRecord /\ Tx("QUEUED", "RUNNING", FALSE) \in TxRecord
    BY TxLemma DEF States, RunState
  <2>2. done = TRUE \/ done = FALSE
    OBVIOUS
  <2>3. Tx("QUEUED", "RUNNING", done) \in TxRecord
    BY <2>1, <2>2
  <2>4. stateTx' \in [Runs -> TxRecord]
    BY <1>5, <2>3 DEF TypeInv, TypeOK
  <2> QED
    BY <1>3, <1>4, <2>4 DEF TypeInv, TypeOK, ClaimCount, rows
<1>8. ReqOK'
  BY DEF TypeInv, ReqOK, ClaimCount
<1>9. WkOK'
  BY <1>1, <1>4, <1>6 DEF TypeInv, TypeOK, WkOK
<1>10. LockOK'
  <2>1. \A v \in Workers, s \in Runs :
          Owns(v, s)' <=> \/ v # w /\ Owns(v, s)
                          \/ v = w /\ s = r /\ wk[w].seen = "QUEUED" /\ ~ done
    BY <1>4, <1>6 DEF TypeInv, TypeOK, Owns
  <2>2. CASE wk[w].seen # "QUEUED" /\ UNCHANGED stateTx
    BY <2>1, <2>2 DEF TypeInv, LockOK
  <2>3. CASE wk[w].seen = "QUEUED" /\ stateTx[r] = NoTx
             /\ stateTx' = [stateTx EXCEPT ![r] = Tx("QUEUED", "RUNNING", done)]
    <3>1. \A v \in Workers : ~ Owns(v, r)
      BY <1>1, <2>3 DEF TypeInv, LockOK, Tx, NoTx
    <3>2. /\ stateTx'[r] = Tx("QUEUED", "RUNNING", done)
          /\ \A s \in Runs : s # r => stateTx'[s] = stateTx[s]
      BY <1>1, <2>3 DEF TypeInv, TypeOK
    <3>3. \A s \in Runs : stateTx'[s].replied => stateTx'[s].to \in RunState
      BY <3>2 DEF TypeInv, LockOK, Tx, RunState
    <3>4. ~ done => stateTx'[r] = Tx("QUEUED", "RUNNING", FALSE)
      <4>1. done = TRUE \/ done = FALSE
        OBVIOUS
      <4> HIDE DEF done
      <4> QED
        BY <3>2, <4>1
    <3>5. ASSUME NEW v \in Workers, NEW s \in Runs, Owns(v, s)'
          PROVE  stateTx'[s] = Tx("QUEUED", "RUNNING", FALSE)
      <4>1. CASE v # w /\ Owns(v, s)
        <5>1. s # r /\ stateTx[s] = Tx("QUEUED", "RUNNING", FALSE)
          BY <3>1, <4>1 DEF TypeInv, LockOK
        <5> QED
          BY <5>1, <3>2
      <4>2. CASE v = w /\ s = r /\ ~ done
        BY <3>4, <4>2
      <4> QED
        BY <2>1, <3>5, <4>1, <4>2
    <3>6. ASSUME NEW v \in Workers, NEW u \in Workers, NEW s \in Runs, Owns(v, s)', Owns(u, s)'
          PROVE  v = u
      BY <2>1, <3>1, <3>6 DEF TypeInv, LockOK
    <3> QED
      BY <3>3, <3>5, <3>6 DEF LockOK
  <2> QED
    BY <1>5, <2>2, <2>3
<1> QED
  BY <1>7, <1>8, <1>9, <1>10 DEF TypeInv

LEMMA ClaimGrantedTypeInv ==
  ASSUME TypeInv, NEW w \in Workers, ClaimGranted(w)
  PROVE  TypeInv'
<1> DEFINE r == wk[w].run
<1>1. r \in Runs /\ wk[w].pc = "scope" /\ wk[w] \in Worker /\ wk[w].step >= 1
  BY DEF TypeInv, TypeOK, WkOK, ClaimGranted
<1>2. wk' = [wk EXCEPT ![w].pc = "invoke"] /\ wk' \in [Workers -> Worker]
  BY DEF TypeInv, TypeOK, ClaimGranted, Worker
<1>3. \/ wk[w].seen # "QUEUED" /\ UNCHANGED stateTx
      \/ wk[w].seen = "QUEUED" /\ stateTx' = [stateTx EXCEPT ![r].replied = TRUE]
  BY DEF ClaimGranted
<1>4. TypeOK'
  <2>1. stateTx' \in [Runs -> TxRecord]
    <3>1. stateTx \in [Runs -> TxRecord] /\ stateTx[r] \in TxRecord
      BY <1>1 DEF TypeInv, TypeOK
    <3>2. [stateTx[r] EXCEPT !.replied = TRUE] \in TxRecord
      BY <3>1, TxLemma
    <3>3. \/ UNCHANGED stateTx
          \/ stateTx' = [stateTx EXCEPT ![r] = [stateTx[r] EXCEPT !.replied = TRUE]]
      BY <1>3
    <3> QED
      BY <3>1, <3>2, <3>3
  <2> QED
    BY <1>2, <2>1 DEF TypeInv, TypeOK, ClaimGranted, rows
<1>5. ReqOK'
  BY DEF TypeInv, ReqOK, ClaimGranted
<1>6. WkOK'
  BY <1>1, <1>2 DEF TypeInv, TypeOK, WkOK, Worker
<1>7. LockOK'
  <2>1. \A v \in Workers, s \in Runs : Owns(v, s)' => v # w /\ Owns(v, s)
    BY <1>2 DEF TypeInv, TypeOK, Owns, Worker
  <2>2. CASE UNCHANGED stateTx
    BY <2>1, <2>2 DEF TypeInv, LockOK
  <2>3. CASE wk[w].seen = "QUEUED" /\ stateTx' = [stateTx EXCEPT ![r].replied = TRUE]
    <3>1. Owns(w, r)
      BY <1>1, <2>3 DEF Owns
    <3>2. stateTx[r] = Tx("QUEUED", "RUNNING", FALSE)
      BY <1>1, <3>1 DEF TypeInv, LockOK
    <3>3. stateTx'[r].to = "RUNNING" /\ \A s \in Runs : s # r => stateTx'[s] = stateTx[s]
      BY <1>1, <2>3, <3>2 DEF TypeInv, TypeOK, Tx
    <3>4. \A v \in Workers, s \in Runs : Owns(v, s)' => s # r
      BY <1>1, <2>1, <3>1 DEF TypeInv, LockOK
    <3> QED
      BY <2>1, <3>3, <3>4 DEF TypeInv, LockOK, RunState
  <2> QED
    BY <1>3, <2>2, <2>3
<1> QED
  BY <1>4, <1>5, <1>6, <1>7 DEF TypeInv

LEMMA WorkerStepTypeInv ==
  ASSUME TypeInv, NEW w \in Workers, WorkerStep(w)
  PROVE  TypeInv'
<1> DEFINE r == wk[w].run
<1>0. wk[w] \in Worker /\ (wk[w].pc # "idle" => r \in Runs)
  BY DEF TypeInv, TypeOK, WkOK
<1>1. CASE process_jobs(w)
  <2>1. queue # <<>> /\ Head(queue) \in Runs /\ Tail(queue) \in Seq(Runs)
    BY <1>1, HeadTailProperties DEF process_jobs, TypeInv, TypeOK
  <2>2. TypeOK'
    <3>1. wk' \in [Workers -> Worker]
      BY <1>1, <2>1 DEF process_jobs, TypeInv, TypeOK, Worker
    <3> QED
      BY <1>1, <2>1, <3>1 DEF process_jobs, TypeInv, TypeOK, rows, tx
  <2>3. ReqOK'
    BY <1>1 DEF process_jobs, TypeInv, ReqOK
  <2>4. /\ wk'[w].pc = "claim" /\ wk'[w].run \in Runs
        /\ \A v \in Workers : v # w => wk'[v] = wk[v]
    BY <1>0, <1>1, <2>1 DEF process_jobs, TypeInv, TypeOK, Worker
  <2>5. WkOK'
    BY <2>4 DEF TypeInv, WkOK
  <2>6. LockOK'
    <3>1. \A v \in Workers, s \in Runs : Owns(v, s)' => Owns(v, s)
      BY <2>4 DEF Owns
    <3> QED
      BY <1>1, <3>1 DEF process_jobs, TypeInv, LockOK, tx
  <2> QED
    BY <2>2, <2>3, <2>5, <2>6 DEF TypeInv
<1>2. CASE ClaimRead(w)
  <2>1. PICK record : /\ record = (IF runState[r] \in {"QUEUED", "RUNNING"}
                                   THEN [wk[w] EXCEPT !.pc = "count", !.seen = runState[r]]
                                   ELSE IdleWorker)
                      /\ wk' = [wk EXCEPT ![w] = record]
    BY <1>2 DEF ClaimRead
  <2>2. wk[w].pc = "claim" /\ r \in Runs /\ runState[r] \in States
    BY <1>0, <1>2 DEF ClaimRead, TypeInv, TypeOK
  <2>3. record \in Worker
    BY <1>0, <2>1, <2>2, IdleTypes DEF Worker
  <2>4. record.pc \in {"idle", "count"} /\ (record.pc # "idle" => record.run \in Runs)
    BY <1>0, <2>1, <2>2 DEF Worker, IdleWorker
  <2> QED
    BY <1>2, <2>1, <2>3, <2>4, WkOnlyTypeInv DEF ClaimRead
<1>3. CASE ClaimCount(w)
  BY <1>3, ClaimCountTypeInv
<1>4. CASE ClaimNoEngagement(w)
  BY <1>0, <1>4, FailRunTypeInv DEF ClaimNoEngagement
<1>5. CASE ClaimGranted(w)
  BY <1>5, ClaimGrantedTypeInv
<1>6. CASE ClaimDenied(w)
  BY <1>0, <1>6, FailRunTypeInv DEF ClaimDenied
<1>7. CASE Invoke(w)
  <2>1. PICK status \in StepStatus : wk' = [wk EXCEPT ![w] = [wk[w] EXCEPT !.pc = "submit", !.status = status]]
    BY <1>7 DEF Invoke, TypeInv, TypeOK
  <2>2. r \in Runs /\ wk[w].step >= 1
    BY <1>0, <1>7 DEF Invoke, TypeInv, WkOK
  <2>3. [wk[w] EXCEPT !.pc = "submit", !.status = status] \in Worker
    BY <1>0 DEF Worker
  <2>4. LET record == [wk[w] EXCEPT !.pc = "submit", !.status = status]
        IN  record.pc = "submit" /\ record.run = r /\ record.step = wk[w].step
    BY <1>0 DEF Worker
  <2> QED
    BY <1>7, <2>1, <2>2, <2>3, <2>4, WkOnlyTypeInv DEF Invoke
<1>8. CASE submit_step(w)
  <2>1. /\ r \in Runs /\ wk[w].step \in Nat \ {0} /\ wk[w].status \in StepStatus
        /\ wk[w].pc = "submit"
    BY <1>0, <1>8 DEF submit_step, TypeInv, WkOK, Worker
  <2>2. wk' \in [Workers -> Worker]
    <3>1. wk' = [wk EXCEPT ![w].pc = IF wk[w].status = "completed" THEN "claim" ELSE "transition"]
      BY <1>8 DEF submit_step
    <3> QED
      BY <3>1 DEF TypeInv, TypeOK, Worker
  <2>3. stepTx' \subseteq [run : Runs, row : StepRow]
    <3>1. [run |-> r, row |-> [number |-> wk[w].step, status |-> wk[w].status]] \in [run : Runs, row : StepRow]
      BY <2>1 DEF StepRow
    <3> QED
      BY <1>8, <3>1 DEF submit_step, TypeInv, TypeOK
  <2>4. TypeOK'
    BY <1>8, <2>2, <2>3 DEF submit_step, TypeInv, TypeOK, rows
  <2>5. ReqOK'
    BY <1>8 DEF submit_step, TypeInv, ReqOK
  <2>6. WkOK' /\ LockOK'
    BY <1>8, <2>1 DEF submit_step, TypeInv, TypeOK, WkOK, LockOK, Owns, Worker
  <2> QED
    BY <2>4, <2>5, <2>6 DEF TypeInv
<1>9. CASE TransitionRead(w)
  <2>1. PICK record : /\ record \in {[wk[w] EXCEPT !.pc = "write", !.seen = runState[r]], IdleWorker}
                      /\ wk' = [wk EXCEPT ![w] = record]
    BY <1>9 DEF TransitionRead
  <2>2. wk[w].pc = "transition" /\ r \in Runs /\ runState[r] \in States
    BY <1>0, <1>9 DEF TransitionRead, TypeInv, TypeOK
  <2>3. record \in Worker
    BY <1>0, <2>1, <2>2, IdleTypes DEF Worker
  <2>4. record.pc \in {"idle", "write"} /\ (record.pc # "idle" => record.run \in Runs)
    <3>1. CASE record = IdleWorker
      BY <3>1 DEF IdleWorker
    <3>2. CASE record = [wk[w] EXCEPT !.pc = "write", !.seen = runState[r]]
      BY <1>0, <2>2, <3>2 DEF Worker
    <3> QED
      BY <2>1, <3>1, <3>2
  <2> QED
    BY <1>9, <2>1, <2>3, <2>4, WkOnlyTypeInv DEF TransitionRead
<1>10. CASE TransitionWrite(w)
  <2>1. wk[w].pc = "write" /\ r \in Runs /\ stateTx[r] = NoTx /\ wk[w].seen \in States
        /\ TargetOf(w) \in RunState
    BY <1>0, <1>10 DEF TransitionWrite, Locked, Worker, TargetOf, RunState
  <2>2. Tx(wk[w].seen, TargetOf(w), TRUE) \in TxRecord
    BY <2>1, TxLemma DEF States
  <2>3. TypeOK'
    <3>1. stateTx' \in [Runs -> TxRecord] /\ wk' \in [Workers -> Worker]
      BY <1>10, <2>2, IdleTypes DEF TransitionWrite, TypeInv, TypeOK
    <3> QED
      BY <1>10, <3>1 DEF TransitionWrite, TypeInv, TypeOK, rows
  <2>4. ReqOK'
    BY <1>10 DEF TransitionWrite, TypeInv, ReqOK
  <2>5. WkOK'
    BY <1>10 DEF TransitionWrite, TypeInv, TypeOK, WkOK, IdleWorker
  <2>6. LockOK'
    <3>1. \A v \in Workers, s \in Runs : Owns(v, s)' => Owns(v, s)
      BY <1>10 DEF TransitionWrite, TypeInv, TypeOK, Owns, IdleWorker
    <3>2. \A v \in Workers : ~ Owns(v, r)
      BY <2>1 DEF TypeInv, LockOK, Tx, NoTx
    <3>3. /\ stateTx'[r] = Tx(wk[w].seen, TargetOf(w), TRUE)
          /\ \A s \in Runs : s # r => stateTx'[s] = stateTx[s]
      BY <1>10, <2>1 DEF TransitionWrite, TypeInv, TypeOK
    <3>4. \A s \in Runs : stateTx'[s].replied => stateTx'[s].to \in RunState
      BY <2>1, <3>3 DEF TypeInv, LockOK, Tx
    <3> QED
      BY <3>1, <3>2, <3>3, <3>4 DEF TypeInv, LockOK
  <2> QED
    BY <2>3, <2>4, <2>5, <2>6 DEF TypeInv
<1> QED
  BY <1>1, <1>2, <1>3, <1>4, <1>5, <1>6, <1>7, <1>8, <1>9, <1>10 DEF WorkerStep

LEMMA CommitsTypeInv ==
  ASSUME TypeInv, NEW r \in Runs, CommitStateTx(r) \/ CommitStepTx(r)
  PROVE  TypeInv'
<1>1. CASE CommitStateTx(r)
  <2>1. stateTx[r].replied /\ stateTx[r] \in TxRecord /\ stateTx[r].to \in RunState
    BY <1>1 DEF CommitStateTx, TypeInv, TypeOK, LockOK
  <2>2. Ev(stateTx[r].from, stateTx[r].to, "worker") \in Event
    BY <2>1 DEF Ev, Event, TxRecord
  <2>3. Append(events[r], Ev(stateTx[r].from, stateTx[r].to, "worker")) \in Seq(Event)
    BY <2>2, AppendProperties DEF TypeInv, TypeOK
  <2>4. TypeOK'
    <3>1. runState' \in [Runs -> States] /\ changes' \in [Runs -> Nat]
      BY <1>1, <2>1 DEF CommitStateTx, TypeInv, TypeOK, States
    <3>2. events' \in [Runs -> Seq(Event)]
      BY <1>1, <2>3 DEF CommitStateTx, TypeInv, TypeOK
    <3>3. stateTx' \in [Runs -> TxRecord]
      BY <1>1, TxLemma DEF CommitStateTx, TypeInv, TypeOK
    <3> QED
      BY <1>1, <3>1, <3>2, <3>3 DEF CommitStateTx, TypeInv, TypeOK
  <2>5. ReqOK' /\ WkOK'
    BY <1>1 DEF CommitStateTx, TypeInv, ReqOK, WkOK
  <2>6. LockOK'
    <3>1. \A w \in Workers, s \in Runs : Owns(w, s)' => s # r /\ Owns(w, s)
      BY <1>1, <2>1 DEF CommitStateTx, TypeInv, LockOK, Owns, Tx
    <3> QED
      BY <1>1, <3>1 DEF CommitStateTx, TypeInv, TypeOK, LockOK, NoTx
  <2> QED
    BY <2>4, <2>5, <2>6 DEF TypeInv
<1>2. CASE CommitStepTx(r)
  <2>1. PICK t \in stepTx : /\ t.run = r
                            /\ steps' = [steps EXCEPT ![r] = Append(@, t.row)]
                            /\ stepTx' = stepTx \ {t}
    BY <1>2 DEF CommitStepTx
  <2>2. t.row \in StepRow
    BY DEF TypeInv, TypeOK
  <2>3. Append(steps[r], t.row) \in Seq(StepRow)
    BY <2>2, AppendProperties DEF TypeInv, TypeOK
  <2>4. steps' \in [Runs -> Seq(StepRow)] /\ stepTx' \subseteq [run : Runs, row : StepRow]
    BY <2>1, <2>3 DEF TypeInv, TypeOK
  <2>5. TypeOK'
    BY <1>2, <2>4 DEF CommitStepTx, TypeInv, TypeOK
  <2>6. ReqOK'
    BY <1>2 DEF CommitStepTx, TypeInv, ReqOK, Enqueues
  <2>7. WkOK'
    BY <1>2 DEF CommitStepTx, TypeInv, WkOK
  <2>8. LockOK'
    BY <1>2 DEF CommitStepTx, TypeInv, LockOK, Owns
  <2> QED
    BY <2>5, <2>6, <2>7, <2>8 DEF TypeInv
<1> QED
  BY <1>1, <1>2

LEMMA FaultsTypeInv ==
  ASSUME TypeInv, Faults
  PROVE  TypeInv'
<1>1. ASSUME NEW w \in Workers, AbandonJob(w) PROVE TypeInv'
  <2>1. wk' \in [Workers -> Worker] /\ used' \in Budget
    BY <1>1, IdleTypes, FaultLemma DEF AbandonJob, TypeInv, TypeOK
  <2>2. TypeOK'
    BY <1>1, <2>1 DEF AbandonJob, TypeInv, TypeOK, rows, tx
  <2>3. ReqOK'
    BY <1>1 DEF AbandonJob, TypeInv, ReqOK
  <2>4. WkOK'
    BY <1>1 DEF AbandonJob, TypeInv, TypeOK, WkOK, IdleWorker
  <2>5. LockOK'
    <3>1. \A v \in Workers, s \in Runs : Owns(v, s)' => Owns(v, s)
      BY <1>1 DEF AbandonJob, TypeInv, TypeOK, Owns, IdleWorker
    <3> QED
      BY <1>1, <3>1 DEF AbandonJob, TypeInv, LockOK, tx
  <2> QED
    BY <2>2, <2>3, <2>4, <2>5 DEF TypeInv
<1>2. CASE ApiCrash
  <2>1. used' \in Budget
    BY <1>2, FaultLemma DEF ApiCrash, TypeInv, TypeOK
  <2>2. req' \in [Reqs -> Request] /\ wk' \in [Workers -> Worker]
    BY <1>2, IdleTypes DEF ApiCrash, TypeInv, TypeOK
  <2>3. stateTx' \in [Runs -> TxRecord] /\ stepTx' \subseteq [run : Runs, row : StepRow]
    BY <1>2, TxLemma DEF ApiCrash
  <2>4. TypeOK'
    BY <1>2, <2>1, <2>2, <2>3 DEF ApiCrash, TypeInv, TypeOK, rows
  <2>5. ReqOK' /\ WkOK'
    BY <1>2 DEF ApiCrash, TypeInv, ReqOK, WkOK, IdleReq, IdleWorker
  <2>6. LockOK'
    <3>1. \A w \in Workers, s \in Runs : ~ Owns(w, s)'
      BY <1>2 DEF ApiCrash, Owns, IdleWorker
    <3> QED
      BY <1>2, <3>1 DEF ApiCrash, LockOK, NoTx
  <2> QED
    BY <2>4, <2>5, <2>6 DEF TypeInv
<1> QED
  BY <1>1, <1>2 DEF Faults

LEMMA NextTypeInv == TypeInv /\ [Next]_vars => TypeInv'
<1> SUFFICES ASSUME TypeInv, [Next]_vars PROVE TypeInv'
  OBVIOUS
<1>1. CASE UNCHANGED vars
  BY <1>1 DEF vars, rows, tx, TypeInv, TypeOK, ReqOK, WkOK, LockOK, Owns, Enqueues
<1>2. ASSUME NEW r \in Runs, EditScope(r) PROVE TypeInv'
  <2>1. used' \in Budget /\ scopeOpen' \in [Runs -> BOOLEAN]
    BY <1>2, BudgetLemma DEF EditScope, TypeInv, TypeOK
  <2> QED
    BY <1>2, <2>1 DEF EditScope, rows, tx, TypeInv, TypeOK, ReqOK, WkOK, LockOK, Owns, Enqueues
<1>3. ASSUME NEW w \in Workers, process_jobs_timeout(w) PROVE TypeInv'
  BY <1>1, <1>3 DEF process_jobs_timeout
<1> QED
  BY <1>1, <1>2, <1>3, OwnerStartsTypeInv, RequestStepTypeInv, WorkerStepTypeInv, CommitsTypeInv,
     FaultsTypeInv DEF Next, Commits

(* Type correctness: no interleaving, fault or delay takes a variable out  *)
(* of the values the schema and the handlers allow.                        *)
THEOREM TypeCorrect == Spec => []TypeOK
<1>1. Init => TypeInv
  BY InitTypeInv
<1>2. TypeInv /\ [Next]_vars => TypeInv'
  BY NextTypeInv
<1>3. TypeInv => TypeOK
  BY DEF TypeInv
<1> QED
  BY <1>1, <1>2, <1>3, PTL DEF Spec

=============================================================================
