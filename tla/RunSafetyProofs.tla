--------------------------- MODULE RunSafetyProofs ---------------------------
(***************************************************************************)
(* The safety theorems of RunSystem, for every value of its constants,     *)
(* from the type invariant of RunSystemProofs.                             *)
(***************************************************************************)
EXTENDS RunSystemProofs

-----------------------------------------------------------------------------
(* Steps are recorded in order. *)

HasStep(record) == record.pc \in {"scope", "invoke", "submit"}

(* A worker's step is at most the next one to record: this is what makes   *)
(* StepsInOrder inductive, a submission of it is recorded or next.         *)
StepInv ==
  /\ StepsInOrder
  /\ \A w \in Workers : HasStep(wk[w]) =>
       wk[w].step <= Len(steps[wk[w].run]) + 1 /\ wk[w].step <= PlanLen[wk[w].run]

(* An action that records nothing and hands out no step preserves it. *)
LEMMA StepFrame ==
  ASSUME StepInv, steps' = steps, stepTx' \subseteq stepTx,
         \A w \in Workers : HasStep(wk'[w]) =>
           HasStep(wk[w]) /\ wk'[w].run = wk[w].run /\ wk'[w].step = wk[w].step
  PROVE  StepInv'
<1>1. StepsInOrder'
  BY DEF StepInv, StepsInOrder
<1>2. \A w \in Workers : HasStep(wk[w])' =>
       wk'[w].step <= Len(steps'[wk'[w].run]) + 1 /\ wk'[w].step <= PlanLen[wk'[w].run]
  BY DEF StepInv, HasStep
<1> QED
  BY <1>1, <1>2 DEF StepInv

LEMMA ClaimCountStepInv ==
  ASSUME TypeInv, StepInv, NEW w \in Workers, ClaimCount(w)
  PROVE  StepInv'
<1> DEFINE r == wk[w].run
           done == completed_count(r) >= PlanLen[r]
<1>1. r \in Runs /\ Len(steps[r]) \in Nat /\ PlanLen[r] \in Nat
  BY ConstantsAssumption, LenProperties DEF TypeInv, TypeOK, WkOK, ClaimCount
<1>2. steps' = steps /\ stepTx' = stepTx
  BY DEF ClaimCount, rows
<1>3. CASE done
  <2>1. wk' = [wk EXCEPT ![w] = [wk[w] EXCEPT !.pc = "transition", !.status = "completed"]]
    BY <1>3 DEF ClaimCount
  <2>2. \A v \in Workers : HasStep(wk'[v]) => v # w /\ wk'[v] = wk[v]
    BY <2>1 DEF TypeInv, TypeOK, HasStep, Worker
  <2> QED
    BY <1>2, <2>2, StepFrame
<1>4. CASE ~ done
  <2>1. wk' = [wk EXCEPT ![w] = [wk[w] EXCEPT !.pc = "scope", !.step = Len(steps[r]) + 1]]
    BY <1>4 DEF ClaimCount, completed_count
  <2>2. wk'[w].run = r /\ wk'[w].step = Len(steps[r]) + 1 /\ \A v \in Workers : v # w => wk'[v] = wk[v]
    BY <2>1 DEF TypeInv, TypeOK, Worker
  <2>3. Len(steps[r]) + 1 <= PlanLen[r]
    BY <1>1, <1>4 DEF completed_count
  <2>4. StepsInOrder'
    BY <1>2 DEF StepInv, StepsInOrder
  <2>5. ASSUME NEW v \in Workers, HasStep(wk'[v])
        PROVE  wk'[v].step <= Len(steps'[wk'[v].run]) + 1 /\ wk'[v].step <= PlanLen[wk'[v].run]
    <3>1. CASE v = w
      BY <1>1, <1>2, <2>2, <2>3, <3>1
    <3>2. CASE v # w
      BY <1>2, <2>2, <2>5, <3>2 DEF StepInv
    <3> QED
      BY <3>1, <3>2
  <2> QED
    BY <2>4, <2>5 DEF StepInv, HasStep
<1> QED
  BY <1>3, <1>4

(* A submission inserts the next step or finds its row. *)
LEMMA SubmitStepInv ==
  ASSUME TypeInv, StepInv, NEW w \in Workers, submit_step(w)
  PROVE  StepInv'
<1> DEFINE r == wk[w].run
           n == wk[w].step
           row == [number |-> n, status |-> wk[w].status]
           t0 == [run |-> r, row |-> row]
<1>1. /\ r \in Runs /\ n \in Nat \ {0} /\ HasStep(wk[w])
      /\ steps[r] \in Seq(StepRow) /\ Len(steps[r]) \in Nat
  BY LenProperties DEF TypeInv, TypeOK, WkOK, Worker, submit_step, HasStep
<1>2. n <= Len(steps[r]) + 1 /\ n <= PlanLen[r]
  BY <1>1 DEF StepInv
<1>3. steps' = steps
  BY DEF submit_step, rows
<1>4. \A v \in Workers : HasStep(wk'[v]) => wk'[v] = wk[v]
  BY DEF submit_step, TypeInv, TypeOK, HasStep, Worker
<1>5. CASE Recorded(r, n)
  <2>1. stepTx' = stepTx
    BY <1>5 DEF submit_step
  <2> QED
    BY <1>3, <1>4, <2>1, StepFrame
<1>6. CASE ~ Recorded(r, n)
  <2>1. n = Len(steps[r]) + 1
    <3>1. n \notin 1 .. Len(steps[r])
      BY <1>1, <1>6 DEF StepInv, StepsInOrder, Recorded
    <3> QED
      BY <1>1, <1>2, <3>1
  <2>2. stepTx' = stepTx \union {t0}
    BY <1>6 DEF submit_step
  <2>3. ~ \E t \in stepTx : t.run = r
    <3>1. \A t \in stepTx : t.run = r => t.row.number = n
      BY <2>1 DEF StepInv, StepsInOrder
    <3> QED
      BY <3>1 DEF submit_step, Inserting
  <2>4. t0.run = r /\ t0.row.number = n
    OBVIOUS
  <2> HIDE DEF t0
  <2>5. \A t \in stepTx' : t.row.number = Len(steps'[t.run]) + 1 /\ t.row.number <= PlanLen[t.run]
    BY <1>2, <1>3, <2>1, <2>2, <2>4 DEF StepInv, StepsInOrder
  <2>6. \A t, u \in stepTx' : t.run = u.run => t = u
    BY <2>2, <2>3, <2>4 DEF StepInv, StepsInOrder
  <2>7. StepsInOrder'
    BY <1>3, <2>5, <2>6 DEF StepInv, StepsInOrder
  <2>8. \A v \in Workers : HasStep(wk'[v]) =>
          wk'[v].step <= Len(steps'[wk'[v].run]) + 1 /\ wk'[v].step <= PlanLen[wk'[v].run]
    BY <1>3, <1>4 DEF StepInv
  <2> QED
    BY <2>7, <2>8 DEF StepInv, HasStep
<1> QED
  BY <1>5, <1>6

(* A commit appends exactly the next step of the plan. *)
LEMMA CommitAppends ==
  ASSUME TypeInv, StepInv, NEW r \in Runs, CommitStepTx(r)
  PROVE  \E t \in stepTx :
           /\ t.run = r /\ t.row \in StepRow
           /\ t.row.number = Len(steps[r]) + 1 /\ t.row.number <= PlanLen[r]
           /\ steps' = [steps EXCEPT ![r] = Append(@, t.row)]
           /\ stepTx' = stepTx \ {t}
           /\ \A u \in stepTx' : u.run # r
<1>1. PICK t \in stepTx : /\ t.run = r
                          /\ steps' = [steps EXCEPT ![r] = Append(@, t.row)]
                          /\ stepTx' = stepTx \ {t}
  BY DEF CommitStepTx
<1>2. t.row \in StepRow
  BY DEF TypeInv, TypeOK
<1>3. \A u \in stepTx' : u.run # r
  BY <1>1 DEF StepInv, StepsInOrder
<1> QED
  BY <1>1, <1>2, <1>3 DEF StepInv, StepsInOrder

LEMMA CommitStepTxStepInv ==
  ASSUME TypeInv, StepInv, NEW r \in Runs, CommitStepTx(r)
  PROVE  StepInv'
<1>1. PICK t \in stepTx :
           /\ t.run = r /\ t.row \in StepRow
           /\ t.row.number = Len(steps[r]) + 1 /\ t.row.number <= PlanLen[r]
           /\ steps' = [steps EXCEPT ![r] = Append(@, t.row)]
           /\ stepTx' = stepTx \ {t}
           /\ \A u \in stepTx' : u.run # r
  BY CommitAppends
<1>2. steps \in [Runs -> Seq(StepRow)] /\ Len(steps[r]) \in Nat
  BY LenProperties DEF TypeInv, TypeOK
<1>3. /\ Len(Append(steps[r], t.row)) = Len(steps[r]) + 1
      /\ \A i \in 1 .. Len(steps[r]) : Append(steps[r], t.row)[i] = steps[r][i]
      /\ Append(steps[r], t.row)[Len(steps[r]) + 1] = t.row
  BY <1>1, <1>2, AppendProperties
<1>4. steps'[r] = Append(steps[r], t.row) /\ \A s \in Runs : s # r => steps'[s] = steps[s]
  BY <1>1, <1>2
<1>5. /\ Len(steps'[r]) <= PlanLen[r]
      /\ \A i \in 1 .. Len(steps'[r]) : steps'[r][i].number = i
  BY <1>1, <1>2, <1>3, <1>4 DEF StepInv, StepsInOrder
<1>6. \A u \in stepTx' : u \in stepTx /\ u.run \in Runs \ {r}
  BY <1>1 DEF TypeInv, TypeOK
<1>7. StepsInOrder'
  <2>1. \A s \in Runs : /\ Len(steps'[s]) <= PlanLen[s]
                        /\ \A i \in 1 .. Len(steps'[s]) : steps'[s][i].number = i
    BY <1>4, <1>5 DEF StepInv, StepsInOrder
  <2>2. \A u \in stepTx' : u.row.number = Len(steps'[u.run]) + 1 /\ u.row.number <= PlanLen[u.run]
    BY <1>4, <1>6 DEF StepInv, StepsInOrder
  <2>3. \A u, v \in stepTx' : u.run = v.run => u = v
    BY <1>6 DEF StepInv, StepsInOrder
  <2> QED
    BY <2>1, <2>2, <2>3 DEF StepsInOrder
<1>8. wk' = wk
  BY DEF CommitStepTx
<1>9. ASSUME NEW w \in Workers, HasStep(wk[w])
      PROVE  wk[w].step <= Len(steps'[wk[w].run]) + 1 /\ wk[w].step <= PlanLen[wk[w].run]
  <2>1. wk[w].run \in Runs /\ wk[w].step \in Nat
    BY <1>9 DEF TypeInv, TypeOK, WkOK, HasStep, Worker
  <2>2. wk[w].step <= Len(steps[wk[w].run]) + 1 /\ wk[w].step <= PlanLen[wk[w].run]
    BY <1>9 DEF StepInv
  <2>3. CASE wk[w].run = r
    BY <1>2, <1>3, <1>4, <2>1, <2>2, <2>3
  <2>4. CASE wk[w].run # r
    BY <1>4, <2>1, <2>2, <2>4
  <2> QED
    BY <2>3, <2>4
<1> QED
  BY <1>7, <1>8, <1>9 DEF StepInv, HasStep

LEMMA WorkerStepStepInv ==
  ASSUME TypeInv, StepInv, NEW w \in Workers, WorkerStep(w)
  PROVE  StepInv'
<1>1. CASE ClaimCount(w)
  BY <1>1, ClaimCountStepInv
<1>2. CASE submit_step(w)
  BY <1>2, SubmitStepInv
<1>3. CASE process_jobs(w) \/ ClaimRead(w) \/ TransitionRead(w) \/ TransitionWrite(w)
  <2>1. steps' = steps /\ stepTx' = stepTx
    BY <1>3 DEF process_jobs, ClaimRead, TransitionRead, TransitionWrite, rows, tx
  <2>2. \A v \in Workers : v # w => wk'[v] = wk[v]
    BY <1>3 DEF process_jobs, ClaimRead, TransitionRead, TransitionWrite, TypeInv, TypeOK
  <2>3. wk'[w].pc \in {"idle", "claim", "count", "write"}
    <3>1. CASE process_jobs(w)
      BY <3>1 DEF process_jobs, TypeInv, TypeOK, Worker
    <3>2. CASE ClaimRead(w)
      BY <3>2 DEF ClaimRead, TypeInv, TypeOK, Worker, IdleWorker
    <3>3. CASE TransitionRead(w)
      <4>1. wk[w] \in Worker /\ wk'[w] \in {[wk[w] EXCEPT !.pc = "write", !.seen = runState[wk[w].run]], IdleWorker}
        BY <3>3 DEF TransitionRead, TypeInv, TypeOK
      <4>2. CASE wk'[w] = IdleWorker
        BY <4>2 DEF IdleWorker
      <4>3. CASE wk'[w] = [wk[w] EXCEPT !.pc = "write", !.seen = runState[wk[w].run]]
        BY <4>1, <4>3 DEF Worker
      <4> QED
        BY <4>1, <4>2, <4>3
    <3>4. CASE TransitionWrite(w)
      BY <3>4 DEF TransitionWrite, TypeInv, TypeOK, IdleWorker
    <3> QED
      BY <1>3, <3>1, <3>2, <3>3, <3>4
  <2> QED
    BY <2>1, <2>2, <2>3, StepFrame DEF HasStep
<1>4. CASE ClaimNoEngagement(w) \/ ClaimDenied(w)
  <2>1. steps' = steps /\ stepTx' = stepTx /\ wk' = [wk EXCEPT ![w] = IdleWorker]
    BY <1>4 DEF ClaimNoEngagement, ClaimDenied, FailRun
  <2>2. \A v \in Workers : HasStep(wk'[v]) => wk'[v] = wk[v]
    BY <2>1 DEF TypeInv, TypeOK, HasStep, IdleWorker
  <2> QED
    BY <2>1, <2>2, StepFrame
<1>5. CASE ClaimGranted(w) \/ Invoke(w)
  <2>1. steps' = steps /\ stepTx' = stepTx
    BY <1>5 DEF ClaimGranted, Invoke, rows, tx
  <2>2. HasStep(wk[w])
    BY <1>5 DEF ClaimGranted, Invoke, HasStep
  <2>3. \A v \in Workers : wk'[v].run = wk[v].run /\ wk'[v].step = wk[v].step /\ (v # w => wk'[v] = wk[v])
    BY <1>5 DEF ClaimGranted, Invoke, TypeInv, TypeOK, Worker
  <2> QED
    BY <2>1, <2>2, <2>3, StepFrame
<1> QED
  BY <1>1, <1>2, <1>3, <1>4, <1>5 DEF WorkerStep

LEMMA NextStepInv == TypeInv /\ StepInv /\ [Next]_vars => StepInv'
<1> SUFFICES ASSUME TypeInv, StepInv, [Next]_vars PROVE StepInv'
  OBVIOUS
<1>1. CASE \E w \in Workers : WorkerStep(w)
  BY <1>1, WorkerStepStepInv
<1>2. CASE \E r \in Runs : CommitStepTx(r)
  BY <1>2, CommitStepTxStepInv
<1>3. CASE steps' = steps /\ stepTx' = stepTx /\ wk' = wk
  BY <1>3, StepFrame
<1>4. CASE \E w \in Workers : AbandonJob(w)
  <2>1. PICK w \in Workers : AbandonJob(w)
    BY <1>4
  <2>2. steps' = steps /\ stepTx' = stepTx /\ wk' = [wk EXCEPT ![w] = IdleWorker]
    BY <2>1 DEF AbandonJob, rows, tx
  <2>3. \A v \in Workers : HasStep(wk'[v]) => wk'[v] = wk[v]
    BY <2>2 DEF TypeInv, TypeOK, HasStep, IdleWorker
  <2> QED
    BY <2>2, <2>3, StepFrame
<1>5. CASE ApiCrash
  <2>1. steps' = steps /\ stepTx' = {}
    BY <1>5 DEF ApiCrash, rows
  <2>2. \A v \in Workers : HasStep(wk'[v]) => wk'[v] = wk[v]
    BY <1>5 DEF ApiCrash, HasStep, IdleWorker
  <2> QED
    BY <2>1, <2>2, StepFrame
<1>6. CASE OwnerStarts \/ \E q \in Reqs : RequestStep(q)
  <2>1. CASE OwnerStarts
    BY <1>3, <2>1 DEF OwnerStarts, create_run, cancel_run, approve_run, reject_run, transition_run,
       Start, rows, tx
  <2>2. CASE \E q \in Reqs : RequestStep(q)
    BY <1>3, <2>2 DEF RequestStep, CommitState, _record_event, WriteAudit, enqueue_run_job, rows, tx
  <2> QED
    BY <1>6, <2>1, <2>2
<1>7. CASE \E r \in Runs : CommitStateTx(r) \/ EditScope(r)
  BY <1>3, <1>7 DEF CommitStateTx, EditScope, rows, tx
<1>8. CASE (\E w \in Workers : process_jobs_timeout(w)) \/ UNCHANGED vars
  BY <1>3, <1>8 DEF process_jobs_timeout, vars, rows, tx
<1> QED
  BY <1>1, <1>2, <1>4, <1>5, <1>6, <1>7, <1>8 DEF Next, Commits, Faults

LEMMA InitStepInv == Init => StepInv
<1> SUFFICES ASSUME Init PROVE StepInv
  OBVIOUS
<1>1. StepsInOrder
  BY ConstantsAssumption DEF Init, StepsInOrder
<1> QED
  BY <1>1 DEF Init, StepInv, HasStep, IdleWorker

LEMMA StepInvariance == Spec => [](TypeInv /\ StepInv)
  BY InitTypeInv, NextTypeInv, InitStepInv, NextStepInv, PTL DEF Spec

(* The step table has no gap, repetition or surplus row, and no open       *)
(* insert can make one: the idempotency key and the count of rows that     *)
(* claim_run goes by are enough, whatever is delayed, lost or repeated.    *)
THEOREM StepsRecordedInOrder == Spec => []StepsInOrder
<1>1. StepInv => StepsInOrder
  BY DEF StepInv
<1> QED
  BY <1>1, StepInvariance, PTL

(* The step table implements the step ledger. *)
THEOREM StepsImplementLedger == Spec => LedgerSpec
<1>1. Init => Ledger!Init
  BY DEF Init, Ledger!Init
<1>2. TypeInv /\ StepInv /\ [Next]_vars => [Ledger!Next]_steps
  <2> SUFFICES ASSUME TypeInv, StepInv, [Next]_vars, steps' # steps
               PROVE  Ledger!Next
    OBVIOUS
  <2>1. PICK r \in Runs : CommitStepTx(r)
    BY DEF Next, OwnerStarts, create_run, cancel_run, approve_run, reject_run, transition_run, Start,
       RequestStep, CommitState, _record_event, WriteAudit, enqueue_run_job, WorkerStep, process_jobs,
       ClaimRead, ClaimCount, ClaimNoEngagement, ClaimGranted, ClaimDenied, FailRun, Invoke, submit_step,
       TransitionRead, TransitionWrite, process_jobs_timeout, Commits, CommitStateTx, Faults, AbandonJob,
       ApiCrash, EditScope, vars, rows
  <2>2. PICK t \in stepTx : /\ t.run = r /\ t.row \in StepRow
                            /\ t.row.number = Len(steps[r]) + 1 /\ t.row.number <= PlanLen[r]
                            /\ steps' = [steps EXCEPT ![r] = Append(@, t.row)]
    BY <2>1, CommitAppends
  <2>3. Len(steps[r]) \in Nat /\ PlanLen[r] \in Nat
    BY ConstantsAssumption, LenProperties DEF TypeInv, TypeOK
  <2>4. /\ t.row = [number |-> Len(steps[r]) + 1, status |-> t.row.status]
        /\ t.row.status \in Ledger!StepStatus
    BY <2>2 DEF StepRow, StepStatus, Ledger!StepStatus
  <2>5. Ledger!Record(r, t.row.status)
    <3>1. Len(steps[r]) < PlanLen[r]
      BY <2>2, <2>3
    <3>2. steps' = [steps EXCEPT ![r] =
                      Append(steps[r], [number |-> Len(steps[r]) + 1, status |-> t.row.status])]
      BY <2>2, <2>4
    <3> QED
      BY <3>1, <3>2 DEF Ledger!Record
  <2> QED
    BY <2>4, <2>5 DEF Ledger!Next
<1> QED
  BY <1>1, <1>2, StepInvariance, PTL DEF Spec, LedgerSpec, Ledger!Spec

-----------------------------------------------------------------------------
(* Nothing executes without an approved plan. *)

(* PlanApproved, as a function of the decisions. *)
Approved(a, r) == \E i \in 1 .. Len(a[r]) : a[r][i] = [type |-> "plan", status |-> "approved"]

(* Every holder of a job - the list, a worker, a request about to enqueue  *)
(* it - has it from a plan approval that is already committed.             *)
ApprovedInv ==
  /\ \A i \in 1 .. Len(queue) : Approved(approvals, queue[i])
  /\ \A w \in Workers : wk[w].pc # "idle" => Approved(approvals, wk[w].run)
  /\ \A q \in Reqs : req[q].pc \in {"event", "audit", "enqueue"} /\ Enqueues(req[q]) =>
                       Approved(approvals, req[q].run)
  /\ \A q \in Reqs : req[q].pc = "enqueue" => Enqueues(req[q])

LEMMA InitApprovedInv == Init => ApprovedInv
  BY DEF Init, ApprovedInv, IdleReq, IdleWorker

(* Decisions are only ever added. *)
LEMMA CommitStateApproval ==
  ASSUME TypeInv, NEW q \in Reqs, CommitState(q)
  PROVE  /\ \A r \in Runs : Approved(approvals, r) => Approved(approvals', r)
         /\ Enqueues(req[q]) => Approved(approvals', req[q].run)
<1> DEFINE d == req[q]
           plan == [type |-> "plan", status |-> "approved"]
           old == approvals[d.run]
           new == DecisionRows(d)
<1>1. /\ d.run \in Runs
      /\ new \in Seq(Approval)
      /\ d.op = "approve" /\ d.seen = "AWAITING_PLAN_APPROVAL" => new = <<plan>>
      /\ Enqueues(d) => d.seen = "AWAITING_PLAN_APPROVAL"
  <2>1. d.pc = "write"
    BY DEF CommitState
  <2> QED
    BY <2>1, DecisionRowsLemma DEF TypeInv, ReqOK
<1>2. old \in Seq(Approval) /\ approvals \in [Runs -> Seq(Approval)]
  BY <1>1 DEF TypeInv, TypeOK
<1>3. approvals'[d.run] = old \o new /\ \A r \in Runs : r # d.run => approvals'[r] = approvals[r]
  BY <1>1, <1>2 DEF CommitState
<1> HIDE DEF d, new
<1>4. /\ Len(old) \in Nat /\ Len(new) \in Nat /\ Len(old \o new) = Len(old) + Len(new)
      /\ \A i \in 1 .. Len(old) + Len(new) : (old \o new)[i] = IF i <= Len(old) THEN old[i] ELSE new[i - Len(old)]
  BY <1>1, <1>2, ConcatProperties, LenProperties
<1>5. ASSUME NEW r \in Runs, Approved(approvals, r) PROVE Approved(approvals', r)
  <2>1. PICK i \in 1 .. Len(approvals[r]) : approvals[r][i] = plan
    BY <1>5 DEF Approved
  <2>2. CASE r = d.run
    <3>1. i \in 1 .. Len(approvals'[r]) /\ approvals'[r][i] = plan
      BY <1>3, <1>4, <2>1, <2>2
    <3> QED
      BY <3>1 DEF Approved
  <2>3. CASE r # d.run
    BY <1>3, <2>1, <2>3 DEF Approved
  <2> QED
    BY <2>2, <2>3
<1>6. ASSUME Enqueues(d) PROVE Approved(approvals', d.run)
  <2>1. new = <<plan>>
    BY <1>1, <1>6 DEF Enqueues
  <2>2. Len(new) = 1 /\ new[1] = plan
    BY <2>1
  <2>3. Len(old) + 1 \in 1 .. Len(approvals'[d.run]) /\ approvals'[d.run][Len(old) + 1] = plan
    BY <1>3, <1>4, <2>2
  <2> QED
    BY <2>3 DEF Approved
<1> QED
  BY <1>5, <1>6 DEF d

(* An action that leaves the decisions alone and creates no job holder. *)
LEMMA ApprovedFrame ==
  ASSUME ApprovedInv, approvals' = approvals, queue' = queue,
         \A w \in Workers : wk'[w].pc # "idle" => wk[w].pc # "idle" /\ wk'[w].run = wk[w].run,
         \A q \in Reqs : req'[q].pc \in {"event", "audit", "enqueue"} /\ Enqueues(req'[q]) =>
           \/ req'[q].run = req[q].run /\ req[q].pc \in {"event", "audit", "enqueue"} /\ Enqueues(req[q]),
         \A q \in Reqs : req'[q].pc = "enqueue" => Enqueues(req'[q])
  PROVE  ApprovedInv'
<1>1. \A r : Approved(approvals', r) <=> Approved(approvals, r)
  BY DEF Approved
<1>2. \A q \in Reqs : Enqueues(req[q])' <=> Enqueues(req'[q])
  BY DEF Enqueues
<1> QED
  BY <1>1, <1>2 DEF ApprovedInv

LEMMA RequestStepApproved ==
  ASSUME TypeInv, ApprovedInv, NEW q \in Reqs, RequestStep(q)
  PROVE  ApprovedInv'
<1> DEFINE d == req[q]
<1>1. CASE CommitState(q)
  <2>1. /\ \A r \in Runs : Approved(approvals, r) => Approved(approvals', r)
        /\ Enqueues(d) => Approved(approvals', d.run)
    BY <1>1, CommitStateApproval
  <2>2. /\ queue' = queue /\ wk' = wk /\ req'[q] = [d EXCEPT !.pc = "event"] /\ d \in Request
        /\ \A p \in Reqs : p # q => req'[p] = req[p]
    BY <1>1 DEF CommitState, TypeInv, TypeOK
  <2>3. \A i \in 1 .. Len(queue') : Approved(approvals', queue'[i])
    <3>1. \A i \in 1 .. Len(queue) : queue[i] \in Runs
      BY DEF TypeInv, TypeOK
    <3> QED
      BY <2>1, <2>2, <3>1 DEF ApprovedInv
  <2>4. \A w \in Workers : wk'[w].pc # "idle" => Approved(approvals', wk'[w].run)
    BY <2>1, <2>2 DEF ApprovedInv, TypeInv, WkOK
  <2>5. req'[q].pc = "event" /\ req'[q].run = d.run /\ (Enqueues(req'[q]) <=> Enqueues(d))
    BY <2>2 DEF Request, Enqueues
  <2>6. ASSUME NEW p \in Reqs, req'[p].pc \in {"event", "audit", "enqueue"}, Enqueues(req'[p])
        PROVE  Approved(approvals', req'[p].run)
    <3>1. CASE p = q
      BY <2>1, <2>5, <2>6, <3>1
    <3>2. CASE p # q
      BY <2>1, <2>2, <2>6, <3>2 DEF ApprovedInv, TypeInv, ReqOK
    <3> QED
      BY <3>1, <3>2
  <2>7. \A p \in Reqs : req'[p].pc = "enqueue" => Enqueues(req'[p])
    BY <2>2, <2>5 DEF ApprovedInv
  <2>8. \A p \in Reqs : Enqueues(req[p])' <=> Enqueues(req'[p])
    BY DEF Enqueues
  <2> QED
    BY <2>3, <2>4, <2>6, <2>7, <2>8 DEF ApprovedInv
<1>2. CASE _record_event(q) \/ WriteAudit(q)
  <2>1. approvals' = approvals /\ queue' = queue /\ wk' = wk
    BY <1>2 DEF _record_event, WriteAudit
  <2>2. \A p \in Reqs : p # q => req'[p] = req[p]
    BY <1>2 DEF _record_event, WriteAudit, TypeInv, TypeOK
  <2>3. d.pc \in {"event", "audit"} /\ d \in Request
    BY <1>2 DEF _record_event, WriteAudit, TypeInv, TypeOK
  <2>4. \/ req'[q] = IdleReq
        \/ req'[q] = [d EXCEPT !.pc = "audit"]
        \/ req'[q] = [d EXCEPT !.pc = "enqueue"] /\ Enqueues(d)
    BY <1>2 DEF _record_event, WriteAudit, TypeInv, TypeOK
  <2>5. /\ req'[q].pc \in {"event", "audit", "enqueue"} /\ Enqueues(req'[q]) =>
             req'[q].run = d.run /\ Enqueues(d)
        /\ req'[q].pc = "enqueue" => Enqueues(req'[q])
    <3>1. CASE req'[q] = IdleReq
      BY <3>1 DEF IdleReq
    <3>2. CASE req'[q] = [d EXCEPT !.pc = "audit"]
      BY <2>3, <3>2 DEF Request, Enqueues
    <3>3. CASE req'[q] = [d EXCEPT !.pc = "enqueue"] /\ Enqueues(d)
      BY <2>3, <3>3 DEF Request, Enqueues
    <3> QED
      BY <2>4, <3>1, <3>2, <3>3
  <2> QED
    BY <2>1, <2>2, <2>3, <2>5, ApprovedFrame DEF ApprovedInv
<1>3. CASE enqueue_run_job(q)
  <2>1. d.pc = "enqueue" /\ approvals' = approvals /\ wk' = wk /\ req' = [req EXCEPT ![q] = IdleReq]
    BY <1>3 DEF enqueue_run_job, rows
  <2>2. Approved(approvals, d.run) /\ d.run \in Runs
    BY <2>1 DEF ApprovedInv, TypeInv, ReqOK
  <2>3. \A i \in 1 .. Len(queue') : Approved(approvals, queue'[i])
    <3>1. queue \in Seq(Runs)
      BY DEF TypeInv, TypeOK
    <3>2. CASE queue' = queue
      BY <3>2 DEF ApprovedInv
    <3>3. CASE queue' = Append(queue, d.run)
      BY <2>2, <3>1, <3>3, AppendProperties DEF ApprovedInv
    <3> QED
      BY <1>3, <3>2, <3>3 DEF enqueue_run_job
  <2>4. \A r : Approved(approvals', r) <=> Approved(approvals, r)
    BY <2>1 DEF Approved
  <2>5. \A p \in Reqs : req'[p].pc # "idle" => req'[p] = req[p]
    BY <2>1 DEF TypeInv, TypeOK, IdleReq
  <2>6. \A p \in Reqs : Enqueues(req[p])' <=> Enqueues(req'[p])
    BY DEF Enqueues
  <2> QED
    BY <2>1, <2>3, <2>4, <2>5, <2>6 DEF ApprovedInv
<1> QED
  BY <1>1, <1>2, <1>3 DEF RequestStep

LEMMA WorkerStepApproved ==
  ASSUME TypeInv, ApprovedInv, NEW w \in Workers, WorkerStep(w)
  PROVE  ApprovedInv'
<1>1. approvals' = approvals /\ req' = req
  BY DEF WorkerStep, process_jobs, ClaimRead, ClaimCount, ClaimNoEngagement, ClaimGranted, ClaimDenied,
     FailRun, Invoke, submit_step, TransitionRead, TransitionWrite, rows
<1>2. CASE process_jobs(w)
  <2>1. queue # <<>> /\ queue \in Seq(Runs) /\ queue' = Tail(queue)
        /\ wk' = [wk EXCEPT ![w].pc = "claim", ![w].run = Head(queue)]
    BY <1>2 DEF process_jobs, TypeInv, TypeOK
  <2>2. /\ Len(queue) \in Nat \ {0} /\ Len(Tail(queue)) = Len(queue) - 1 /\ Head(queue) = queue[1]
        /\ \A i \in 1 .. Len(Tail(queue)) : Tail(queue)[i] = queue[i + 1]
    BY <2>1, HeadTailProperties, EmptySeq
  <2>3. wk'[w].run = Head(queue) /\ \A v \in Workers : v # w => wk'[v] = wk[v]
    BY <2>1 DEF TypeInv, TypeOK, Worker
  <2>4. Approved(approvals, Head(queue)) /\ \A i \in 1 .. Len(queue') : Approved(approvals, queue'[i])
    BY <2>1, <2>2 DEF ApprovedInv
  <2>5. \A r : Approved(approvals', r) <=> Approved(approvals, r)
    BY <1>1 DEF Approved
  <2>6. \A v \in Workers : wk'[v].pc # "idle" => Approved(approvals, wk'[v].run)
    BY <2>3, <2>4 DEF ApprovedInv
  <2>7. \A p \in Reqs : Enqueues(req[p])' <=> Enqueues(req[p])
    BY <1>1 DEF Enqueues
  <2> QED
    BY <1>1, <2>4, <2>5, <2>6, <2>7 DEF ApprovedInv
<1>3. CASE ~ process_jobs(w)
  <2>1. queue' = queue
    BY <1>3 DEF WorkerStep, ClaimRead, ClaimCount, ClaimNoEngagement, ClaimGranted, ClaimDenied,
       FailRun, Invoke, submit_step, TransitionRead, TransitionWrite
  <2>2. wk[w].pc # "idle"
    BY <1>3 DEF WorkerStep, ClaimRead, ClaimCount, ClaimNoEngagement, ClaimGranted, ClaimDenied,
       Invoke, submit_step, TransitionRead, TransitionWrite
  <2>3. wk'[w].pc # "idle" => wk'[w].run = wk[w].run
    <3>1. wk[w] \in Worker
      BY DEF TypeInv, TypeOK
    <3>2. CASE wk'[w] = IdleWorker
      BY <3>2 DEF IdleWorker
    <3>3. CASE wk'[w] # IdleWorker
      <4>1. CASE ClaimRead(w)
        BY <3>1, <3>3, <4>1 DEF ClaimRead, TypeInv, TypeOK, Worker
      <4>2. CASE ClaimCount(w)
        BY <3>1, <4>2 DEF ClaimCount, TypeInv, TypeOK, Worker
      <4>3. CASE ClaimNoEngagement(w) \/ ClaimDenied(w) \/ TransitionWrite(w)
        BY <3>3, <4>3 DEF ClaimNoEngagement, ClaimDenied, FailRun, TransitionWrite, TypeInv, TypeOK
      <4>4. CASE ClaimGranted(w) \/ Invoke(w) \/ submit_step(w)
        BY <3>1, <4>4 DEF ClaimGranted, Invoke, submit_step, TypeInv, TypeOK, Worker
      <4>5. CASE TransitionRead(w)
        BY <3>1, <3>3, <4>5 DEF TransitionRead, TypeInv, TypeOK, Worker
      <4> QED
        BY <1>3, <4>1, <4>2, <4>3, <4>4, <4>5 DEF WorkerStep
    <3> QED
      BY <3>2, <3>3
  <2>4. \A v \in Workers : v # w => wk'[v] = wk[v]
    BY <1>3 DEF WorkerStep, ClaimRead, ClaimCount, ClaimNoEngagement, ClaimGranted, ClaimDenied,
       FailRun, Invoke, submit_step, TransitionRead, TransitionWrite, TypeInv, TypeOK
  <2> QED
    BY <1>1, <2>1, <2>2, <2>3, <2>4, ApprovedFrame DEF ApprovedInv
<1> QED
  BY <1>2, <1>3

(* Every owner request but create_run begins with Start. *)
LEMMA StartsAre ==
  ASSUME OwnerStarts
  PROVE  \E q \in Reqs, r \in Runs :
           \/ create_run(q, r)
           \/ \E op \in OwnerOps, target \in RunState \union {"NONE"} : Start(q, op, r, target)
<1>1. PICK q \in Reqs, r \in Runs :
        \/ create_run(q, r) \/ cancel_run(q, r) \/ approve_run(q, r) \/ reject_run(q, r)
        \/ \E target \in OwnerTargets : transition_run(q, r, target)
  BY DEF OwnerStarts
<1>2. ASSUME NEW op, NEW target, Start(q, op, r, target) PROVE op \in OwnerOps
  BY <1>2 DEF Start
<1>3. CASE cancel_run(q, r) \/ reject_run(q, r)
  <2>1. \E op : Start(q, op, r, "CANCELLED")
    BY <1>3 DEF cancel_run, reject_run
  <2> QED
    BY <2>1, <1>2 DEF RunState
<1>4. CASE approve_run(q, r)
  <2>1. \E gate \in ApprovalGates : Start(q, "approve", r, gate.next)
    BY <1>4 DEF approve_run
  <2>2. \A gate \in ApprovalGates : gate.next \in RunState
    BY DEF ApprovalGates, RunState
  <2> QED
    BY <2>1, <2>2, <1>2
<1>5. CASE \E target \in OwnerTargets : transition_run(q, r, target)
  <2>1. \E target \in OwnerTargets : Start(q, "transition", r, target)
    BY <1>5 DEF transition_run
  <2> QED
    BY <2>1, <1>2, ConstantsAssumption
<1> QED
  BY <1>1, <1>3, <1>4, <1>5

LEMMA NextApprovedInv == TypeInv /\ ApprovedInv /\ [Next]_vars => ApprovedInv'
<1> SUFFICES ASSUME TypeInv, ApprovedInv, [Next]_vars PROVE ApprovedInv'
  OBVIOUS
<1>1. CASE \E q \in Reqs : RequestStep(q)
  BY <1>1, RequestStepApproved
<1>2. CASE \E w \in Workers : WorkerStep(w)
  BY <1>2, WorkerStepApproved
<1>3. CASE OwnerStarts
  <2>1. approvals' = approvals /\ queue' = queue /\ wk' = wk
    BY <1>3 DEF OwnerStarts, create_run, cancel_run, approve_run, reject_run, transition_run, Start, rows
  <2>2. PICK q \in Reqs : /\ req[q].pc = "idle"
                          /\ req'[q].pc = "write" \/ (req'[q].pc = "event" /\ req'[q].op = "create")
                          /\ \A p \in Reqs : p # q => req'[p] = req[p]
    <3>1. PICK q \in Reqs : /\ req[q].pc = "idle"
                            /\ \E record : /\ req' = [req EXCEPT ![q] = record]
                                           /\ record.pc = "write" \/ (record.pc = "event" /\ record.op = "create")
      <4>1. PICK q \in Reqs, r \in Runs :
              \/ create_run(q, r)
              \/ \E op \in OwnerOps, target \in RunState \union {"NONE"} : Start(q, op, r, target)
        BY <1>3, StartsAre
      <4>2. CASE create_run(q, r)
        <5> DEFINE record == [pc |-> "event", op |-> "create", run |-> r, seen |-> "NONE", to |-> "DRAFT"]
        <5>1. /\ req[q].pc = "idle" /\ req' = [req EXCEPT ![q] = record]
              /\ record.pc = "event" /\ record.op = "create"
          BY <4>2 DEF create_run
        <5> QED
          BY <5>1
      <4>3. CASE ~ create_run(q, r)
        <5>1. PICK op \in OwnerOps, target \in RunState \union {"NONE"} : Start(q, op, r, target)
          BY <4>1, <4>3
        <5> DEFINE record == [pc |-> "write", op |-> op, run |-> r, seen |-> runState[r], to |-> target]
        <5>2. req[q].pc = "idle" /\ req' = [req EXCEPT ![q] = record] /\ record.pc = "write"
          BY <5>1 DEF Start
        <5> QED
          BY <5>2
      <4> QED
        BY <4>2, <4>3
    <3> QED
      BY <3>1 DEF TypeInv, TypeOK
  <2>3. /\ req'[q].pc # "enqueue"
        /\ ~ (req'[q].pc \in {"event", "audit", "enqueue"} /\ Enqueues(req'[q]))
    BY <2>2 DEF Enqueues
  <2> QED
    BY <2>1, <2>2, <2>3, ApprovedFrame DEF ApprovedInv
<1>4. CASE Commits \/ (\E r \in Runs : EditScope(r)) \/ (\E w \in Workers : process_jobs_timeout(w))
           \/ UNCHANGED vars
  <2>1. approvals' = approvals /\ queue' = queue /\ wk' = wk /\ req' = req
    BY <1>4 DEF Commits, CommitStateTx, CommitStepTx, EditScope, process_jobs_timeout, vars, rows
  <2> QED
    BY <2>1, ApprovedFrame DEF ApprovedInv
<1>5. CASE Faults
  <2>1. approvals' = approvals /\ queue' = queue
    BY <1>5 DEF Faults, AbandonJob, ApiCrash, rows
  <2>2. \A w \in Workers : wk'[w].pc # "idle" => wk'[w] = wk[w]
    BY <1>5 DEF Faults, AbandonJob, ApiCrash, IdleWorker, TypeInv, TypeOK
  <2>3. \A q \in Reqs : req'[q].pc # "idle" => req'[q] = req[q]
    BY <1>5 DEF Faults, AbandonJob, ApiCrash, IdleReq, TypeInv, TypeOK
  <2> QED
    BY <2>1, <2>2, <2>3, ApprovedFrame DEF ApprovedInv
<1> QED
  BY <1>1, <1>2, <1>3, <1>4, <1>5 DEF Next

LEMMA ApprovedInvariance == Spec => [](TypeInv /\ ApprovedInv)
  BY InitTypeInv, NextTypeInv, InitApprovedInv, NextApprovedInv, PTL DEF Spec

(* Nothing is queued for a worker, and no worker touches a run, unless its *)
(* plan was approved by a recorded ApprovalRequest.                        *)
THEOREM NothingExecutesUnapproved == Spec => []ExecutionApproved
<1>1. ApprovedInv => ExecutionApproved
  BY DEF ApprovedInv, ExecutionApproved, Holds, Approved, PlanApproved
<1> QED
  BY <1>1, ApprovedInvariance, PTL

(* When the engagement a run names is one of its own project, the approval *)
(* check of the scope validator never denies a step a worker claims for    *)
(* it: the approval of its own plan always satisfies the check.            *)
THEOREM ApprovalCheckIsVacuous == Spec => []ApprovalCheckNeverDenies
<1>1. TypeInv /\ ApprovedInv => ApprovalCheckNeverDenies
  <2> SUFFICES ASSUME TypeInv, ApprovedInv, NEW w \in Workers, wk[w].pc = "scope",
                      EngagedAtHome(wk[w].run)
               PROVE  _has_approval(wk[w].run)
    BY DEF ApprovalCheckNeverDenies
  <2>1. wk[w].run \in Runs /\ Approved(approvals, wk[w].run)
    BY DEF TypeInv, WkOK, ApprovedInv
  <2> QED
    BY <2>1 DEF Approved, _has_approval, EngagedAtHome
<1> QED
  BY <1>1, ApprovedInvariance, PTL

=============================================================================
