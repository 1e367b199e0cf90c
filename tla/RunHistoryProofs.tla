--------------------------- MODULE RunHistoryProofs ---------------------------
(***************************************************************************)
(* What the recorded history of a run is worth, for every value of         *)
(* RunSystem's constants: a reported completion is backed by the step      *)
(* table, only a stale read gets round the transition table, the trail     *)
(* has an entry for every change and invents none, no job appears without  *)
(* an approval, and the concurrency limit holds as long as nothing but its *)
(* own job can end a run.                                                  *)
(***************************************************************************)
EXTENDS RunSafetyProofs, FiniteSetTheorems

-----------------------------------------------------------------------------
(* A completion is backed by the step table. *)

Done(table, r) == Len(table[r]) >= PlanLen[r]

(* A worker on its way to report its run COMPLETED. *)
Reports(record) == record.pc \in {"transition", "write"} /\ record.status = "completed"

Completion(event) == event.by = "worker" /\ event.to = "COMPLETED"

(* Whoever carries a completion - a worker, an open transaction, an event - *)
(* got it from a count of a full step table, and the table only grows.      *)
CompletionInv ==
  /\ \A r \in Runs : \A i \in 1 .. Len(events[r]) : Completion(events[r][i]) => Done(steps, r)
  /\ \A w \in Workers : Reports(wk[w]) => Done(steps, wk[w].run)
  /\ \A r \in Runs : stateTx[r].to = "COMPLETED" => Done(steps, r)

LEMMA InitCompletionInv == Init => CompletionInv
<1> SUFFICES ASSUME Init PROVE CompletionInv
  OBVIOUS
<1>1. \A r \in Runs : Prepared[r] \in 0 .. 3
  BY ConstantsAssumption DEF PreparationPath
<1>2. ASSUME NEW r \in Runs, NEW i \in 1 .. Len(events[r]) PROVE ~ Completion(events[r][i])
  <2>1. PreparationEvents \in Seq(Event) /\ Len(PreparationEvents) = 3
    BY DEF PreparationEvents, Event, Ev, States, RunState
  <2>2. \A j \in 1 .. Prepared[r] : PreparationEvents[j] \in Event
    <3>1. \A j \in 1 .. 3 : PreparationEvents[j] \in Event
      BY DEF PreparationEvents, Event, Ev, States, RunState
    <3> QED
      BY <1>1, <3>1
  <2>3. Len(events[r]) = Prepared[r] /\ \A j \in 1 .. Prepared[r] : events[r][j] = PreparationEvents[j]
    BY <1>1, <2>2, SubSeqProperties DEF Init
  <2>4. \A j \in 1 .. 3 : PreparationEvents[j].by = "owner"
    BY DEF PreparationEvents, Ev
  <2> QED
    BY <1>1, <2>3, <2>4 DEF Completion
<1> QED
  BY <1>2 DEF Init, CompletionInv, IdleWorker, Reports, NoTx

(* No row of the step table is ever removed. *)
LEMMA StepsGrow ==
  ASSUME TypeInv, StepInv, [Next]_vars
  PROVE  \A r \in Runs : Len(steps[r]) \in Nat /\ Len(steps'[r]) \in Nat /\ Len(steps[r]) <= Len(steps'[r])
<1>1. steps \in [Runs -> Seq(StepRow)]
  BY DEF TypeInv, TypeOK
<1>2. CASE steps' = steps
  BY <1>1, <1>2, LenProperties
<1>3. CASE steps' # steps
  <2>1. PICK r \in Runs : CommitStepTx(r)
    BY <1>3 DEF Next, OwnerStarts, create_run, cancel_run, approve_run, reject_run, transition_run, Start,
       RequestStep, CommitState, _record_event, WriteAudit, enqueue_run_job, WorkerStep, process_jobs,
       ClaimRead, ClaimCount, ClaimNoEngagement, ClaimGranted, ClaimDenied, FailRun, Invoke, submit_step,
       TransitionRead, TransitionWrite, process_jobs_timeout, Commits, CommitStateTx, Faults, AbandonJob,
       ApiCrash, EditScope, vars, rows
  <2>2. PICK t \in stepTx : t.row \in StepRow /\ steps' = [steps EXCEPT ![r] = Append(@, t.row)]
    BY <2>1, CommitAppends
  <2>3. Len(Append(steps[r], t.row)) = Len(steps[r]) + 1
    BY <1>1, <2>2, AppendProperties
  <2>4. \A s \in Runs : Len(steps[s]) \in Nat
    BY <1>1, LenProperties
  <2> QED
    BY <1>1, <2>2, <2>3, <2>4
<1> QED
  BY <1>2, <1>3

LEMMA DoneStays ==
  ASSUME TypeInv, StepInv, [Next]_vars, NEW r \in Runs, Done(steps, r)
  PROVE  Done(steps', r)
  BY StepsGrow, ConstantsAssumption DEF Done

(* An action whose completions are all old or are backed already. *)
LEMMA CompletionFrame ==
  ASSUME TypeInv, StepInv, [Next]_vars, CompletionInv,
         \A r \in Runs : \A i \in 1 .. Len(events'[r]) : Completion(events'[r][i]) =>
           (\E j \in 1 .. Len(events[r]) : events'[r][i] = events[r][j]) \/ Done(steps, r),
         \A w \in Workers : Reports(wk'[w]) =>
           wk'[w].run \in Runs /\ (Done(steps, wk'[w].run) \/ (Reports(wk[w]) /\ wk'[w].run = wk[w].run)),
         \A r \in Runs : stateTx'[r].to = "COMPLETED" => stateTx[r].to = "COMPLETED" \/ Done(steps, r)
  PROVE  CompletionInv'
<1>1. \A r \in Runs : \A i \in 1 .. Len(events'[r]) : Completion(events'[r][i]) => Done(steps', r)
  BY DoneStays DEF CompletionInv
<1>2. \A w \in Workers : Reports(wk'[w]) => Done(steps', wk'[w].run)
  BY DoneStays DEF CompletionInv
<1>3. \A r \in Runs : stateTx'[r].to = "COMPLETED" => Done(steps', r)
  BY DoneStays DEF CompletionInv
<1>4. /\ \A w \in Workers : Reports(wk[w])' <=> Reports(wk'[w])
      /\ \A r \in Runs : Done(steps, r)' <=> Done(steps', r)
      /\ \A w \in Workers : Done(steps, wk[w].run)' <=> Done(steps', wk'[w].run)
      /\ \A r \in Runs : \A i \in 1 .. Len(events'[r]) : Completion(events[r][i])' <=> Completion(events'[r][i])
  BY DEF Reports, Done, Completion
<1> QED
  BY <1>1, <1>2, <1>3, <1>4 DEF CompletionInv

(* What is in a trail after events were added at its end. *)
LEMMA TrailWithMore ==
  ASSUME NEW old \in Seq(Event), NEW new \in Seq(Event), NEW i \in 1 .. Len(old \o new)
  PROVE  \/ \E j \in 1 .. Len(old) : (old \o new)[i] = old[j]
         \/ \E j \in 1 .. Len(new) : (old \o new)[i] = new[j]
<1>1. /\ Len(old) \in Nat /\ Len(new) \in Nat /\ Len(old \o new) = Len(old) + Len(new)
      /\ (old \o new)[i] = IF i <= Len(old) THEN old[i] ELSE new[i - Len(old)]
  BY ConcatProperties, LenProperties
<1>2. CASE i <= Len(old)
  BY <1>1, <1>2
<1>3. CASE ~ (i <= Len(old))
  <2>1. i - Len(old) \in 1 .. Len(new) /\ (old \o new)[i] = new[i - Len(old)]
    BY <1>1, <1>3
  <2> QED
    BY <2>1
<1> QED
  BY <1>2, <1>3

(* The events an action adds at the end of the trail of one run. *)
LEMMA AppendedEvents ==
  ASSUME NEW r \in Runs, NEW new \in Seq(Event), TypeInv,
         events' = [events EXCEPT ![r] = @ \o new]
  PROVE  \A s \in Runs : \A i \in 1 .. Len(events'[s]) :
           \/ \E j \in 1 .. Len(events[s]) : events'[s][i] = events[s][j]
           \/ s = r /\ \E j \in 1 .. Len(new) : events'[s][i] = new[j]
<1> DEFINE old  == events[r]
           both == old \o new
<1>1. old \in Seq(Event) /\ events'[r] = both /\ \A s \in Runs : s # r => events'[s] = events[s]
  BY DEF TypeInv, TypeOK
<1>2. \A i \in 1 .. Len(both) : \/ \E j \in 1 .. Len(old) : both[i] = old[j]
                                \/ \E j \in 1 .. Len(new) : both[i] = new[j]
  BY <1>1, TrailWithMore
<1> HIDE DEF both
<1> QED
  BY <1>1, <1>2

(* Events that are no completions may be appended to any trail. *)
LEMMA NoNewCompletion ==
  ASSUME TypeInv, NEW r \in Runs, NEW new \in Seq(Event),
         events' = [events EXCEPT ![r] = @ \o new],
         \A j \in 1 .. Len(new) : ~ Completion(new[j])
  PROVE  \A s \in Runs : \A i \in 1 .. Len(events'[s]) : Completion(events'[s][i]) =>
           \E j \in 1 .. Len(events[s]) : events'[s][i] = events[s][j]
<1> DEFINE old  == events[r]
           both == old \o new
<1>1. old \in Seq(Event) /\ events'[r] = both /\ \A s \in Runs : s # r => events'[s] = events[s]
  BY DEF TypeInv, TypeOK
<1>2. \A i \in 1 .. Len(both) : \/ \E j \in 1 .. Len(old) : both[i] = old[j]
                                \/ \E j \in 1 .. Len(new) : both[i] = new[j]
  BY <1>1, TrailWithMore
<1> HIDE DEF both
<1> QED
  BY <1>1, <1>2

(* The trail of run r gets one more event. *)
LEMMA OneNewEvent ==
  ASSUME TypeInv, NEW r \in Runs, NEW e \in Event,
         events' = [events EXCEPT ![r] = Append(@, e)]
  PROVE  /\ events' = [events EXCEPT ![r] = @ \o <<e>>]
         /\ <<e>> \in Seq(Event) /\ Len(<<e>>) = 1 /\ <<e>>[1] = e
<1>1. events[r] \in Seq(Event)
  BY DEF TypeInv, TypeOK
<1>2. Append(events[r], e) = events[r] \o <<e>>
  BY <1>1, AppendIsConcat
<1> QED
  BY <1>2

LEMMA FailureEventsFail ==
  ASSUME NEW w
  PROVE  \A j \in 1 .. Len(FailureEvents(w)) : ~ Completion(FailureEvents(w)[j])
<1> DEFINE claimed == Ev("QUEUED", "RUNNING", "worker")
           failed  == Ev("RUNNING", "FAILED", "worker")
<1>1. ~ Completion(claimed) /\ ~ Completion(failed)
  BY DEF Completion, Ev
<1> HIDE DEF claimed, failed
<1>2. FailureEvents(w) = <<claimed>> \o <<failed>> \/ FailureEvents(w) = <<>> \o <<failed>>
  BY DEF FailureEvents, claimed, failed
<1>3. <<>> \o <<failed>> = <<failed>>
  <2>1. <<failed>> \in Seq({failed})
    OBVIOUS
  <2> QED
    BY <2>1, ConcatEmptySeq
<1>4. /\ Len(<<claimed>> \o <<failed>>) = 2
      /\ (<<claimed>> \o <<failed>>)[1] = claimed /\ (<<claimed>> \o <<failed>>)[2] = failed
  <2>1. <<claimed>> \in Seq({claimed, failed}) /\ <<failed>> \in Seq({claimed, failed})
    OBVIOUS
  <2> QED
    BY <2>1, ConcatProperties
<1> QED
  BY <1>1, <1>2, <1>3, <1>4

(* The steps of a worker that neither report nor write the run. *)
LEMMA QuietWorkerCompletion ==
  ASSUME TypeInv, StepInv, [Next]_vars, CompletionInv, NEW w \in Workers,
         events' = events,
         \A v \in Workers : v # w => wk'[v] = wk[v],
         Reports(wk'[w]) => wk'[w].run \in Runs /\ (Done(steps, wk'[w].run) \/ (Reports(wk[w]) /\ wk'[w].run = wk[w].run)),
         \A r \in Runs : stateTx'[r].to = "COMPLETED" => stateTx[r].to = "COMPLETED" \/ Done(steps, r)
  PROVE  CompletionInv'
<1>1. \A r \in Runs : \A i \in 1 .. Len(events'[r]) : Completion(events'[r][i]) =>
           (\E j \in 1 .. Len(events[r]) : events'[r][i] = events[r][j]) \/ Done(steps, r)
  OBVIOUS
<1>2. \A v \in Workers : Reports(wk[v]) => wk[v].run \in Runs
  BY DEF TypeInv, WkOK, Reports
<1>3. \A v \in Workers : Reports(wk'[v]) =>
         wk'[v].run \in Runs /\ (Done(steps, wk'[v].run) \/ (Reports(wk[v]) /\ wk'[v].run = wk[v].run))
  BY <1>2
<1> QED
  BY <1>1, <1>3, CompletionFrame

LEMMA WorkerStepCompletion ==
  ASSUME TypeInv, StepInv, [Next]_vars, CompletionInv, NEW w \in Workers, WorkerStep(w)
  PROVE  CompletionInv'
<1> DEFINE r == wk[w].run
<1>0. wk[w] \in Worker /\ wk \in [Workers -> Worker] /\ (wk[w].pc # "idle" => r \in Runs)
  BY DEF TypeInv, TypeOK, WkOK
<1>1. CASE process_jobs(w) \/ Invoke(w) \/ ClaimRead(w)
  <2>1. events' = events /\ stateTx' = stateTx
    BY <1>1 DEF process_jobs, Invoke, ClaimRead, rows, tx
  <2>2. \A v \in Workers : v # w => wk'[v] = wk[v]
    BY <1>0, <1>1 DEF process_jobs, Invoke, ClaimRead
  <2>3. ~ Reports(wk'[w])
    <3>1. CASE process_jobs(w)
      BY <1>0, <3>1 DEF process_jobs, Reports, Worker
    <3>2. CASE Invoke(w)
      BY <1>0, <3>2 DEF Invoke, Reports, Worker
    <3>3. CASE ClaimRead(w)
      BY <1>0, <3>3 DEF ClaimRead, Reports, Worker, IdleWorker
    <3> QED
      BY <1>1, <3>1, <3>2, <3>3
  <2> QED
    BY <2>1, <2>2, <2>3, QuietWorkerCompletion
<1>2. CASE ClaimCount(w)
  <2> DEFINE done == completed_count(r) >= PlanLen[r]
  <2>1. events' = events /\ r \in Runs /\ wk[w].pc = "count"
    BY <1>0, <1>2 DEF ClaimCount, rows
  <2>2. \A v \in Workers : v # w => wk'[v] = wk[v]
    BY <1>0, <1>2 DEF ClaimCount
  <2>3. Reports(wk'[w]) => wk'[w].run = r /\ Done(steps, r)
    <3>1. CASE done
      <4>1. wk'[w].run = r
        BY <1>0, <1>2, <3>1 DEF ClaimCount, Worker
      <4> QED
        BY <3>1, <4>1 DEF completed_count, Done
    <3>2. CASE ~ done
      <4>1. wk'[w].pc = "scope"
        BY <1>0, <1>2, <3>2 DEF ClaimCount, Worker
      <4> QED
        BY <4>1 DEF Reports
    <3> QED
      BY <3>1, <3>2
  <2>4. \A s \in Runs : stateTx'[s].to = "COMPLETED" => stateTx[s].to = "COMPLETED"
    <3>1. stateTx' = stateTx \/ stateTx' = [stateTx EXCEPT ![r] = Tx("QUEUED", "RUNNING", done)]
      BY <1>2 DEF ClaimCount, Claims
    <3>2. Tx("QUEUED", "RUNNING", done).to = "RUNNING"
      BY DEF Tx
    <3>3. stateTx \in [Runs -> TxRecord]
      BY DEF TypeInv, TypeOK
    <3> HIDE DEF done
    <3> QED
      BY <2>1, <3>1, <3>2, <3>3
  <2> HIDE DEF done
  <2> QED
    BY <2>1, <2>2, <2>3, <2>4, QuietWorkerCompletion
<1>3. CASE ClaimNoEngagement(w) \/ ClaimDenied(w)
  <2>1. /\ events' = [events EXCEPT ![r] = @ \o FailureEvents(w)]
        /\ wk' = [wk EXCEPT ![w] = IdleWorker]
        /\ stateTx' = stateTx \/ stateTx' = [stateTx EXCEPT ![r] = NoTx]
    BY <1>3 DEF ClaimNoEngagement, ClaimDenied, FailRun
  <2>2. r \in Runs
    BY <1>0, <1>3 DEF ClaimNoEngagement, ClaimDenied
  <2>3. \A s \in Runs : \A i \in 1 .. Len(events'[s]) : Completion(events'[s][i]) =>
          \E j \in 1 .. Len(events[s]) : events'[s][i] = events[s][j]
    BY <2>1, <2>2, FailureEventsLemma, FailureEventsFail, NoNewCompletion
  <2>4. \A v \in Workers : Reports(wk'[v]) => wk'[v].run \in Runs /\ Reports(wk[v]) /\ wk'[v].run = wk[v].run
    BY <1>0, <2>1 DEF Reports, IdleWorker, TypeInv, WkOK
  <2>5. \A s \in Runs : stateTx'[s].to = "COMPLETED" => stateTx[s].to = "COMPLETED"
    <3>1. stateTx \in [Runs -> TxRecord] /\ NoTx.to = "NONE"
      BY DEF NoTx, TypeInv, TypeOK
    <3> QED
      BY <2>1, <2>2, <3>1
  <2> QED
    BY <2>3, <2>4, <2>5, CompletionFrame
<1>4. CASE ClaimGranted(w)
  <2>1. events' = events /\ r \in Runs /\ wk' = [wk EXCEPT ![w].pc = "invoke"]
    BY <1>0, <1>4 DEF ClaimGranted, rows
  <2>2. ~ Reports(wk'[w]) /\ \A v \in Workers : v # w => wk'[v] = wk[v]
    BY <1>0, <2>1 DEF Reports, Worker
  <2>3. \A s \in Runs : stateTx'[s].to = stateTx[s].to
    <3>1. stateTx' = stateTx \/ stateTx' = [stateTx EXCEPT ![r] = [stateTx[r] EXCEPT !.replied = TRUE]]
      BY <1>4 DEF ClaimGranted
    <3>2. \A s \in Runs : stateTx[s] \in TxRecord
      BY DEF TypeInv, TypeOK
    <3>3. [stateTx[r] EXCEPT !.replied = TRUE].to = stateTx[r].to
      BY <2>1, <3>2 DEF TxRecord
    <3> QED
      BY <2>1, <3>1, <3>3 DEF TypeInv, TypeOK
  <2> QED
    BY <2>1, <2>2, <2>3, QuietWorkerCompletion
<1>5. CASE submit_step(w)
  <2>1. /\ events' = events /\ stateTx' = stateTx
        /\ wk' = [wk EXCEPT ![w].pc = IF wk[w].status = "completed" THEN "claim" ELSE "transition"]
    BY <1>5 DEF submit_step, rows
  <2>2. ~ Reports(wk'[w]) /\ \A v \in Workers : v # w => wk'[v] = wk[v]
    BY <1>0, <2>1 DEF Reports, Worker
  <2> QED
    BY <2>1, <2>2, QuietWorkerCompletion
<1>6. CASE TransitionRead(w)
  <2>1. events' = events /\ stateTx' = stateTx /\ wk[w].pc = "transition" /\ r \in Runs
    BY <1>0, <1>6 DEF TransitionRead, rows, tx
  <2>2. /\ wk'[w] = IdleWorker \/ wk'[w] = [wk[w] EXCEPT !.pc = "write", !.seen = runState[r]]
        /\ \A v \in Workers : v # w => wk'[v] = wk[v]
    BY <1>0, <1>6 DEF TransitionRead
  <2>3. Reports(wk'[w]) => Reports(wk[w]) /\ wk'[w].run = r
    <3>1. CASE wk'[w] = IdleWorker
      BY <3>1 DEF Reports, IdleWorker
    <3>2. CASE wk'[w] = [wk[w] EXCEPT !.pc = "write", !.seen = runState[r]]
      BY <1>0, <2>1, <3>2 DEF Reports, Worker
    <3> QED
      BY <2>2, <3>1, <3>2
  <2> QED
    BY <2>1, <2>2, <2>3, QuietWorkerCompletion
<1>7. CASE TransitionWrite(w)
  <2>1. /\ events' = events /\ wk[w].pc = "write" /\ r \in Runs
        /\ wk' = [wk EXCEPT ![w] = IdleWorker]
        /\ stateTx' = [stateTx EXCEPT ![r] = Tx(wk[w].seen, TargetOf(w), TRUE)]
    BY <1>0, <1>7 DEF TransitionWrite, rows
  <2>2. ~ Reports(wk'[w]) /\ \A v \in Workers : v # w => wk'[v] = wk[v]
    BY <1>0, <2>1 DEF Reports, IdleWorker
  <2>3. TargetOf(w) = "COMPLETED" => Done(steps, r)
    BY <2>1 DEF TargetOf, Reports, CompletionInv
  <2>4. \A s \in Runs : stateTx'[s].to = "COMPLETED" => stateTx[s].to = "COMPLETED" \/ Done(steps, s)
    BY <2>1, <2>3 DEF TypeInv, TypeOK, Tx
  <2> QED
    BY <2>1, <2>2, <2>4, QuietWorkerCompletion
<1> QED
  BY <1>1, <1>2, <1>3, <1>4, <1>5, <1>6, <1>7 DEF WorkerStep

LEMMA NextCompletionInv == TypeInv /\ StepInv /\ CompletionInv /\ [Next]_vars => CompletionInv'
<1> SUFFICES ASSUME TypeInv, StepInv, CompletionInv, [Next]_vars PROVE CompletionInv'
  OBVIOUS
<1>0. /\ events \in [Runs -> Seq(Event)] /\ stateTx \in [Runs -> TxRecord] /\ wk \in [Workers -> Worker]
      /\ \A w \in Workers : Reports(wk[w]) => wk[w].run \in Runs
  BY DEF TypeInv, TypeOK, WkOK, Reports
<1>1. CASE events' = events /\ stateTx' = stateTx /\ wk' = wk
  BY <1>0, <1>1, CompletionFrame
<1>2. CASE \E w \in Workers : WorkerStep(w)
  BY <1>2, WorkerStepCompletion
<1>3. CASE \E q \in Reqs : _record_event(q)
  <2>1. PICK q \in Reqs : _record_event(q)
    BY <1>3
  <2> DEFINE d == req[q]
             e == Ev(d.seen, d.to, "owner")
  <2>2. d.run \in Runs /\ d.to \in RunState /\ d.seen \in States
    BY <2>1 DEF _record_event, TypeInv, TypeOK, ReqOK, Request
  <2>3. e \in Event /\ ~ Completion(e)
    BY <2>2 DEF Ev, Event, Completion
  <2>4. /\ events' = [events EXCEPT ![d.run] = Append(@, e)]
        /\ stateTx' = stateTx /\ wk' = wk
    BY <2>1 DEF _record_event, tx
  <2> HIDE DEF d, e
  <2>5. /\ events' = [events EXCEPT ![d.run] = @ \o <<e>>]
        /\ <<e>> \in Seq(Event) /\ Len(<<e>>) = 1 /\ <<e>>[1] = e
    BY <2>2, <2>3, <2>4, OneNewEvent
  <2>6. \A j \in 1 .. Len(<<e>>) : ~ Completion(<<e>>[j])
    BY <2>3, <2>5
  <2>7. \A s \in Runs : \A i \in 1 .. Len(events'[s]) : Completion(events'[s][i]) =>
          \E j \in 1 .. Len(events[s]) : events'[s][i] = events[s][j]
    BY <2>2, <2>5, <2>6, NoNewCompletion
  <2> QED
    BY <1>0, <2>4, <2>7, CompletionFrame
<1>4. CASE \E r \in Runs : CommitStateTx(r)
  <2>1. PICK r \in Runs : CommitStateTx(r)
    BY <1>4
  <2> DEFINE e == Ev(stateTx[r].from, stateTx[r].to, "worker")
  <2>2. e \in Event /\ (Completion(e) => Done(steps, r))
    BY <2>1 DEF CommitStateTx, TypeInv, TypeOK, LockOK, TxRecord, Ev, Event, Completion, CompletionInv
  <2>3. /\ events' = [events EXCEPT ![r] = Append(@, e)]
        /\ stateTx' = [stateTx EXCEPT ![r] = NoTx] /\ wk' = wk
    BY <2>1 DEF CommitStateTx
  <2> HIDE DEF e
  <2>4. /\ events' = [events EXCEPT ![r] = @ \o <<e>>]
        /\ <<e>> \in Seq(Event) /\ Len(<<e>>) = 1 /\ <<e>>[1] = e
    BY <2>2, <2>3, OneNewEvent
  <2>5. \A s \in Runs : \A i \in 1 .. Len(events'[s]) :
          \/ \E j \in 1 .. Len(events[s]) : events'[s][i] = events[s][j]
          \/ s = r /\ \E j \in 1 .. Len(<<e>>) : events'[s][i] = <<e>>[j]
    BY <1>0, <2>4, AppendedEvents
  <2>6. \A s \in Runs : \A i \in 1 .. Len(events'[s]) : Completion(events'[s][i]) =>
          (\E j \in 1 .. Len(events[s]) : events'[s][i] = events[s][j]) \/ Done(steps, s)
    <3>1. \A j \in 1 .. Len(<<e>>) : <<e>>[j] = e
      BY <2>4
    <3> QED
      BY <2>2, <2>5, <3>1
  <2>7. \A s \in Runs : stateTx'[s].to = "COMPLETED" => stateTx[s].to = "COMPLETED"
    <3>1. NoTx.to = "NONE"
      BY DEF NoTx
    <3> QED
      BY <1>0, <2>3, <3>1
  <2> QED
    BY <1>0, <2>3, <2>6, <2>7, CompletionFrame
<1>5. CASE Faults
  <2>1. events' = events /\ \A r \in Runs : stateTx'[r] = stateTx[r] \/ stateTx'[r] = NoTx
    BY <1>5 DEF Faults, AbandonJob, ApiCrash, rows, tx
  <2>2. \A w \in Workers : wk'[w] = wk[w] \/ wk'[w] = IdleWorker
    BY <1>0, <1>5 DEF Faults, AbandonJob, ApiCrash
  <2>3. ~ Reports(IdleWorker) /\ NoTx.to = "NONE"
    BY DEF Reports, IdleWorker, NoTx
  <2>4. \A w \in Workers : Reports(wk'[w]) => wk'[w] = wk[w]
    BY <2>2, <2>3
  <2>5. \A r \in Runs : stateTx'[r].to = "COMPLETED" => stateTx[r].to = "COMPLETED"
    BY <2>1, <2>3
  <2> QED
    BY <1>0, <2>1, <2>4, <2>5, CompletionFrame
<1>6. CASE OwnerStarts \/ (\E q \in Reqs : CommitState(q) \/ WriteAudit(q) \/ enqueue_run_job(q))
           \/ (\E r \in Runs : CommitStepTx(r) \/ EditScope(r))
           \/ (\E w \in Workers : process_jobs_timeout(w)) \/ UNCHANGED vars
  <2>1. events' = events /\ stateTx' = stateTx /\ wk' = wk
    BY <1>6 DEF OwnerStarts, create_run, cancel_run, approve_run, reject_run, transition_run, Start,
       CommitState, WriteAudit, enqueue_run_job, CommitStepTx, EditScope, process_jobs_timeout, vars, rows, tx
  <2> QED
    BY <1>1, <2>1
<1> QED
  BY <1>2, <1>3, <1>4, <1>5, <1>6 DEF Next, RequestStep, Commits

(* A COMPLETED a worker reports is backed by a recorded row for every step *)
(* of the plan, whoever recorded them and whatever happened to the run     *)
(* between the worker's count and the commit of its report.                *)
THEOREM CompletionsAreBacked == Spec => []WorkerCompletionBacked
<1>1. CompletionInv => WorkerCompletionBacked
  BY DEF CompletionInv, Completion, Done, WorkerCompletionBacked
<1> QED
  BY <1>1, StepInvariance, InitCompletionInv, NextCompletionInv, PTL DEF Spec

-----------------------------------------------------------------------------
(* Only a stale read gets round the transition table. *)

(* Every write to come was legal for the state its handler read. *)
LegalWrite(record) ==
  /\ record.pc \in {"count", "scope"} => record.seen \in {"QUEUED", "RUNNING"}
  /\ record.pc = "write" =>
       validate_transition(record.seen, IF record.status = "completed" THEN "COMPLETED" ELSE "FAILED")

LegalRequest(d) == d.pc = "write" => validate_transition(d.seen, d.to)

LegalTx(t) == t.replied => validate_transition(t.from, t.to)

LegalInv ==
  /\ \A q \in Reqs : LegalRequest(req[q])
  /\ \A w \in Workers : LegalWrite(wk[w])
  /\ \A r \in Runs : LegalTx(stateTx[r])

LEMMA InitLegalInv == Init => LegalInv
  BY DEF Init, LegalInv, LegalRequest, LegalWrite, LegalTx, IdleReq, IdleWorker, NoTx

(* The owner's requests are checked against the table before they start. *)
LEMMA StartsLegal ==
  ASSUME TypeInv, OwnerStarts
  PROVE  \A q \in Reqs : req'[q] = req[q] \/ LegalRequest(req'[q])
<1>0. req \in [Reqs -> Request]
  BY DEF TypeInv, TypeOK
<1>1. ASSUME NEW q \in Reqs, NEW r \in Runs, create_run(q, r)
      PROVE  \A p \in Reqs : req'[p] = req[p] \/ LegalRequest(req'[p])
  BY <1>0, <1>1 DEF create_run, LegalRequest
<1>2. ASSUME NEW q \in Reqs, NEW r \in Runs, NEW op, NEW target,
             Start(q, op, r, target), validate_transition(runState[r], target)
      PROVE  \A p \in Reqs : req'[p] = req[p] \/ LegalRequest(req'[p])
  BY <1>0, <1>2 DEF Start, LegalRequest
<1> QED
  BY <1>1, <1>2 DEF OwnerStarts, cancel_run, approve_run, reject_run, transition_run

(* A worker's handler reads the run again before each write it makes. *)
LEMMA WorkerStepLegal ==
  ASSUME TypeInv, LegalInv, NEW w \in Workers, WorkerStep(w)
  PROVE  LegalWrite(wk'[w]) /\ \A r \in Runs : LegalTx(stateTx'[r])
<1> DEFINE r == wk[w].run
<1>0. /\ wk[w] \in Worker /\ wk \in [Workers -> Worker] /\ (wk[w].pc # "idle" => r \in Runs)
      /\ stateTx \in [Runs -> TxRecord] /\ LegalWrite(wk[w])
  BY DEF TypeInv, TypeOK, WkOK, LegalInv
<1>01. LegalWrite(IdleWorker) /\ LegalTx(NoTx)
  BY DEF LegalWrite, LegalTx, IdleWorker, NoTx
<1>02. \A b : LegalTx(Tx("QUEUED", "RUNNING", b))
  BY DEF LegalTx, Tx, validate_transition, LEGAL_TRANSITIONS
<1>1. CASE process_jobs(w) \/ Invoke(w) \/ submit_step(w)
  <2>1. stateTx' = stateTx
    BY <1>1 DEF process_jobs, Invoke, submit_step, tx
  <2>2. wk'[w].pc \notin {"count", "scope", "write"}
    BY <1>0, <1>1 DEF process_jobs, Invoke, submit_step, Worker
  <2> QED
    BY <2>1, <2>2 DEF LegalInv, LegalWrite
<1>2. CASE ClaimRead(w)
  <2>1. stateTx' = stateTx
    BY <1>2 DEF ClaimRead, tx
  <2>2. LegalWrite(wk'[w])
    <3>1. CASE wk'[w] = IdleWorker
      BY <1>01, <3>1
    <3>2. CASE wk'[w] # IdleWorker
      BY <1>0, <1>2, <3>2 DEF ClaimRead, LegalWrite, Worker
    <3> QED
      BY <3>1, <3>2
  <2> QED
    BY <2>1, <2>2 DEF LegalInv
<1>3. CASE ClaimCount(w)
  <2> DEFINE done == completed_count(r) >= PlanLen[r]
  <2>1. r \in Runs /\ wk[w].pc = "count"
    BY <1>0, <1>3 DEF ClaimCount
  <2>2. stateTx' = stateTx \/ stateTx' = [stateTx EXCEPT ![r] = Tx("QUEUED", "RUNNING", done)]
    BY <1>3 DEF ClaimCount, Claims
  <2>3. wk'[w].seen = wk[w].seen /\ wk'[w].pc \in {"transition", "scope"}
    <3>1. CASE done
      BY <1>0, <1>3, <3>1 DEF ClaimCount, Worker
    <3>2. CASE ~ done
      BY <1>0, <1>3, <3>2 DEF ClaimCount, Worker
    <3> QED
      BY <3>1, <3>2
  <2> HIDE DEF done
  <2>4. \A s \in Runs : LegalTx(stateTx'[s])
    BY <1>0, <1>02, <2>1, <2>2 DEF LegalInv
  <2> QED
    BY <1>0, <2>1, <2>3, <2>4 DEF LegalWrite
<1>4. CASE ClaimNoEngagement(w) \/ ClaimDenied(w)
  <2>1. wk'[w] = IdleWorker /\ (stateTx' = stateTx \/ stateTx' = [stateTx EXCEPT ![r] = NoTx])
    BY <1>0, <1>4 DEF ClaimNoEngagement, ClaimDenied, FailRun
  <2> QED
    BY <1>0, <1>01, <2>1 DEF LegalInv
<1>5. CASE ClaimGranted(w)
  <2>1. wk'[w].pc = "invoke" /\ r \in Runs /\ wk[w].pc = "scope"
    BY <1>0, <1>5 DEF ClaimGranted, Worker
  <2>2. CASE stateTx' = stateTx
    BY <2>1, <2>2 DEF LegalInv, LegalWrite
  <2>3. CASE wk[w].seen = "QUEUED" /\ stateTx' = [stateTx EXCEPT ![r].replied = TRUE]
    <3>1. stateTx[r] = Tx("QUEUED", "RUNNING", FALSE)
      BY <2>1, <2>3 DEF TypeInv, LockOK, Owns
    <3>2. /\ stateTx'[r] = [stateTx[r] EXCEPT !.replied = TRUE]
          /\ \A s \in Runs : s # r => stateTx'[s] = stateTx[s]
      BY <1>0, <2>1, <2>3
    <3>3. stateTx'[r].from = "QUEUED" /\ stateTx'[r].to = "RUNNING"
      <4>1. stateTx[r] \in TxRecord /\ stateTx[r].from = "QUEUED" /\ stateTx[r].to = "RUNNING"
        BY <1>0, <2>1, <3>1 DEF Tx
      <4> QED
        BY <3>2, <4>1 DEF TxRecord
    <3>4. LegalTx(stateTx'[r])
      BY <3>3 DEF LegalTx, validate_transition, LEGAL_TRANSITIONS
    <3> QED
      BY <2>1, <3>2, <3>4 DEF LegalInv, LegalWrite
  <2> QED
    BY <1>5, <2>2, <2>3 DEF ClaimGranted
<1>6. CASE TransitionRead(w)
  <2>1. stateTx' = stateTx
    BY <1>6 DEF TransitionRead, tx
  <2>2. CASE wk'[w] = IdleWorker
    BY <1>01, <2>1, <2>2 DEF LegalInv
  <2>3. CASE wk'[w] # IdleWorker
    <3>1. /\ wk'[w] = [wk[w] EXCEPT !.pc = "write", !.seen = runState[r]]
          /\ validate_transition(runState[r], TargetOf(w))
      BY <1>0, <1>6, <2>3 DEF TransitionRead
    <3>2. wk'[w].pc = "write" /\ wk'[w].seen = runState[r] /\ wk'[w].status = wk[w].status
      BY <1>0, <3>1 DEF Worker
    <3>3. LegalWrite(wk'[w])
      BY <3>1, <3>2 DEF LegalWrite, TargetOf
    <3> QED
      BY <2>1, <3>3 DEF LegalInv
  <2> QED
    BY <2>2, <2>3
<1>7. CASE TransitionWrite(w)
  <2>1. /\ wk'[w] = IdleWorker /\ wk[w].pc = "write" /\ r \in Runs
        /\ stateTx' = [stateTx EXCEPT ![r] = Tx(wk[w].seen, TargetOf(w), TRUE)]
    BY <1>0, <1>7 DEF TransitionWrite
  <2>2. LegalTx(Tx(wk[w].seen, TargetOf(w), TRUE))
    BY <1>0, <2>1 DEF LegalWrite, LegalTx, Tx, TargetOf
  <2> QED
    BY <1>0, <1>01, <2>1, <2>2 DEF LegalInv
<1> QED
  BY <1>1, <1>2, <1>3, <1>4, <1>5, <1>6, <1>7 DEF WorkerStep

LEMMA NextLegalInv == TypeInv /\ LegalInv /\ [Next]_vars => LegalInv'
<1> SUFFICES ASSUME TypeInv, LegalInv, [Next]_vars PROVE LegalInv'
  OBVIOUS
<1>0. /\ req \in [Reqs -> Request] /\ wk \in [Workers -> Worker] /\ stateTx \in [Runs -> TxRecord]
      /\ LegalRequest(IdleReq) /\ LegalWrite(IdleWorker) /\ LegalTx(NoTx)
  BY DEF TypeInv, TypeOK, LegalRequest, LegalWrite, LegalTx, IdleReq, IdleWorker, NoTx
<1> DEFINE Kept == /\ \A q \in Reqs : req'[q] = req[q] \/ LegalRequest(req'[q])
                   /\ \A w \in Workers : wk'[w] = wk[w] \/ LegalWrite(wk'[w])
                   /\ \A r \in Runs : stateTx'[r] = stateTx[r] \/ LegalTx(stateTx'[r])
<1> SUFFICES Kept
  <2>1. /\ \A q \in Reqs : LegalRequest(req'[q])
        /\ \A w \in Workers : LegalWrite(wk'[w])
        /\ \A r \in Runs : LegalTx(stateTx'[r])
    BY DEF LegalInv
  <2>2. /\ \A q \in Reqs : LegalRequest(req[q])' <=> LegalRequest(req'[q])
        /\ \A w \in Workers : LegalWrite(wk[w])' <=> LegalWrite(wk'[w])
        /\ \A r \in Runs : LegalTx(stateTx[r])' <=> LegalTx(stateTx'[r])
    BY DEF LegalRequest, LegalWrite, LegalTx
  <2> QED
    BY <2>1, <2>2 DEF LegalInv
<1>1. CASE OwnerStarts
  <2>1. wk' = wk /\ stateTx' = stateTx
    BY <1>1 DEF OwnerStarts, create_run, cancel_run, approve_run, reject_run, transition_run, Start, tx
  <2> QED
    BY <1>1, <2>1, StartsLegal
<1>2. CASE \E q \in Reqs : RequestStep(q)
  <2>1. PICK q \in Reqs : RequestStep(q)
    BY <1>2
  <2>2. wk' = wk /\ stateTx' = stateTx /\ \A p \in Reqs : p # q => req'[p] = req[p]
    BY <1>0, <2>1 DEF RequestStep, CommitState, _record_event, WriteAudit, enqueue_run_job, tx
  <2>3. req'[q].pc # "write"
    <3>1. CASE req'[q] = IdleReq
      BY <3>1 DEF IdleReq
    <3>2. CASE req'[q] # IdleReq
      BY <1>0, <2>1, <3>2 DEF RequestStep, CommitState, _record_event, WriteAudit, enqueue_run_job, Request
    <3> QED
      BY <3>1, <3>2
  <2> QED
    BY <2>2, <2>3 DEF LegalRequest
<1>3. CASE \E w \in Workers : WorkerStep(w)
  <2>1. PICK w \in Workers : WorkerStep(w)
    BY <1>3
  <2>2. req' = req /\ \A v \in Workers : v # w => wk'[v] = wk[v]
    BY <1>0, <2>1 DEF WorkerStep, process_jobs, ClaimRead, ClaimCount, ClaimNoEngagement, ClaimGranted,
       ClaimDenied, FailRun, Invoke, submit_step, TransitionRead, TransitionWrite
  <2> QED
    BY <2>1, <2>2, WorkerStepLegal
<1>4. CASE \E r \in Runs : CommitStateTx(r)
  BY <1>0, <1>4 DEF CommitStateTx
<1>5. CASE Faults
  BY <1>0, <1>5 DEF Faults, AbandonJob, ApiCrash, tx
<1>6. CASE (\E r \in Runs : CommitStepTx(r) \/ EditScope(r))
           \/ (\E w \in Workers : process_jobs_timeout(w)) \/ UNCHANGED vars
  BY <1>6 DEF CommitStepTx, EditScope, process_jobs_timeout, vars, tx
<1> QED
  BY <1>1, <1>2, <1>3, <1>4, <1>5, <1>6 DEF Next, Commits

(* Stale reads are the only way round the transition table: while no       *)
(* handler or open transaction holds a stale read of the run, each         *)
(* committed change of its state is a legal transition.                    *)
THEOREM OnlyStaleWritesAreIllegal == Spec => LegalUnlessStale
<1>1. TypeInv /\ LegalInv /\ [Next]_vars =>
        [\A r \in Runs : runState'[r] # runState[r] /\ runState[r] # "NONE" /\ ~ StaleWriter(r)
                           => validate_transition(runState[r], runState'[r])]_vars
  <2> SUFFICES ASSUME TypeInv, LegalInv, [Next]_vars, NEW r \in Runs,
                      runState'[r] # runState[r], runState[r] # "NONE", ~ StaleWriter(r)
               PROVE  validate_transition(runState[r], runState'[r])
    OBVIOUS
  <2>0. runState \in [Runs -> States]
    BY DEF TypeInv, TypeOK
  <2>1. ASSUME NEW q \in Reqs, NEW s \in Runs, create_run(q, s)
        PROVE  validate_transition(runState[r], runState'[r])
    BY <2>0, <2>1 DEF create_run
  <2>2. ASSUME NEW q \in Reqs, CommitState(q)
        PROVE  validate_transition(runState[r], runState'[r])
    <3>1. req[q].pc = "write" /\ req[q].run = r /\ runState'[r] = req[q].to
      BY <2>0, <2>2 DEF CommitState
    <3>2. req[q].seen = runState[r]
      BY <3>1 DEF StaleWriter
    <3> QED
      BY <3>1, <3>2 DEF LegalInv, LegalRequest
  <2>3. ASSUME NEW w \in Workers, ClaimNoEngagement(w) \/ ClaimDenied(w)
        PROVE  validate_transition(runState[r], runState'[r])
    <3>1. wk[w].pc \in {"count", "scope"} /\ wk[w].run = r /\ runState'[r] = "FAILED"
      BY <2>0, <2>3 DEF ClaimNoEngagement, ClaimDenied, FailRun
    <3>2. runState[r] = wk[w].seen
      BY <3>1 DEF StaleWriter
    <3>3. runState[r] \in {"QUEUED", "RUNNING"}
      BY <3>1, <3>2 DEF LegalInv, LegalWrite
    <3> QED
      BY <3>1, <3>3 DEF validate_transition, LEGAL_TRANSITIONS
  <2>4. ASSUME NEW s \in Runs, CommitStateTx(s)
        PROVE  validate_transition(runState[r], runState'[r])
    <3>1. stateTx[r].replied /\ runState'[r] = stateTx[r].to
      BY <2>0, <2>4 DEF CommitStateTx
    <3>2. stateTx[r].from = runState[r]
      BY <3>1 DEF StaleWriter, Locked, NoTx
    <3> QED
      BY <3>1, <3>2 DEF LegalInv, LegalTx
  <2>5. \/ \E q \in Reqs, s \in Runs : create_run(q, s)
        \/ \E q \in Reqs : CommitState(q)
        \/ \E w \in Workers : ClaimNoEngagement(w) \/ ClaimDenied(w)
        \/ \E s \in Runs : CommitStateTx(s)
    BY DEF Next, OwnerStarts, cancel_run, approve_run, reject_run, transition_run, Start,
       RequestStep, _record_event, WriteAudit, enqueue_run_job, WorkerStep, process_jobs,
       ClaimRead, ClaimCount, ClaimGranted, Invoke, submit_step,
       TransitionRead, TransitionWrite, process_jobs_timeout, Commits, CommitStepTx, Faults, AbandonJob,
       ApiCrash, EditScope, vars, rows
  <2> QED
    BY <2>1, <2>2, <2>3, <2>4, <2>5
<1> QED
  BY <1>1, InitTypeInv, NextTypeInv, InitLegalInv, NextLegalInv, PTL DEF Spec, LegalUnlessStale

-----------------------------------------------------------------------------
(* Counting. *)

(* One member of a finite set may change sides; the count follows it. *)
LEMMA CountChange ==
  ASSUME NEW S, IsFiniteSet(S), NEW A \in SUBSET S, NEW B \in SUBSET S, NEW x \in S,
         \A y \in S : y # x => (y \in A <=> y \in B)
  PROVE  /\ Cardinality(A) \in Nat /\ Cardinality(B) \in Nat
         /\ Cardinality(B) + (IF x \in A THEN 1 ELSE 0) = Cardinality(A) + (IF x \in B THEN 1 ELSE 0)
<1>1. IsFiniteSet(A) /\ IsFiniteSet(B)
  BY FS_Subset
<1>2. Cardinality(A) \in Nat /\ Cardinality(B) \in Nat
  BY <1>1, FS_CardinalityType
<1>3. CASE x \in A <=> x \in B
  <2>1. A = B
    BY <1>3
  <2> QED
    BY <1>2, <2>1
<1>4. CASE x \in A /\ x \notin B
  <2>1. A = B \union {x}
    BY <1>4
  <2> QED
    BY <1>1, <1>2, <1>4, <2>1, FS_AddElement
<1>5. CASE x \notin A /\ x \in B
  <2>1. B = A \union {x}
    BY <1>5
  <2> QED
    BY <1>1, <1>2, <1>5, <2>1, FS_AddElement
<1> QED
  BY <1>2, <1>3, <1>4, <1>5

(* The places where x stands in a sequence. *)
Positions(s, x) == {i \in 1 .. Len(s) : s[i] = x}

LEMMA PositionsFinite ==
  ASSUME NEW S, NEW s \in Seq(S), NEW x
  PROVE  IsFiniteSet(Positions(s, x)) /\ Cardinality(Positions(s, x)) \in Nat
<1>1. Len(s) \in Nat /\ IsFiniteSet(1 .. Len(s))
  BY LenProperties, FS_Interval
<1>2. Positions(s, x) \in SUBSET (1 .. Len(s))
  BY DEF Positions
<1> QED
  BY <1>1, <1>2, FS_Subset, FS_CardinalityType

LEMMA PositionsAppend ==
  ASSUME NEW S, NEW s \in Seq(S), NEW e \in S, NEW x
  PROVE  Cardinality(Positions(Append(s, e), x)) =
           Cardinality(Positions(s, x)) + (IF e = x THEN 1 ELSE 0)
<1>1. /\ Len(s) \in Nat /\ Len(Append(s, e)) = Len(s) + 1
      /\ \A i \in 1 .. Len(s) : Append(s, e)[i] = s[i]
      /\ Append(s, e)[Len(s) + 1] = e
  BY AppendProperties, LenProperties
<1>2. IsFiniteSet(Positions(s, x)) /\ Cardinality(Positions(s, x)) \in Nat
  BY PositionsFinite
<1>3. CASE e = x
  <2>1. Positions(Append(s, e), x) = Positions(s, x) \union {Len(s) + 1}
    BY <1>1, <1>3 DEF Positions
  <2>2. Len(s) + 1 \notin Positions(s, x)
    BY <1>1 DEF Positions
  <2> QED
    BY <1>2, <1>3, <2>1, <2>2, FS_AddElement
<1>4. CASE e # x
  <2>1. Positions(Append(s, e), x) = Positions(s, x)
    BY <1>1, <1>4 DEF Positions
  <2> QED
    BY <1>2, <1>4, <2>1
<1> QED
  BY <1>3, <1>4

LEMMA PositionsTail ==
  ASSUME NEW S, NEW s \in Seq(S), s # <<>>, NEW x
  PROVE  Cardinality(Positions(s, x)) =
           Cardinality(Positions(Tail(s), x)) + (IF Head(s) = x THEN 1 ELSE 0)
<1>1. /\ Len(s) \in Nat \ {0} /\ Tail(s) \in Seq(S) /\ Len(Tail(s)) = Len(s) - 1 /\ Head(s) = s[1]
      /\ \A i \in 1 .. Len(Tail(s)) : Tail(s)[i] = s[i + 1]
  BY HeadTailProperties, EmptySeq, LenProperties
<1> DEFINE P == Positions(s, x) \ {1}
           T == Positions(Tail(s), x)
           f == [i \in T |-> i + 1]
<1>2. IsFiniteSet(Positions(s, x)) /\ Cardinality(Positions(s, x)) \in Nat
  BY PositionsFinite
<1>3. IsFiniteSet(T) /\ Cardinality(T) \in Nat
  BY <1>1, PositionsFinite
<1>4. Cardinality(P) = Cardinality(T)
  <2>1. T \subseteq Nat /\ \A i \in T : i + 1 \in P
    BY <1>1 DEF Positions
  <2>2. \A j \in P : j - 1 \in T /\ (j - 1) + 1 = j
    BY <1>1 DEF Positions
  <2>3. f \in Bijection(T, P)
    <3> HIDE DEF T, P
    <3>1. \A i \in T : f[i] = i + 1
      OBVIOUS
    <3>2. f \in [T -> P]
      BY <2>1
    <3> HIDE DEF f
    <3>3. \A a, b \in T : f[a] = f[b] => a = b
      BY <2>1, <3>1
    <3>4. \A j \in P : \E i \in T : f[i] = j
      BY <2>2, <3>1
    <3> QED
      BY <3>2, <3>3, <3>4 DEF Bijection, Injection, IsInjective, Surjection
  <2>4. ExistsBijection(T, P)
    BY <2>3 DEF ExistsBijection
  <2> HIDE DEF T, P
  <2> QED
    BY <1>3, <2>4, FS_Bijection
<1>5. Cardinality(P) = IF 1 \in Positions(s, x) THEN Cardinality(Positions(s, x)) - 1
                       ELSE Cardinality(Positions(s, x))
  BY <1>2, FS_RemoveElement
<1>6. 1 \in Positions(s, x) <=> Head(s) = x
  BY <1>1 DEF Positions
<1> HIDE DEF P, T
<1> QED
  BY <1>2, <1>3, <1>4, <1>5, <1>6 DEF T

-----------------------------------------------------------------------------
(* The trail has an entry for every change. *)

(* The request has committed a state whose event, or a decision whose       *)
(* AuditEvent, it has still to record.                                      *)
OwesEvent(d, r) == d.run = r /\ d.pc = "event"
OwesAudit(d, r) == d.run = r /\ d.op \in {"approve", "reject"} /\ d.pc \in {"event", "audit"}

EventDebtors(slots, r) == {q \in Reqs : OwesEvent(slots[q], r)}
AuditDebtors(slots, r) == {q \in Reqs : OwesAudit(slots[q], r)}

(* How many changes, and how many decisions, nothing accounts for. *)
MissingEvents(r) == changes[r] - (Len(events[r]) + Cardinality(EventDebtors(req, r)))
MissingAudits(r) == Len(approvals[r]) - (auditRows[r] + Cardinality(AuditDebtors(req, r)))

(* Only a decision goes on to its AuditEvent. *)
AuditInv == \A q \in Reqs : req[q].pc = "audit" => req[q].op \in {"approve", "reject"}

LEMMA NextAuditInv == TypeInv /\ AuditInv /\ [Next]_vars => AuditInv'
<1> SUFFICES ASSUME TypeInv, AuditInv, [Next]_vars PROVE AuditInv'
  OBVIOUS
<1>0. req \in [Reqs -> Request] /\ IdleReq.pc = "idle"
  BY DEF TypeInv, TypeOK, IdleReq
<1> SUFFICES ASSUME NEW p \in Reqs, req'[p].pc = "audit" PROVE req'[p].op \in {"approve", "reject"}
  BY DEF AuditInv
<1>1. CASE req' = req
  BY <1>1 DEF AuditInv
<1>2. CASE OwnerStarts
  <2>1. PICK q \in Reqs, r \in Runs :
          \/ create_run(q, r)
          \/ \E op \in OwnerOps, target \in RunState \union {"NONE"} : Start(q, op, r, target)
    BY <1>2, StartsAre
  <2>2. req'[q].pc \in {"event", "write"} /\ \A s \in Reqs : s # q => req'[s] = req[s]
    BY <1>0, <2>1 DEF create_run, Start
  <2> QED
    BY <2>2 DEF AuditInv
<1>3. CASE \E q \in Reqs : RequestStep(q)
  <2>1. PICK q \in Reqs : RequestStep(q)
    BY <1>3
  <2>2. \A s \in Reqs : s # q => req'[s] = req[s]
    BY <1>0, <2>1 DEF RequestStep, CommitState, _record_event, WriteAudit, enqueue_run_job
  <2>3. CASE CommitState(q) \/ WriteAudit(q) \/ enqueue_run_job(q)
    <3>1. req'[q].pc # "audit"
      <4>1. CASE req'[q] = IdleReq
        BY <1>0, <4>1
      <4>2. CASE req'[q] # IdleReq
        BY <1>0, <2>3, <4>2 DEF CommitState, WriteAudit, enqueue_run_job, Request
      <4> QED
        BY <4>1, <4>2
    <3> QED
      BY <2>2, <3>1 DEF AuditInv
  <2>4. CASE _record_event(q)
    <3>1. req'[q] = IdleReq \/ (req'[q] = [req[q] EXCEPT !.pc = "audit"] /\ req[q].op \in {"approve", "reject"})
      BY <1>0, <2>4 DEF _record_event
    <3>2. req'[q].pc = "audit" => req'[q].op \in {"approve", "reject"}
      BY <1>0, <3>1 DEF Request
    <3> QED
      BY <2>2, <3>2 DEF AuditInv
  <2> QED
    BY <2>1, <2>3, <2>4 DEF RequestStep
<1>4. CASE ApiCrash
  BY <1>0, <1>4 DEF ApiCrash
<1>5. CASE \/ \E w \in Workers : WorkerStep(w) \/ process_jobs_timeout(w) \/ AbandonJob(w)
           \/ Commits \/ (\E r \in Runs : EditScope(r)) \/ UNCHANGED vars
  BY <1>1, <1>5 DEF WorkerStep, process_jobs, ClaimRead, ClaimCount, ClaimNoEngagement, ClaimGranted,
     ClaimDenied, FailRun, Invoke, submit_step, TransitionRead, TransitionWrite, process_jobs_timeout,
     AbandonJob, Commits, CommitStateTx, CommitStepTx, EditScope, vars
<1> QED
  BY <1>2, <1>3, <1>4, <1>5 DEF Next, Faults

LEMMA DebtNumbers ==
  ASSUME TypeInv, NEW r \in Runs
  PROVE  /\ changes[r] \in Nat /\ Len(events[r]) \in Nat /\ Cardinality(EventDebtors(req, r)) \in Nat
         /\ auditRows[r] \in Nat /\ Len(approvals[r]) \in Nat /\ Cardinality(AuditDebtors(req, r)) \in Nat
<1>1. EventDebtors(req, r) \in SUBSET Reqs /\ AuditDebtors(req, r) \in SUBSET Reqs
  BY DEF EventDebtors, AuditDebtors
<1> QED
  BY <1>1, FinitenessAssumption, FS_Subset, FS_CardinalityType, LenProperties DEF TypeInv, TypeOK

(* The debts when one request moves on. *)
LEMMA DebtChange ==
  ASSUME TypeInv, NEW q \in Reqs, \A p \in Reqs : p # q => req'[p] = req[p], NEW r
  PROVE  /\ Cardinality(EventDebtors(req', r)) + (IF OwesEvent(req[q], r) THEN 1 ELSE 0)
              = Cardinality(EventDebtors(req, r)) + (IF OwesEvent(req'[q], r) THEN 1 ELSE 0)
         /\ Cardinality(AuditDebtors(req', r)) + (IF OwesAudit(req[q], r) THEN 1 ELSE 0)
              = Cardinality(AuditDebtors(req, r)) + (IF OwesAudit(req'[q], r) THEN 1 ELSE 0)
         /\ Cardinality(EventDebtors(req', r)) \in Nat /\ Cardinality(AuditDebtors(req', r)) \in Nat
<1> DEFINE A == EventDebtors(req, r)
           B == EventDebtors(req', r)
           C == AuditDebtors(req, r)
           D == AuditDebtors(req', r)
<1>1. /\ A \in SUBSET Reqs /\ B \in SUBSET Reqs /\ C \in SUBSET Reqs /\ D \in SUBSET Reqs
      /\ \A p \in Reqs : /\ p \in A <=> OwesEvent(req[p], r)
                         /\ p \in B <=> OwesEvent(req'[p], r)
                         /\ p \in C <=> OwesAudit(req[p], r)
                         /\ p \in D <=> OwesAudit(req'[p], r)
  BY DEF EventDebtors, AuditDebtors
<1>2. \A p \in Reqs : p # q => (p \in A <=> p \in B) /\ (p \in C <=> p \in D)
  BY <1>1
<1> HIDE DEF A, B, C, D
<1>3. /\ Cardinality(B) \in Nat
      /\ Cardinality(B) + (IF q \in A THEN 1 ELSE 0) = Cardinality(A) + (IF q \in B THEN 1 ELSE 0)
  BY <1>1, <1>2, CountChange, FinitenessAssumption
<1>4. /\ Cardinality(D) \in Nat
      /\ Cardinality(D) + (IF q \in C THEN 1 ELSE 0) = Cardinality(C) + (IF q \in D THEN 1 ELSE 0)
  BY <1>1, <1>2, CountChange, FinitenessAssumption
<1> QED
  BY <1>1, <1>3, <1>4 DEF A, B, C, D

(* An owner request that is served: what it owes is what it has changed. *)
LEMMA RequestBalance ==
  ASSUME TypeInv, AuditInv, NEW q \in Reqs, RequestStep(q), NEW r \in Runs
  PROVE  MissingEvents(r)' = MissingEvents(r) /\ MissingAudits(r)' = MissingAudits(r)
<1> DEFINE d == req[q]
           d1 == req'[q]
<1>0. /\ req \in [Reqs -> Request] /\ d \in Request /\ \A p \in Reqs : p # q => req'[p] = req[p]
      /\ changes \in [Runs -> Nat] /\ auditRows \in [Runs -> Nat]
      /\ events \in [Runs -> Seq(Event)] /\ approvals \in [Runs -> Seq(Approval)]
  BY DEF TypeInv, TypeOK, RequestStep, CommitState, _record_event, WriteAudit, enqueue_run_job
<1>1. /\ Cardinality(EventDebtors(req', r)) + (IF OwesEvent(d, r) THEN 1 ELSE 0)
              = Cardinality(EventDebtors(req, r)) + (IF OwesEvent(d1, r) THEN 1 ELSE 0)
      /\ Cardinality(AuditDebtors(req', r)) + (IF OwesAudit(d, r) THEN 1 ELSE 0)
              = Cardinality(AuditDebtors(req, r)) + (IF OwesAudit(d1, r) THEN 1 ELSE 0)
      /\ Cardinality(EventDebtors(req', r)) \in Nat /\ Cardinality(AuditDebtors(req', r)) \in Nat
  BY <1>0, DebtChange
<1>2. /\ changes[r] \in Nat /\ Len(events[r]) \in Nat /\ Cardinality(EventDebtors(req, r)) \in Nat
      /\ auditRows[r] \in Nat /\ Len(approvals[r]) \in Nat /\ Cardinality(AuditDebtors(req, r)) \in Nat
  BY DebtNumbers
<1>3. /\ MissingEvents(r)' = changes'[r] - (Len(events'[r]) + Cardinality(EventDebtors(req', r)))
      /\ MissingAudits(r)' = Len(approvals'[r]) - (auditRows'[r] + Cardinality(AuditDebtors(req', r)))
      /\ MissingEvents(r) = changes[r] - (Len(events[r]) + Cardinality(EventDebtors(req, r)))
      /\ MissingAudits(r) = Len(approvals[r]) - (auditRows[r] + Cardinality(AuditDebtors(req, r)))
  BY DEF MissingEvents, MissingAudits, EventDebtors, AuditDebtors, OwesEvent, OwesAudit
<1>4. ~ OwesEvent(IdleReq, r) /\ ~ OwesAudit(IdleReq, r)
  BY DEF OwesEvent, OwesAudit, IdleReq
<1>5. CASE CommitState(q)
  <2>1. d.pc = "write" /\ d.run \in Runs /\ d1 = [d EXCEPT !.pc = "event"]
    BY <1>0, <1>5 DEF CommitState, TypeInv, ReqOK
  <2>2. d1.pc = "event" /\ d1.run = d.run /\ d1.op = d.op
    BY <1>0, <2>1 DEF Request
  <2>3. changes'[r] = changes[r] + (IF d.run = r THEN 1 ELSE 0) /\ events' = events /\ auditRows' = auditRows
    BY <1>0, <1>5, <2>1 DEF CommitState
  <2>4. Len(approvals'[r]) = Len(approvals[r]) + (IF d.run = r /\ d.op \in {"approve", "reject"} THEN 1 ELSE 0)
    <3>1. DecisionRows(d) \in Seq(Approval)
      BY <2>1, DecisionRowsLemma DEF TypeInv, ReqOK
    <3>2. Len(DecisionRows(d)) = IF d.op \in {"approve", "reject"} THEN 1 ELSE 0
      <4>1. CASE d.op \in {"approve", "reject"}
        <5>1. \E row : DecisionRows(d) = <<row>>
          BY <4>1 DEF DecisionRows
        <5> QED
          BY <4>1, <5>1
      <4>2. CASE d.op \notin {"approve", "reject"}
        <5>1. DecisionRows(d) = <<>>
          BY <4>2 DEF DecisionRows
        <5> QED
          BY <4>2, <5>1
      <4> QED
        BY <4>1, <4>2
    <3>3. approvals'[r] = IF d.run = r THEN approvals[r] \o DecisionRows(d) ELSE approvals[r]
      BY <1>0, <1>5, <2>1 DEF CommitState
    <3>4. Len(approvals[r] \o DecisionRows(d)) = Len(approvals[r]) + Len(DecisionRows(d))
      BY <1>0, <3>1, ConcatProperties
    <3> HIDE DEF d
    <3>5. CASE d.run = r
      <4>1. Len(approvals'[r]) = Len(approvals[r]) + Len(DecisionRows(d))
        BY <3>3, <3>4, <3>5
      <4> QED
        BY <1>2, <3>2, <3>5, <4>1
    <3>6. CASE d.run # r
      BY <1>2, <3>3, <3>6
    <3> QED
      BY <3>5, <3>6
  <2>5. ~ OwesEvent(d, r) /\ ~ OwesAudit(d, r)
    BY <2>1 DEF OwesEvent, OwesAudit
  <2>6. /\ OwesEvent(d1, r) <=> d.run = r
        /\ OwesAudit(d1, r) <=> d.run = r /\ d.op \in {"approve", "reject"}
    BY <2>2 DEF OwesEvent, OwesAudit
  <2> HIDE DEF d, d1
  <2>7. MissingEvents(r)' = MissingEvents(r)
    <3> DEFINE k == IF d.run = r THEN 1 ELSE 0
    <3>1. Cardinality(EventDebtors(req', r)) = Cardinality(EventDebtors(req, r)) + k
      BY <1>1, <1>2, <2>5, <2>6
    <3>2. k \in Nat /\ changes'[r] = changes[r] + k /\ Len(events'[r]) = Len(events[r])
      BY <2>3
    <3> HIDE DEF k
    <3>3. changes'[r] - (Len(events'[r]) + Cardinality(EventDebtors(req', r)))
            = changes[r] - (Len(events[r]) + Cardinality(EventDebtors(req, r)))
      BY <1>2, <3>1, <3>2
    <3> QED
      BY <1>3, <3>3
  <2>8. MissingAudits(r)' = MissingAudits(r)
    <3> DEFINE k == IF d.run = r /\ d.op \in {"approve", "reject"} THEN 1 ELSE 0
    <3>1. Cardinality(AuditDebtors(req', r)) = Cardinality(AuditDebtors(req, r)) + k
      BY <1>1, <1>2, <2>5, <2>6
    <3>2. k \in Nat /\ Len(approvals'[r]) = Len(approvals[r]) + k /\ auditRows'[r] = auditRows[r]
      BY <2>3, <2>4
    <3> HIDE DEF k
    <3>3. Len(approvals'[r]) - (auditRows'[r] + Cardinality(AuditDebtors(req', r)))
            = Len(approvals[r]) - (auditRows[r] + Cardinality(AuditDebtors(req, r)))
      BY <1>2, <3>1, <3>2
    <3> QED
      BY <1>3, <3>3
  <2> QED
    BY <2>7, <2>8
<1>6. CASE _record_event(q)
  <2>1. d.pc = "event" /\ d.run \in Runs
    BY <1>6 DEF _record_event, TypeInv, ReqOK
  <2>2. changes' = changes /\ auditRows' = auditRows /\ approvals' = approvals
    BY <1>6 DEF _record_event
  <2>3. Len(events'[r]) = Len(events[r]) + (IF d.run = r THEN 1 ELSE 0)
    <3>1. Ev(d.seen, d.to, "owner") \in Event
      BY <1>0, <2>1 DEF TypeInv, ReqOK, Request, Ev, Event
    <3>2. events' = [events EXCEPT ![d.run] = Append(@, Ev(d.seen, d.to, "owner"))]
      BY <1>6 DEF _record_event
    <3>3. Len(Append(events[r], Ev(d.seen, d.to, "owner"))) = Len(events[r]) + 1
      BY <1>0, <3>1, AppendProperties
    <3> QED
      BY <1>0, <1>2, <2>1, <3>2, <3>3
  <2>4. OwesEvent(d, r) <=> d.run = r
    BY <2>1 DEF OwesEvent
  <2>5. ~ OwesEvent(d1, r) /\ (OwesAudit(d1, r) <=> OwesAudit(d, r))
    <3>1. CASE d.op \in {"approve", "reject"}
      <4>1. d1.pc = "audit" /\ d1.run = d.run /\ d1.op = d.op
        BY <1>0, <1>6, <3>1 DEF _record_event, Request
      <4> QED
        BY <2>1, <4>1 DEF OwesEvent, OwesAudit
    <3>2. CASE d.op \notin {"approve", "reject"}
      <4>1. d1 = IdleReq
        BY <1>0, <1>6, <3>2 DEF _record_event
      <4> QED
        BY <1>4, <3>2, <4>1 DEF OwesAudit
    <3> QED
      BY <3>1, <3>2
  <2> HIDE DEF d, d1
  <2>6. MissingEvents(r)' = MissingEvents(r)
    <3>1. CASE d.run = r
      <4>1. Cardinality(EventDebtors(req', r)) + 1 = Cardinality(EventDebtors(req, r))
        BY <1>1, <1>2, <2>4, <2>5, <3>1
      <4>2. Len(events'[r]) = Len(events[r]) + 1
        BY <2>3, <3>1
      <4>3. Len(events'[r]) + Cardinality(EventDebtors(req', r)) = Len(events[r]) + Cardinality(EventDebtors(req, r))
        <5> DEFINE m  == Len(events[r])
                   c  == Cardinality(EventDebtors(req, r))
                   c1 == Cardinality(EventDebtors(req', r))
        <5>1. m \in Nat /\ c \in Nat /\ c1 \in Nat
          BY <1>1, <1>2
        <5>2. Len(events'[r]) = m + 1 /\ c1 + 1 = c
          BY <4>1, <4>2
        <5> HIDE DEF m, c, c1
        <5>3. (m + 1) + c1 = m + c
          BY <5>1, <5>2
        <5> QED
          BY <5>2, <5>3 DEF m, c, c1
      <4> QED
        BY <1>1, <1>2, <1>3, <2>2, <4>3
    <3>2. CASE d.run # r
      <4>1. Cardinality(EventDebtors(req', r)) = Cardinality(EventDebtors(req, r))
        BY <1>1, <1>2, <2>4, <2>5, <3>2
      <4>2. Len(events'[r]) = Len(events[r])
        BY <1>2, <2>3, <3>2
      <4> QED
        BY <1>1, <1>2, <1>3, <2>2, <4>1, <4>2
    <3> QED
      BY <3>1, <3>2
  <2>7. MissingAudits(r)' = MissingAudits(r)
    BY <1>1, <1>2, <1>3, <2>2, <2>5
  <2> QED
    BY <2>6, <2>7
<1>7. CASE WriteAudit(q)
  <2>1. d.pc = "audit" /\ d.run \in Runs /\ d.op \in {"approve", "reject"}
    BY <1>7 DEF WriteAudit, TypeInv, ReqOK, AuditInv
  <2>2. changes' = changes /\ events' = events /\ approvals' = approvals
    BY <1>7 DEF WriteAudit
  <2>3. auditRows'[r] = auditRows[r] + (IF d.run = r THEN 1 ELSE 0)
    <3>1. auditRows' = [auditRows EXCEPT ![d.run] = @ + 1]
      BY <1>7 DEF WriteAudit
    <3> HIDE DEF d
    <3> QED
      BY <1>0, <2>1, <3>1
  <2>4. ~ OwesEvent(d, r) /\ (OwesAudit(d, r) <=> d.run = r)
    BY <2>1 DEF OwesEvent, OwesAudit
  <2>5. ~ OwesEvent(d1, r) /\ ~ OwesAudit(d1, r)
    <3>1. CASE d1 = IdleReq
      BY <1>4, <3>1
    <3>2. CASE d1 # IdleReq
      <4>1. d1.pc = "enqueue"
        BY <1>0, <1>7, <3>2 DEF WriteAudit, Request
      <4> QED
        BY <4>1 DEF OwesEvent, OwesAudit
    <3> QED
      BY <3>1, <3>2
  <2> HIDE DEF d, d1
  <2> QED
    BY <1>1, <1>2, <1>3, <2>2, <2>3, <2>4, <2>5
<1>8. CASE enqueue_run_job(q)
  <2>1. changes' = changes /\ events' = events /\ approvals' = approvals /\ auditRows' = auditRows
    BY <1>8 DEF enqueue_run_job, rows
  <2>2. d.pc = "enqueue" /\ d1 = IdleReq
    BY <1>0, <1>8 DEF enqueue_run_job
  <2>3. ~ OwesEvent(d, r) /\ ~ OwesAudit(d, r)
    BY <2>2 DEF OwesEvent, OwesAudit
  <2>4. ~ OwesEvent(d1, r) /\ ~ OwesAudit(d1, r)
    BY <1>4, <2>2
  <2> HIDE DEF d, d1
  <2> QED
    BY <1>1, <1>2, <1>3, <2>1, <2>3, <2>4
<1> QED
  BY <1>5, <1>6, <1>7, <1>8 DEF RequestStep

(* A step that changes no debt writes as many events as it makes changes. *)
LEMMA BalanceFrame ==
  ASSUME TypeInv, NEW r \in Runs, NEW k \in Nat,
         changes'[r] = changes[r] + k, Len(events'[r]) = Len(events[r]) + k,
         approvals' = approvals, auditRows' = auditRows,
         \A q \in Reqs : req'[q] = req[q] \/ \A s : /\ ~ OwesEvent(req[q], s) /\ ~ OwesEvent(req'[q], s)
                                                   /\ ~ OwesAudit(req[q], s) /\ ~ OwesAudit(req'[q], s)
  PROVE  MissingEvents(r)' = MissingEvents(r) /\ MissingAudits(r)' = MissingAudits(r)
<1>1. EventDebtors(req', r) = EventDebtors(req, r) /\ AuditDebtors(req', r) = AuditDebtors(req, r)
  BY DEF EventDebtors, AuditDebtors
<1>2. /\ MissingEvents(r)' = changes'[r] - (Len(events'[r]) + Cardinality(EventDebtors(req', r)))
      /\ MissingAudits(r)' = Len(approvals'[r]) - (auditRows'[r] + Cardinality(AuditDebtors(req', r)))
      /\ MissingEvents(r) = changes[r] - (Len(events[r]) + Cardinality(EventDebtors(req, r)))
      /\ MissingAudits(r) = Len(approvals[r]) - (auditRows[r] + Cardinality(AuditDebtors(req, r)))
  BY DEF MissingEvents, MissingAudits, EventDebtors, AuditDebtors, OwesEvent, OwesAudit
<1>3. changes[r] \in Nat /\ Len(events[r]) \in Nat /\ Cardinality(EventDebtors(req, r)) \in Nat
  BY DebtNumbers
<1>4. changes'[r] - (Len(events'[r]) + Cardinality(EventDebtors(req', r)))
        = changes[r] - (Len(events[r]) + Cardinality(EventDebtors(req, r)))
  BY <1>1, <1>3
<1> QED
  BY <1>1, <1>2, <1>4

(* Creating a run is a change whose event is owed. *)
LEMMA CreateBalance ==
  ASSUME TypeInv, NEW q \in Reqs, NEW s \in Runs, create_run(q, s), NEW r \in Runs
  PROVE  MissingEvents(r)' = MissingEvents(r) /\ MissingAudits(r)' = MissingAudits(r)
<1>1. /\ req \in [Reqs -> Request] /\ changes \in [Runs -> Nat]
      /\ req[q].pc = "idle" /\ \A p \in Reqs : p # q => req'[p] = req[p]
      /\ req'[q].pc = "event" /\ req'[q].op = "create" /\ req'[q].run = s
      /\ events' = events /\ approvals' = approvals /\ auditRows' = auditRows
  BY DEF create_run, TypeInv, TypeOK
<1> DEFINE k == IF s = r THEN 1 ELSE 0
<1>2. k \in Nat /\ changes'[r] = changes[r] + k
  BY <1>1 DEF create_run
<1>3. /\ ~ OwesEvent(req[q], r) /\ ~ OwesAudit(req[q], r) /\ ~ OwesAudit(req'[q], r)
      /\ OwesEvent(req'[q], r) <=> s = r
  BY <1>1 DEF OwesEvent, OwesAudit
<1>4. /\ Cardinality(EventDebtors(req', r)) + (IF OwesEvent(req[q], r) THEN 1 ELSE 0)
              = Cardinality(EventDebtors(req, r)) + (IF OwesEvent(req'[q], r) THEN 1 ELSE 0)
      /\ Cardinality(AuditDebtors(req', r)) + (IF OwesAudit(req[q], r) THEN 1 ELSE 0)
              = Cardinality(AuditDebtors(req, r)) + (IF OwesAudit(req'[q], r) THEN 1 ELSE 0)
      /\ Cardinality(EventDebtors(req', r)) \in Nat /\ Cardinality(AuditDebtors(req', r)) \in Nat
  BY <1>1, DebtChange
<1>5. /\ changes[r] \in Nat /\ Len(events[r]) \in Nat /\ Cardinality(EventDebtors(req, r)) \in Nat
      /\ auditRows[r] \in Nat /\ Len(approvals[r]) \in Nat /\ Cardinality(AuditDebtors(req, r)) \in Nat
  BY DebtNumbers
<1>6. /\ MissingEvents(r)' = changes'[r] - (Len(events'[r]) + Cardinality(EventDebtors(req', r)))
      /\ MissingAudits(r)' = Len(approvals'[r]) - (auditRows'[r] + Cardinality(AuditDebtors(req', r)))
      /\ MissingEvents(r) = changes[r] - (Len(events[r]) + Cardinality(EventDebtors(req, r)))
      /\ MissingAudits(r) = Len(approvals[r]) - (auditRows[r] + Cardinality(AuditDebtors(req, r)))
  BY DEF MissingEvents, MissingAudits, EventDebtors, AuditDebtors, OwesEvent, OwesAudit
<1>7. /\ Cardinality(EventDebtors(req', r)) = Cardinality(EventDebtors(req, r)) + k
      /\ Cardinality(AuditDebtors(req', r)) = Cardinality(AuditDebtors(req, r))
  BY <1>3, <1>4, <1>5
<1> HIDE DEF k
<1>8. changes'[r] - (Len(events'[r]) + Cardinality(EventDebtors(req', r)))
        = changes[r] - (Len(events[r]) + Cardinality(EventDebtors(req, r)))
  BY <1>1, <1>2, <1>5, <1>7
<1> QED
  BY <1>1, <1>6, <1>7, <1>8

LEMMA NextBalance ==
  ASSUME TypeInv, AuditInv, [Next]_vars, NEW r \in Runs, ~ ApiCrash
  PROVE  MissingEvents(r)' = MissingEvents(r) /\ MissingAudits(r)' = MissingAudits(r)
<1>0. /\ changes \in [Runs -> Nat] /\ changes[r] \in Nat
      /\ events \in [Runs -> Seq(Event)] /\ Len(events[r]) \in Nat
      /\ req \in [Reqs -> Request]
  BY LenProperties DEF TypeInv, TypeOK
<1>1. CASE \E q \in Reqs : RequestStep(q)
  BY <1>1, RequestBalance
<1>2. CASE OwnerStarts
  <2>1. PICK q \in Reqs, s \in Runs :
          \/ create_run(q, s)
          \/ \E op \in OwnerOps, target \in RunState \union {"NONE"} : Start(q, op, s, target)
    BY <1>2, StartsAre
  <2>2. CASE create_run(q, s)
    BY <2>2, CreateBalance
  <2>3. CASE ~ create_run(q, s)
    <3>1. PICK op \in OwnerOps, target \in RunState \union {"NONE"} : Start(q, op, s, target)
      BY <2>1, <2>3
    <3>2. /\ changes'[r] = changes[r] + 0 /\ Len(events'[r]) = Len(events[r]) + 0
          /\ approvals' = approvals /\ auditRows' = auditRows
      BY <1>0, <3>1 DEF Start, rows
    <3>3. /\ req[q].pc = "idle" /\ req'[q].pc = "write" /\ \A p \in Reqs : p # q => req'[p] = req[p]
      BY <1>0, <3>1 DEF Start
    <3>4. \A p \in Reqs : req'[p] = req[p] \/ \A u : /\ ~ OwesEvent(req[p], u) /\ ~ OwesEvent(req'[p], u)
                                                     /\ ~ OwesAudit(req[p], u) /\ ~ OwesAudit(req'[p], u)
      BY <3>3 DEF OwesEvent, OwesAudit
    <3> QED
      BY <3>2, <3>4, BalanceFrame
  <2> QED
    BY <2>2, <2>3
<1>3. CASE \E w \in Workers : ClaimNoEngagement(w) \/ ClaimDenied(w)
  <2>1. PICK w \in Workers : ClaimNoEngagement(w) \/ ClaimDenied(w)
    BY <1>3
  <2> DEFINE s == wk[w].run
             new == FailureEvents(w)
  <2>2. s \in Runs
    BY <2>1 DEF ClaimNoEngagement, ClaimDenied, TypeInv, WkOK
  <2>3. new \in Seq(Event) /\ Len(new) \in Nat
    BY FailureEventsLemma
  <2>4. /\ events' = [events EXCEPT ![s] = @ \o new] /\ changes' = [changes EXCEPT ![s] = @ + Len(new)]
        /\ approvals' = approvals /\ auditRows' = auditRows /\ req' = req
    BY <2>1 DEF ClaimNoEngagement, ClaimDenied, FailRun
  <2> HIDE DEF s, new
  <2>5. Len(events[r] \o new) = Len(events[r]) + Len(new)
    BY <1>0, <2>3, ConcatProperties
  <2>6. CASE s = r
    <3>1. changes'[r] = changes[r] + Len(new) /\ Len(events'[r]) = Len(events[r]) + Len(new)
      BY <1>0, <2>2, <2>4, <2>5, <2>6
    <3> QED
      BY <2>3, <2>4, <3>1, BalanceFrame
  <2>7. CASE s # r
    <3>1. changes'[r] = changes[r] + 0 /\ Len(events'[r]) = Len(events[r]) + 0
      BY <1>0, <2>2, <2>4, <2>7
    <3> QED
      BY <2>4, <3>1, BalanceFrame
  <2> QED
    BY <2>6, <2>7
<1>4. CASE \E s \in Runs : CommitStateTx(s)
  <2>1. PICK s \in Runs : CommitStateTx(s)
    BY <1>4
  <2> DEFINE e == Ev(stateTx[s].from, stateTx[s].to, "worker")
  <2>2. e \in Event
    BY <2>1 DEF CommitStateTx, TypeInv, TypeOK, LockOK, TxRecord, Ev, Event
  <2>3. /\ events' = [events EXCEPT ![s] = Append(@, e)] /\ changes' = [changes EXCEPT ![s] = @ + 1]
        /\ approvals' = approvals /\ auditRows' = auditRows /\ req' = req
    BY <2>1 DEF CommitStateTx
  <2> HIDE DEF e
  <2>4. Len(Append(events[r], e)) = Len(events[r]) + 1
    BY <1>0, <2>2, AppendProperties
  <2>5. CASE s = r
    <3>1. changes'[r] = changes[r] + 1 /\ Len(events'[r]) = Len(events[r]) + 1
      BY <1>0, <2>3, <2>4, <2>5
    <3> QED
      BY <2>3, <3>1, BalanceFrame
  <2>6. CASE s # r
    <3>1. changes'[r] = changes[r] + 0 /\ Len(events'[r]) = Len(events[r]) + 0
      BY <1>0, <2>3, <2>6
    <3> QED
      BY <2>3, <3>1, BalanceFrame
  <2> QED
    BY <2>5, <2>6
<1>5. CASE changes' = changes /\ events' = events /\ approvals' = approvals /\ auditRows' = auditRows /\ req' = req
  <2>1. changes'[r] = changes[r] + 0 /\ Len(events'[r]) = Len(events[r]) + 0
    BY <1>0, <1>5
  <2> QED
    BY <1>5, <2>1, BalanceFrame
<1>6. CASE \/ \E w \in Workers : process_jobs(w) \/ ClaimRead(w) \/ ClaimCount(w) \/ ClaimGranted(w) \/ Invoke(w)
                                 \/ submit_step(w) \/ TransitionRead(w) \/ TransitionWrite(w)
                                 \/ process_jobs_timeout(w) \/ AbandonJob(w)
           \/ \E s \in Runs : CommitStepTx(s) \/ EditScope(s)
           \/ UNCHANGED vars
  <2>1. changes' = changes /\ events' = events /\ approvals' = approvals /\ auditRows' = auditRows /\ req' = req
    BY <1>6 DEF process_jobs, ClaimRead, ClaimCount, ClaimGranted, Invoke, submit_step, TransitionRead,
       TransitionWrite, process_jobs_timeout, AbandonJob, CommitStepTx, EditScope, vars, rows
  <2> QED
    BY <1>5, <2>1
<1> QED
  BY <1>1, <1>2, <1>3, <1>4, <1>6 DEF Next, WorkerStep, Commits, Faults

(* A crash forgets what was owed: from then on something may be missing. *)
LEMMA CrashBalance ==
  ASSUME TypeInv, ApiCrash, NEW r \in Runs
  PROVE  /\ MissingEvents(r)' \in Int /\ MissingEvents(r)' >= MissingEvents(r)
         /\ MissingAudits(r)' \in Int /\ MissingAudits(r)' >= MissingAudits(r)
<1>1. changes' = changes /\ events' = events /\ approvals' = approvals /\ auditRows' = auditRows
      /\ \A q \in Reqs : req'[q] = IdleReq
  BY DEF ApiCrash, rows
<1>2. EventDebtors(req', r) = {} /\ AuditDebtors(req', r) = {}
  BY <1>1 DEF EventDebtors, AuditDebtors, OwesEvent, OwesAudit, IdleReq
<1>3. Cardinality(EventDebtors(req', r)) = 0 /\ Cardinality(AuditDebtors(req', r)) = 0
  BY <1>2, FS_EmptySet
<1>4. /\ changes[r] \in Nat /\ Len(events[r]) \in Nat /\ Cardinality(EventDebtors(req, r)) \in Nat
      /\ auditRows[r] \in Nat /\ Len(approvals[r]) \in Nat /\ Cardinality(AuditDebtors(req, r)) \in Nat
  BY DebtNumbers
<1>5. /\ MissingEvents(r)' = changes'[r] - (Len(events'[r]) + Cardinality(EventDebtors(req', r)))
      /\ MissingAudits(r)' = Len(approvals'[r]) - (auditRows'[r] + Cardinality(AuditDebtors(req', r)))
      /\ MissingEvents(r) = changes[r] - (Len(events[r]) + Cardinality(EventDebtors(req, r)))
      /\ MissingAudits(r) = Len(approvals[r]) - (auditRows[r] + Cardinality(AuditDebtors(req, r)))
  BY DEF MissingEvents, MissingAudits, EventDebtors, AuditDebtors, OwesEvent, OwesAudit
<1>6. MissingEvents(r)' \in Int /\ MissingEvents(r)' >= MissingEvents(r)
  BY <1>1, <1>3, <1>4, <1>5
<1>7. MissingAudits(r)' \in Int /\ MissingAudits(r)' >= MissingAudits(r)
  BY <1>1, <1>3, <1>4, <1>5
<1> QED
  BY <1>6, <1>7

LEMMA InitTrail ==
  ASSUME Init
  PROVE  AuditInv /\ \A r \in Runs : MissingEvents(r) = 0 /\ MissingAudits(r) = 0
<1>1. AuditInv
  BY DEF Init, AuditInv, IdleReq
<1>2. ASSUME NEW r \in Runs PROVE MissingEvents(r) = 0 /\ MissingAudits(r) = 0
  <2>1. EventDebtors(req, r) = {} /\ AuditDebtors(req, r) = {}
    BY DEF Init, EventDebtors, AuditDebtors, OwesEvent, OwesAudit, IdleReq
  <2>2. Cardinality(EventDebtors(req, r)) = 0 /\ Cardinality(AuditDebtors(req, r)) = 0
    BY <2>1, FS_EmptySet
  <2>3. Prepared[r] \in 0 .. 3
    BY ConstantsAssumption DEF PreparationPath
  <2>4. Len(events[r]) = Prepared[r]
    <3>1. \A i \in 1 .. 3 : PreparationEvents[i] \in Event
      BY DEF PreparationEvents, Event, Ev, States, RunState
    <3>2. \A i \in 1 .. Prepared[r] : PreparationEvents[i] \in Event
      BY <2>3, <3>1
    <3> QED
      BY <2>3, <3>2, SubSeqProperties DEF Init
  <2>5. changes[r] = Prepared[r] /\ Len(approvals[r]) = 0 /\ auditRows[r] = 0
    BY DEF Init
  <2> QED
    BY <2>2, <2>3, <2>4, <2>5 DEF MissingEvents, MissingAudits
<1> QED
  BY <1>1, <1>2

(* Only a stop of the API counts as one, and no step takes it back. *)
LEMMA StopsCounted ==
  ASSUME TypeInv, [Next]_vars, used'.stops = 0
  PROVE  used.stops = 0 /\ ~ ApiCrash
<1>1. used \in Budget /\ used.stops \in Nat
  BY DEF TypeInv, TypeOK, Budget
<1>2. \A kind : Fault(kind) => used'.stops = IF kind = "api" THEN used.stops + 1 ELSE used.stops
  BY <1>1, FaultLemma
<1>3. ~ ApiCrash
  BY <1>1, <1>2 DEF ApiCrash
<1>4. CASE used' = used \/ \E kind : Fault(kind)
  <2>1. CASE used' = used
    BY <1>3, <2>1
  <2>2. CASE \E kind : Fault(kind)
    <3>1. PICK kind : Fault(kind)
      BY <2>2
    <3>2. used'.stops = IF kind = "api" THEN used.stops + 1 ELSE used.stops
      BY <1>2, <3>1
    <3> QED
      BY <1>1, <1>3, <3>2
  <2> QED
    BY <1>4, <2>1, <2>2
<1>5. CASE OwnerStarts \/ \E r \in Runs : EditScope(r)
  <2>1. \/ used' = [used EXCEPT !.requests = @ + 1]
        \/ used' = [used EXCEPT !.edits = @ + 1]
    BY <1>5 DEF OwnerStarts, create_run, cancel_run, approve_run, reject_run, transition_run,
                Start, EditScope
  <2>2. used'.stops = used.stops
    BY <1>1, <2>1 DEF Budget
  <2> QED
    BY <1>3, <2>2
<1>6. CASE \E q \in Reqs : RequestStep(q)
  <2>1. used' = used \/ \E kind : Fault(kind)
    BY <1>6 DEF RequestStep, CommitState, _record_event, WriteAudit, enqueue_run_job
  <2> QED
    BY <2>1, <1>4
<1>7. CASE \E w \in Workers : WorkerStep(w) \/ process_jobs_timeout(w)
  <2>1. used' = used
    BY <1>7 DEF WorkerStep, process_jobs, ClaimRead, ClaimCount, ClaimNoEngagement, ClaimGranted,
                ClaimDenied, FailRun, Invoke, submit_step, TransitionRead, TransitionWrite,
                process_jobs_timeout, vars
  <2> QED
    BY <2>1, <1>4
<1>8. CASE Commits \/ Faults \/ UNCHANGED vars
  <2>1. used' = used \/ \E kind : Fault(kind)
    BY <1>8 DEF Commits, CommitStateTx, CommitStepTx, Faults, ApiCrash, AbandonJob, vars
  <2> QED
    BY <2>1, <1>4
<1> QED
  BY <1>3, <1>5, <1>6, <1>7, <1>8 DEF Next

NothingMissing ==
  /\ AuditInv
  /\ used.stops = 0 => \A r \in Runs : MissingEvents(r) = 0 /\ MissingAudits(r) = 0

(* As long as the API has not stopped, each committed transition has its   *)
(* RunEvent and each decision its AuditEvent, but for the requests that    *)
(* are still about to record them.  A stop between the commit of a state   *)
(* and the commit of its event loses the event for good.                   *)
THEOREM TrailIsComplete == Spec => []TrailComplete
<1>1. Init => NothingMissing
  BY InitTrail DEF NothingMissing
<1>2. TypeInv /\ NothingMissing /\ [Next]_vars => NothingMissing'
  <2> SUFFICES ASSUME TypeInv, NothingMissing, [Next]_vars PROVE NothingMissing'
    OBVIOUS
  <2>1. AuditInv'
    BY NextAuditInv DEF NothingMissing
  <2>2. ASSUME used'.stops = 0 PROVE \A r \in Runs : MissingEvents(r)' = 0 /\ MissingAudits(r)' = 0
    <3>1. used.stops = 0 /\ ~ ApiCrash
      BY <2>2, StopsCounted
    <3> QED
      BY <3>1, NextBalance DEF NothingMissing
  <2> QED
    BY <2>1, <2>2 DEF NothingMissing
<1>3. TypeInv /\ NothingMissing => TrailComplete
  <2> SUFFICES ASSUME TypeInv, NothingMissing, used.stops = 0, NEW r \in Runs
               PROVE  /\ changes[r] = Len(events[r]) + Cardinality(EventDebtors(req, r))
                      /\ Len(approvals[r]) = auditRows[r] + Cardinality(AuditDebtors(req, r))
    BY DEF TrailComplete, EventDebtors, AuditDebtors, OwesEvent, OwesAudit
  <2>1. /\ changes[r] - (Len(events[r]) + Cardinality(EventDebtors(req, r))) = 0
        /\ Len(approvals[r]) - (auditRows[r] + Cardinality(AuditDebtors(req, r))) = 0
    BY DEF NothingMissing, MissingEvents, MissingAudits
  <2>2. /\ changes[r] \in Nat /\ Len(events[r]) \in Nat /\ Cardinality(EventDebtors(req, r)) \in Nat
        /\ auditRows[r] \in Nat /\ Len(approvals[r]) \in Nat /\ Cardinality(AuditDebtors(req, r)) \in Nat
    BY DebtNumbers
  <2>3. changes[r] = Len(events[r]) + Cardinality(EventDebtors(req, r))
    <3> DEFINE n == Len(events[r]) + Cardinality(EventDebtors(req, r))
    <3>1. n \in Nat /\ changes[r] - n = 0
      BY <2>1, <2>2
    <3> HIDE DEF n
    <3>2. changes[r] = n
      BY <2>2, <3>1
    <3> QED
      BY <3>2 DEF n
  <2>4. Len(approvals[r]) = auditRows[r] + Cardinality(AuditDebtors(req, r))
    BY <2>1, <2>2
  <2> QED
    BY <2>3, <2>4
<1> QED
  BY <1>1, <1>2, <1>3, InitTypeInv, NextTypeInv, PTL DEF Spec

(* Under any faults, the trail never tells of a transition or a decision   *)
(* that was not committed: there are at least as many changes as events    *)
(* written and owed, and as many decisions as AuditEvents.                 *)
TrailTruthful ==
  \A r \in Runs :
    /\ changes[r] >= Len(events[r]) + Cardinality(EventDebtors(req, r))
    /\ Len(approvals[r]) >= auditRows[r] + Cardinality(AuditDebtors(req, r))

NothingInvented == AuditInv /\ \A r \in Runs : MissingEvents(r) >= 0 /\ MissingAudits(r) >= 0

THEOREM TrailIsTruthful == Spec => []TrailTruthful
<1>0. ASSUME TypeInv, NEW r \in Runs
      PROVE  /\ MissingEvents(r) \in Int /\ MissingAudits(r) \in Int
             /\ MissingEvents(r) >= 0 <=> changes[r] >= Len(events[r]) + Cardinality(EventDebtors(req, r))
             /\ MissingAudits(r) >= 0 <=> Len(approvals[r]) >= auditRows[r] + Cardinality(AuditDebtors(req, r))
  <2> DEFINE c == changes[r]
             n == Len(events[r]) + Cardinality(EventDebtors(req, r))
             a == Len(approvals[r])
             m == auditRows[r] + Cardinality(AuditDebtors(req, r))
  <2>1. c \in Nat /\ n \in Nat /\ a \in Nat /\ m \in Nat
    BY <1>0, DebtNumbers
  <2>2. MissingEvents(r) = c - n /\ MissingAudits(r) = a - m
    BY DEF MissingEvents, MissingAudits
  <2> HIDE DEF c, n, a, m
  <2>3. /\ MissingEvents(r) \in Int /\ MissingAudits(r) \in Int
        /\ MissingEvents(r) >= 0 <=> c >= n
        /\ MissingAudits(r) >= 0 <=> a >= m
    BY <2>1, <2>2
  <2> QED
    BY <2>3 DEF c, n, a, m
<1>1. Init => NothingInvented
  BY InitTrail DEF NothingInvented
<1>2. TypeInv /\ NothingInvented /\ [Next]_vars => NothingInvented'
  <2> SUFFICES ASSUME TypeInv, NothingInvented, [Next]_vars PROVE NothingInvented'
    OBVIOUS
  <2>1. AuditInv'
    BY NextAuditInv DEF NothingInvented
  <2>2. ASSUME NEW r \in Runs PROVE MissingEvents(r)' >= 0 /\ MissingAudits(r)' >= 0
    <3>1. CASE ~ ApiCrash
      BY <3>1, NextBalance DEF NothingInvented
    <3>2. CASE ApiCrash
      <4>1. /\ MissingEvents(r)' \in Int /\ MissingEvents(r)' >= MissingEvents(r)
            /\ MissingAudits(r)' \in Int /\ MissingAudits(r)' >= MissingAudits(r)
        BY <3>2, CrashBalance
      <4>2. MissingEvents(r) >= 0 /\ MissingAudits(r) >= 0
        BY DEF NothingInvented
      <4> QED
        BY <1>0, <4>1, <4>2
    <3> QED
      BY <3>1, <3>2
  <2> QED
    BY <2>1, <2>2 DEF NothingInvented
<1>3. TypeInv /\ NothingInvented => TrailTruthful
  BY <1>0 DEF NothingInvented, TrailTruthful
<1> QED
  BY <1>1, <1>2, <1>3, InitTypeInv, NextTypeInv, PTL DEF Spec

-----------------------------------------------------------------------------
(* No job appears without an approval. *)

(* A request that will push, or a worker that has popped, a job of run r. *)
WillPush(d, r) == d.run = r /\ Enqueues(d) /\ d.pc # "write"
HasJob(record, r) == record.pc # "idle" /\ record.run = r

Pushers(slots, r) == {q \in Reqs : WillPush(slots[q], r)}
Holders(pool, r)  == {w \in Workers : HasJob(pool[w], r)}

PlanApproval == [type |-> "plan", status |-> "approved"]

Queuing(r) == Cardinality(Positions(queue, r))
Holding(r) == Cardinality(Holders(wk, r))
Pushing(r) == Cardinality(Pushers(req, r))
Granted(r) == Cardinality(Positions(approvals[r], PlanApproval))

(* The jobs of a run and the approvals of its plan, as JobsBacked says it. *)
JobsInv == \A r \in Runs : Queuing(r) + Holding(r) + Pushing(r) <= Granted(r)

LEMMA JobsInvIsJobsBacked == JobsInv <=> JobsBacked
<1>1. \A r \in Runs :
        /\ Positions(queue, r) = {i \in 1 .. Len(queue) : queue[i] = r}
        /\ Holders(wk, r) = {w \in Workers : Holds(w, r)}
        /\ Pushers(req, r) = {q \in Reqs : req[q].run = r /\ Enqueues(req[q]) /\ req[q].pc # "write"}
        /\ Positions(approvals[r], PlanApproval) = PlanApprovals(r)
  BY DEF Positions, Holders, HasJob, Holds, Pushers, WillPush, PlanApprovals, PlanApproval
<1> QED
  BY <1>1 DEF JobsInv, JobsBacked, LiveJobs, Queuing, Holding, Pushing, Granted

LEMMA JobNumbers ==
  ASSUME TypeInv, NEW r \in Runs
  PROVE  Queuing(r) \in Nat /\ Holding(r) \in Nat /\ Pushing(r) \in Nat /\ Granted(r) \in Nat
<1>1. Holders(wk, r) \in SUBSET Workers /\ Pushers(req, r) \in SUBSET Reqs
  BY DEF Holders, Pushers
<1>2. Holding(r) \in Nat /\ Pushing(r) \in Nat
  BY <1>1, FinitenessAssumption, FS_Subset, FS_CardinalityType DEF Holding, Pushing
<1>3. queue \in Seq(Runs) /\ approvals[r] \in Seq(Approval)
  BY DEF TypeInv, TypeOK
<1>4. Queuing(r) \in Nat /\ Granted(r) \in Nat
  BY <1>3, PositionsFinite DEF Queuing, Granted
<1> QED
  BY <1>2, <1>4

AreNumbers ==
  \A r \in Runs : Queuing(r) \in Nat /\ Holding(r) \in Nat /\ Pushing(r) \in Nat /\ Granted(r) \in Nat

LEMMA JobsAreNumbers == TypeInv => AreNumbers
  BY JobNumbers DEF AreNumbers

(* One worker takes up or ends a job. *)
LEMMA HoldingChange ==
  ASSUME TypeInv, NEW w \in Workers, \A v \in Workers : v # w => wk'[v] = wk[v], NEW r \in Runs
  PROVE  /\ Holding(r)' \in Nat
         /\ Holding(r)' + (IF HasJob(wk[w], r) THEN 1 ELSE 0) = Holding(r) + (IF HasJob(wk'[w], r) THEN 1 ELSE 0)
<1> DEFINE A == Holders(wk, r)
           B == Holders(wk', r)
<1>1. /\ A \in SUBSET Workers /\ B \in SUBSET Workers
      /\ \A v \in Workers : (v \in A <=> HasJob(wk[v], r)) /\ (v \in B <=> HasJob(wk'[v], r))
  BY DEF Holders
<1>2. \A v \in Workers : v # w => (v \in A <=> v \in B)
  BY <1>1
<1>3. Holding(r) = Cardinality(A) /\ Holding(r)' = Cardinality(B)
  BY DEF Holding, Holders, HasJob
<1> HIDE DEF A, B
<1>4. /\ Cardinality(B) \in Nat
      /\ Cardinality(B) + (IF w \in A THEN 1 ELSE 0) = Cardinality(A) + (IF w \in B THEN 1 ELSE 0)
  BY <1>1, <1>2, CountChange, FinitenessAssumption
<1> QED
  BY <1>1, <1>3, <1>4

(* One request moves on. *)
LEMMA PushingChange ==
  ASSUME TypeInv, NEW q \in Reqs, \A p \in Reqs : p # q => req'[p] = req[p], NEW r \in Runs
  PROVE  /\ Pushing(r)' \in Nat
         /\ Pushing(r)' + (IF WillPush(req[q], r) THEN 1 ELSE 0) = Pushing(r) + (IF WillPush(req'[q], r) THEN 1 ELSE 0)
<1> DEFINE A == Pushers(req, r)
           B == Pushers(req', r)
<1>1. /\ A \in SUBSET Reqs /\ B \in SUBSET Reqs
      /\ \A p \in Reqs : (p \in A <=> WillPush(req[p], r)) /\ (p \in B <=> WillPush(req'[p], r))
  BY DEF Pushers
<1>2. \A p \in Reqs : p # q => (p \in A <=> p \in B)
  BY <1>1
<1>3. Pushing(r) = Cardinality(A) /\ Pushing(r)' = Cardinality(B)
  BY DEF Pushing, Pushers, WillPush, Enqueues
<1> HIDE DEF A, B
<1>4. /\ Cardinality(B) \in Nat
      /\ Cardinality(B) + (IF q \in A THEN 1 ELSE 0) = Cardinality(A) + (IF q \in B THEN 1 ELSE 0)
  BY <1>1, <1>2, CountChange, FinitenessAssumption
<1> QED
  BY <1>1, <1>3, <1>4

(* Decisions are only added; one that queues the run adds a plan approval. *)
LEMMA GrantedChange ==
  ASSUME TypeInv, NEW q \in Reqs, CommitState(q), NEW r \in Runs
  PROVE  /\ Granted(r)' \in Nat
         /\ Granted(r)' >= Granted(r) + (IF req[q].run = r /\ Enqueues(req[q]) THEN 1 ELSE 0)
<1> DEFINE d == req[q]
           new == DecisionRows(d)
           old == approvals[r]
<1>1. /\ d.run \in Runs /\ new \in Seq(Approval)
      /\ Enqueues(d) => new = <<PlanApproval>>
  <2>1. d.pc = "write"
    BY DEF CommitState
  <2> QED
    BY <2>1, DecisionRowsLemma DEF TypeInv, ReqOK, Enqueues, PlanApproval
<1>2. old \in Seq(Approval) /\ approvals \in [Runs -> Seq(Approval)]
  BY DEF TypeInv, TypeOK
<1>3. approvals'[r] = IF d.run = r THEN old \o new ELSE old
  BY <1>1, <1>2 DEF CommitState
<1>4. Granted(r) = Cardinality(Positions(old, PlanApproval)) /\ Granted(r) \in Nat
  BY JobNumbers DEF Granted
<1>5. Granted(r)' = Cardinality(Positions(approvals'[r], PlanApproval))
  BY DEF Granted, Positions, PlanApproval
<1> HIDE DEF d, new, old
<1>6. CASE d.run # r
  BY <1>3, <1>4, <1>5, <1>6 DEF d
<1>7. CASE d.run = r /\ Enqueues(d)
  <2>1. PlanApproval \in Approval
    BY DEF PlanApproval, Approval
  <2>2. approvals'[r] = Append(old, PlanApproval)
    BY <1>1, <1>2, <1>3, <1>7, <2>1, AppendIsConcat
  <2>3. Cardinality(Positions(Append(old, PlanApproval), PlanApproval)) = Granted(r) + 1
    BY <1>2, <1>4, <2>1, PositionsAppend
  <2> QED
    BY <1>4, <1>5, <1>7, <2>2, <2>3 DEF d
<1>8. CASE d.run = r /\ ~ Enqueues(d)
  <2>1. /\ Len(old) \in Nat /\ Len(new) \in Nat /\ Len(old \o new) = Len(old) + Len(new)
        /\ \A i \in 1 .. Len(old) + Len(new) : (old \o new)[i] = IF i <= Len(old) THEN old[i] ELSE new[i - Len(old)]
        /\ old \o new \in Seq(Approval)
    BY <1>1, <1>2, ConcatProperties, LenProperties
  <2>2. Positions(old, PlanApproval) \in SUBSET Positions(old \o new, PlanApproval)
    BY <2>1 DEF Positions
  <2>3. /\ IsFiniteSet(Positions(old \o new, PlanApproval))
        /\ Cardinality(Positions(old \o new, PlanApproval)) \in Nat
    BY <2>1, PositionsFinite
  <2>4. Granted(r) <= Cardinality(Positions(old \o new, PlanApproval))
    BY <1>4, <2>2, <2>3, FS_Subset
  <2> QED
    BY <1>3, <1>4, <1>5, <1>8, <2>3, <2>4 DEF d
<1> QED
  BY <1>6, <1>7, <1>8

(* What a part of the state does not touch keeps its count. *)
LEMMA JobFrames ==
  ASSUME NEW r \in Runs
  PROVE  /\ queue' = queue => Queuing(r)' = Queuing(r)
         /\ wk' = wk => Holding(r)' = Holding(r)
         /\ req' = req => Pushing(r)' = Pushing(r)
         /\ approvals' = approvals => Granted(r)' = Granted(r)
<1>1. queue' = queue => Queuing(r)' = Queuing(r)
  BY DEF Queuing, Positions
<1>2. wk' = wk => Holding(r)' = Holding(r)
  BY DEF Holding, Holders, HasJob
<1>3. req' = req => Pushing(r)' = Pushing(r)
  BY DEF Pushing, Pushers, WillPush, Enqueues
<1>4. approvals' = approvals => Granted(r)' = Granted(r)
  BY DEF Granted, Positions
<1> QED
  BY <1>1, <1>2, <1>3, <1>4

(* A step makes no more jobs of a run than it approves plans of it. *)
Spent(r) ==
  Queuing(r)' + Holding(r)' + Pushing(r)' + Granted(r) <= Queuing(r) + Holding(r) + Pushing(r) + Granted(r)'

(* A request: an approval comes with the right to push one job, once. *)
LEMMA RequestJobs ==
  ASSUME TypeInv, ApprovedInv, NEW q \in Reqs, RequestStep(q), NEW r \in Runs
  PROVE  Spent(r)
<1> DEFINE d == req[q]
           d1 == req'[q]
           kq == Queuing(r)
           kw == Holding(r)
           kp == Pushing(r)
           kg == Granted(r)
<1>0. /\ req \in [Reqs -> Request] /\ d \in Request /\ \A p \in Reqs : p # q => req'[p] = req[p]
      /\ queue \in Seq(Runs) /\ wk' = wk
  BY DEF TypeInv, TypeOK, RequestStep, CommitState, _record_event, WriteAudit, enqueue_run_job
<1>1. kq \in Nat /\ kw \in Nat /\ kp \in Nat /\ kg \in Nat
  BY JobNumbers
<1>2. /\ Pushing(r)' \in Nat
      /\ Pushing(r)' + (IF WillPush(d, r) THEN 1 ELSE 0) = kp + (IF WillPush(d1, r) THEN 1 ELSE 0)
  BY <1>0, PushingChange
<1>3. Holding(r)' = kw
  BY <1>0, JobFrames
<1>4. ~ WillPush(IdleReq, r)
  BY DEF WillPush, Enqueues, IdleReq
<1>5. CASE CommitState(q)
  <2>1. d.pc = "write" /\ d1 = [d EXCEPT !.pc = "event"]
    BY <1>0, <1>5 DEF CommitState
  <2>2. d1.pc = "event" /\ d1.run = d.run /\ d1.op = d.op /\ d1.to = d.to
    BY <1>0, <2>1 DEF Request
  <2>3. ~ WillPush(d, r) /\ (WillPush(d1, r) <=> d.run = r /\ Enqueues(d))
    BY <2>1, <2>2 DEF WillPush, Enqueues
  <2>4. Queuing(r)' = kq
    BY <1>5, JobFrames DEF CommitState
  <2>5. /\ Granted(r)' \in Nat
        /\ Granted(r)' >= kg + (IF d.run = r /\ Enqueues(d) THEN 1 ELSE 0)
    BY <1>5, GrantedChange
  <2> HIDE DEF d, d1, kq, kw, kp, kg
  <2>6. Pushing(r)' = kp + (IF d.run = r /\ Enqueues(d) THEN 1 ELSE 0)
    BY <1>1, <1>2, <2>3
  <2>7. Queuing(r)' + Holding(r)' + Pushing(r)' + kg <= kq + kw + kp + Granted(r)'
    BY <1>1, <1>3, <2>4, <2>5, <2>6
  <2> QED
    BY <2>7 DEF Spent, kq, kw, kp, kg
<1>6. CASE _record_event(q) \/ WriteAudit(q)
  <2>1. Queuing(r)' = kq /\ Granted(r)' = kg
    BY <1>6, JobFrames DEF _record_event, WriteAudit
  <2>2. d.pc \in {"event", "audit"}
    BY <1>6 DEF _record_event, WriteAudit
  <2>3. d1 = IdleReq \/ \E pc \in {"audit", "enqueue"} : d1 = [d EXCEPT !.pc = pc]
    BY <1>0, <1>6 DEF _record_event, WriteAudit
  <2>4. WillPush(d1, r) => WillPush(d, r)
    <3>1. CASE d1 = IdleReq
      BY <1>4, <3>1
    <3>2. CASE \E pc \in {"audit", "enqueue"} : d1 = [d EXCEPT !.pc = pc]
      <4>1. d1.run = d.run /\ d1.op = d.op /\ d1.to = d.to
        BY <1>0, <3>2 DEF Request
      <4> QED
        BY <2>2, <4>1 DEF WillPush, Enqueues
    <3> QED
      BY <2>3, <3>1, <3>2
  <2> HIDE DEF d, d1, kq, kw, kp, kg
  <2>5. Pushing(r)' <= kp
    BY <1>1, <1>2, <2>4
  <2>6. Queuing(r)' + Holding(r)' + Pushing(r)' + kg <= kq + kw + kp + Granted(r)'
    BY <1>1, <1>2, <1>3, <2>1, <2>5
  <2> QED
    BY <2>6 DEF Spent, kq, kw, kp, kg
<1>7. CASE enqueue_run_job(q)
  <2>1. Granted(r)' = kg
    BY <1>7, JobFrames DEF enqueue_run_job, rows
  <2>2. d.pc = "enqueue" /\ d.run \in Runs /\ d1 = IdleReq /\ Enqueues(d)
    BY <1>0, <1>7 DEF enqueue_run_job, TypeInv, ReqOK, ApprovedInv
  <2>3. ~ WillPush(d1, r) /\ (WillPush(d, r) <=> d.run = r)
    BY <1>4, <2>2 DEF WillPush
  <2>4. Queuing(r)' \in Nat /\ Queuing(r)' <= kq + (IF d.run = r THEN 1 ELSE 0)
    <3>1. CASE queue' = queue
      BY <1>1, <3>1, JobFrames
    <3>2. CASE queue' = Append(queue, d.run)
      <4>1. Cardinality(Positions(Append(queue, d.run), r)) = Cardinality(Positions(queue, r)) + (IF d.run = r THEN 1 ELSE 0)
        BY <1>0, <2>2, PositionsAppend
      <4>2. Queuing(r)' = Cardinality(Positions(queue', r)) /\ kq = Cardinality(Positions(queue, r))
        BY DEF Queuing, Positions
      <4> HIDE DEF d, kq
      <4> QED
        BY <1>1, <3>2, <4>1, <4>2
    <3> QED
      BY <1>7, <3>1, <3>2 DEF enqueue_run_job
  <2> HIDE DEF d, d1, kq, kw, kp, kg
  <2>5. Pushing(r)' + (IF d.run = r THEN 1 ELSE 0) = kp
    BY <1>1, <1>2, <2>3
  <2>6. Queuing(r)' + Holding(r)' + Pushing(r)' + kg <= kq + kw + kp + Granted(r)'
    BY <1>1, <1>2, <1>3, <2>1, <2>4, <2>5
  <2> QED
    BY <2>6 DEF Spent, kq, kw, kp, kg
<1> QED
  BY <1>5, <1>6, <1>7 DEF RequestStep

(* A worker: a job moves from the list into its hands, and may be dropped. *)
LEMMA WorkerJobs ==
  ASSUME TypeInv, NEW w \in Workers, WorkerStep(w) \/ AbandonJob(w), NEW r \in Runs
  PROVE  Spent(r)
<1> DEFINE kq == Queuing(r)
           kw == Holding(r)
           kp == Pushing(r)
           kg == Granted(r)
           b == wk[w]
           b1 == wk'[w]
<1>0. /\ wk \in [Workers -> Worker] /\ queue \in Seq(Runs)
      /\ approvals' = approvals /\ req' = req
      /\ \A v \in Workers : v # w => wk'[v] = wk[v]
  BY DEF TypeInv, TypeOK, WorkerStep, process_jobs, ClaimRead, ClaimCount, ClaimNoEngagement, ClaimGranted,
     ClaimDenied, FailRun, Invoke, submit_step, TransitionRead, TransitionWrite, AbandonJob, rows
<1>1. kq \in Nat /\ kw \in Nat /\ kp \in Nat /\ kg \in Nat
  BY JobNumbers
<1>2. /\ Holding(r)' \in Nat
      /\ Holding(r)' + (IF HasJob(b, r) THEN 1 ELSE 0) = kw + (IF HasJob(b1, r) THEN 1 ELSE 0)
  BY <1>0, HoldingChange
<1>3. Pushing(r)' = kp /\ Granted(r)' = kg
  BY <1>0, JobFrames
<1>4. CASE process_jobs(w)
  <2>1. queue # <<>> /\ queue' = Tail(queue) /\ b.pc = "idle"
    BY <1>4 DEF process_jobs
  <2>2. b1.pc = "claim" /\ b1.run = Head(queue)
    BY <1>0, <1>4 DEF process_jobs, Worker
  <2>3. ~ HasJob(b, r) /\ (HasJob(b1, r) <=> Head(queue) = r)
    BY <2>1, <2>2 DEF HasJob
  <2>4. Cardinality(Positions(queue, r)) = Cardinality(Positions(Tail(queue), r)) + (IF Head(queue) = r THEN 1 ELSE 0)
    BY <1>0, <2>1, PositionsTail
  <2>5. Queuing(r)' = Cardinality(Positions(queue', r)) /\ kq = Cardinality(Positions(queue, r))
    BY DEF Queuing, Positions
  <2>6. Cardinality(Positions(Tail(queue), r)) \in Nat
    BY <1>0, <2>1, HeadTailProperties, PositionsFinite
  <2> HIDE DEF b, b1, kq, kw, kp, kg
  <2>7. Holding(r)' = kw + (IF Head(queue) = r THEN 1 ELSE 0)
    BY <1>1, <1>2, <2>3
  <2>8. Queuing(r)' \in Nat /\ kq = Queuing(r)' + (IF Head(queue) = r THEN 1 ELSE 0)
    BY <2>1, <2>4, <2>5, <2>6
  <2>9. Queuing(r)' + Holding(r)' + Pushing(r)' + kg <= kq + kw + kp + Granted(r)'
    BY <1>1, <1>3, <2>7, <2>8
  <2> QED
    BY <2>9 DEF Spent, kq, kw, kp, kg
<1>5. CASE ~ process_jobs(w)
  <2>1. Queuing(r)' = kq
    BY <1>5, JobFrames DEF WorkerStep, ClaimRead, ClaimCount, ClaimNoEngagement, ClaimGranted,
       ClaimDenied, FailRun, Invoke, submit_step, TransitionRead, TransitionWrite, AbandonJob
  <2>2. HasJob(b1, r) => HasJob(b, r)
    <3>1. CASE b1 = IdleWorker
      BY <3>1 DEF HasJob, IdleWorker
    <3>2. CASE b1 # IdleWorker
      <4>1. b.pc # "idle" /\ b1.run = b.run
        <5>1. CASE ClaimRead(w)
          BY <1>0, <3>2, <5>1 DEF ClaimRead, Worker
        <5>2. CASE ClaimCount(w)
          BY <1>0, <5>2 DEF ClaimCount, Worker
        <5>3. CASE ClaimNoEngagement(w) \/ ClaimDenied(w) \/ TransitionWrite(w) \/ AbandonJob(w)
          BY <1>0, <3>2, <5>3 DEF ClaimNoEngagement, ClaimDenied, FailRun, TransitionWrite, AbandonJob
        <5>4. CASE ClaimGranted(w) \/ Invoke(w) \/ submit_step(w)
          BY <1>0, <5>4 DEF ClaimGranted, Invoke, submit_step, Worker
        <5>5. CASE TransitionRead(w)
          BY <1>0, <3>2, <5>5 DEF TransitionRead, Worker
        <5> QED
          BY <1>5, <5>1, <5>2, <5>3, <5>4, <5>5 DEF WorkerStep
      <4> QED
        BY <4>1 DEF HasJob
    <3> QED
      BY <3>1, <3>2
  <2> HIDE DEF b, b1, kq, kw, kp, kg
  <2>3. Holding(r)' <= kw
    BY <1>1, <1>2, <2>2
  <2>4. Queuing(r)' + Holding(r)' + Pushing(r)' + kg <= kq + kw + kp + Granted(r)'
    BY <1>1, <1>2, <1>3, <2>1, <2>3
  <2> QED
    BY <2>4 DEF Spent, kq, kw, kp, kg
<1> QED
  BY <1>4, <1>5

LEMMA InitJobs == Init => JobsInv
<1> SUFFICES ASSUME Init, NEW r \in Runs PROVE Queuing(r) + Holding(r) + Pushing(r) <= Granted(r)
  BY DEF JobsInv
<1>1. /\ Positions(queue, r) = {} /\ Positions(approvals[r], PlanApproval) = {}
      /\ Holders(wk, r) = {} /\ Pushers(req, r) = {}
  BY DEF Init, Positions, Holders, HasJob, IdleWorker, Pushers, WillPush, Enqueues, IdleReq
<1> QED
  BY <1>1, FS_EmptySet DEF Queuing, Holding, Pushing, Granted

(* An owner request that starts does not hold a job yet. *)
LEMMA StartJobs ==
  ASSUME TypeInv, OwnerStarts, NEW r \in Runs
  PROVE  Spent(r)
<1>1. PICK q \in Reqs, s \in Runs :
        \/ create_run(q, s)
        \/ \E op \in OwnerOps, target \in RunState \union {"NONE"} : Start(q, op, s, target)
  BY StartsAre
<1>2. req \in [Reqs -> Request]
  BY DEF TypeInv, TypeOK
<1>3. queue' = queue /\ wk' = wk /\ approvals' = approvals
  BY <1>1 DEF create_run, Start, rows
<1>4. \A p \in Reqs : p # q => req'[p] = req[p]
  BY <1>1, <1>2 DEF create_run, Start
<1>5. ~ WillPush(req'[q], r)
  BY <1>1, <1>2 DEF create_run, Start, WillPush, Enqueues
<1>6. Queuing(r)' = Queuing(r) /\ Holding(r)' = Holding(r) /\ Granted(r)' = Granted(r)
  BY <1>3, JobFrames
<1>7. Queuing(r) \in Nat /\ Holding(r) \in Nat /\ Pushing(r) \in Nat /\ Granted(r) \in Nat
  BY JobNumbers
<1>8. Pushing(r)' \in Nat /\ Pushing(r)' <= Pushing(r)
  BY <1>4, <1>5, <1>7, PushingChange
<1> QED
  BY <1>6, <1>7, <1>8 DEF Spent

(* A crash of the API loses jobs and makes none. *)
LEMMA CrashJobs ==
  ASSUME TypeInv, ApiCrash, NEW r \in Runs
  PROVE  Spent(r)
<1>1. Queuing(r)' = Queuing(r) /\ Granted(r)' = Granted(r)
  BY JobFrames DEF ApiCrash, rows
<1>2. Queuing(r) \in Nat /\ Holding(r) \in Nat /\ Pushing(r) \in Nat /\ Granted(r) \in Nat
  BY JobNumbers
<1>3. Pushing(r)' = 0
  <2>1. Pushers(req', r) = {}
    BY DEF ApiCrash, Pushers, WillPush, Enqueues, IdleReq
  <2>2. Pushing(r)' = Cardinality(Pushers(req', r))
    BY DEF Pushing, Pushers, WillPush, Enqueues
  <2> QED
    BY <2>1, <2>2, FS_EmptySet
<1>4. Holding(r)' \in Nat /\ Holding(r)' <= Holding(r)
  <2>1. \A w \in Workers : wk'[w] = IdleWorker \/ wk'[w] = wk[w]
    BY DEF ApiCrash
  <2>2. Holders(wk', r) \in SUBSET Holders(wk, r)
    BY <2>1 DEF Holders, HasJob, IdleWorker
  <2>3. Holding(r)' = Cardinality(Holders(wk', r))
    BY DEF Holding, Holders, HasJob
  <2>4. IsFiniteSet(Holders(wk, r))
    BY FinitenessAssumption, FS_Subset DEF Holders
  <2> QED
    BY <2>2, <2>3, <2>4, FS_Subset, FS_CardinalityType DEF Holding
<1> QED
  BY <1>1, <1>2, <1>3, <1>4 DEF Spent

LEMMA NextSpent ==
  ASSUME TypeInv, ApprovedInv, [Next]_vars, NEW r \in Runs
  PROVE  Spent(r)
<1>1. CASE OwnerStarts
  BY <1>1, StartJobs
<1>2. CASE \E q \in Reqs : RequestStep(q)
  BY <1>2, RequestJobs
<1>3. CASE \E w \in Workers : WorkerStep(w) \/ AbandonJob(w)
  BY <1>3, WorkerJobs
<1>4. CASE ApiCrash
  BY <1>4, CrashJobs
<1>5. CASE \/ \E w \in Workers : process_jobs_timeout(w)
           \/ Commits \/ (\E s \in Runs : EditScope(s)) \/ UNCHANGED vars
  <2>1. queue' = queue /\ wk' = wk /\ req' = req /\ approvals' = approvals
    BY <1>5 DEF process_jobs_timeout, Commits, CommitStateTx, CommitStepTx, EditScope, vars, rows
  <2>2. /\ Queuing(r)' = Queuing(r) /\ Holding(r)' = Holding(r)
        /\ Pushing(r)' = Pushing(r) /\ Granted(r)' = Granted(r)
    BY <2>1, JobFrames
  <2>3. Queuing(r) \in Nat /\ Holding(r) \in Nat /\ Pushing(r) \in Nat /\ Granted(r) \in Nat
    BY JobNumbers
  <2> QED
    BY <2>2, <2>3 DEF Spent
<1> QED
  BY <1>1, <1>2, <1>3, <1>4, <1>5 DEF Next, Faults

LEMMA NextJobsInv == TypeInv /\ ApprovedInv /\ JobsInv /\ [Next]_vars => JobsInv'
<1> SUFFICES ASSUME TypeInv, ApprovedInv, JobsInv, [Next]_vars PROVE JobsInv'
  OBVIOUS
<1>1. TypeInv'
  BY NextTypeInv
<1>2. \A r \in Runs : Queuing(r)' \in Nat /\ Holding(r)' \in Nat /\ Pushing(r)' \in Nat /\ Granted(r)' \in Nat
  <2>1. AreNumbers'
    BY <1>1, JobsAreNumbers, PTL
  <2> QED
    BY <2>1 DEF AreNumbers
<1>3. ASSUME NEW r \in Runs PROVE Queuing(r)' + Holding(r)' + Pushing(r)' <= Granted(r)'
  BY <1>2, NextSpent, JobNumbers DEF Spent, JobsInv
<1> QED
  BY <1>3 DEF JobsInv

(* JobsBacked, for any pool of workers, any number of requests in flight   *)
(* and any faults: an approval is good for one job, which is about to be   *)
(* pushed, on the list or in one worker's hands, and never in two places.  *)
(* enqueue_run_job and the BRPOP of process_jobs neither make nor copy one.*)
THEOREM JobsAreBacked == Spec => []JobsBacked
<1>1. Init => TypeInv /\ ApprovedInv /\ JobsInv
  BY InitTypeInv, InitApprovedInv, InitJobs
<1>2. TypeInv /\ ApprovedInv /\ JobsInv /\ [Next]_vars => (TypeInv /\ ApprovedInv /\ JobsInv)'
  BY NextTypeInv, NextApprovedInv, NextJobsInv
<1>3. JobsInv => JobsBacked
  BY JobsInvIsJobsBacked
<1> QED
  BY <1>1, <1>2, <1>3, PTL DEF Spec

(* ApprovalsSpentOnce, for any pools, requests and faults: only            *)
(* CommitState of an approval brings a job, with the row that grants it;   *)
(* everybody else passes a job on or drops it.                             *)
THEOREM NoJobTwice == Spec => ApprovalsSpentOnce
<1>1. TypeInv /\ ApprovedInv /\ [Next]_vars =>
        \A r \in Runs : LiveJobs(r)' + Cardinality(PlanApprovals(r))
                          <= LiveJobs(r) + Cardinality(PlanApprovals(r))'
  <2> SUFFICES ASSUME TypeInv, ApprovedInv, [Next]_vars, NEW r \in Runs
               PROVE  LiveJobs(r)' + Cardinality(PlanApprovals(r))
                        <= LiveJobs(r) + Cardinality(PlanApprovals(r))'
    OBVIOUS
  <2>1. /\ LiveJobs(r) = Queuing(r) + Holding(r) + Pushing(r)
        /\ LiveJobs(r)' = Queuing(r)' + Holding(r)' + Pushing(r)'
        /\ Cardinality(PlanApprovals(r)) = Granted(r)
        /\ Cardinality(PlanApprovals(r))' = Granted(r)'
    BY DEF LiveJobs, Queuing, Holding, Pushing, Granted, Positions, Holders, HasJob, Holds,
       Pushers, WillPush, Enqueues, PlanApprovals, PlanApproval
  <2> QED
    BY <2>1, NextSpent DEF Spent
<1>2. Init => TypeInv /\ ApprovedInv
  BY InitTypeInv, InitApprovedInv
<1>3. TypeInv /\ ApprovedInv /\ [Next]_vars => (TypeInv /\ ApprovedInv)'
  BY NextTypeInv, NextApprovedInv
<1> QED
  BY <1>1, <1>2, <1>3, PTL DEF Spec, ApprovalsSpentOnce

-----------------------------------------------------------------------------
(* The concurrency limit.  The scope check counts the active runs of the    *)
(* project as it reads them, so the limit holds as long as a run that is    *)
(* being executed stays active.  It does while the owner neither cancels    *)
(* nor moves runs by hand and sends one request at a time: otherwise the    *)
(* run is taken from under the worker, or gets a second one, whose failure  *)
(* frees the slot of the first.                                             *)

Undisturbed ==
  /\ OwnerOps \intersect {"cancel", "transition"} = {}
  /\ \A p, q \in Reqs : p = q
  /\ IsFiniteSet(Runs) /\ MaxConcurrent > 0

(* Before its plan is approved, and after that. *)
Waiting == {"NONE", "DRAFT", "PLANNING", "AWAITING_PLAN_APPROVAL"}
Beyond  == {"QUEUED", "RUNNING", "COMPLETED", "FAILED", "CANCELLED"}

Begun     == {"count", "scope", "invoke", "submit"}
Executing == {"invoke", "submit"}

(* A run is approved once, and until then nobody else touches it. *)
GateInv ==
  \A r \in Runs :
    /\ runState[r] \in Waiting \union Beyond
    /\ runState[r] \in Waiting => Granted(r) = 0 /\ stateTx[r] = NoTx
    /\ Granted(r) <= 1
    /\ stateTx[r].to \in {"NONE", "RUNNING", "COMPLETED", "FAILED"}

(* What a decision was taken on still holds. *)
FreshInv ==
  \A q \in Reqs : req[q].pc = "write" =>
    /\ req[q].op \in {"approve", "reject"} /\ req[q].to \in {"QUEUED", "CANCELLED"}
    /\ req[q].seen = "AWAITING_PLAN_APPROVAL" /\ runState[req[q].run] = "AWAITING_PLAN_APPROVAL"

(* Somebody has a job of run r. *)
JobOf(jobs, pool, slots, r) ==
  \/ \E i \in 1 .. Len(jobs) : jobs[i] = r
  \/ \E w \in Workers : HasJob(pool[w], r)
  \/ \E q \in Reqs : WillPush(slots[q], r)

(* Who reports the end of a run has been the last with a job of it. *)
EndedInv ==
  \A r \in Runs : stateTx[r].to \in {"COMPLETED", "FAILED"} => ~ JobOf(queue, wk, req, r)

BegunInv == \A w \in Workers : wk[w].pc \in Begun => runState[wk[w].run] \in {"QUEUED", "RUNNING"}

(* The runs of project p, engaged in it, that the workers execute. *)
RunsExecuted(pool, p) ==
  {r \in Runs : /\ ProjectOf[r] = p /\ EngagedAtHome(r)
               /\ \E w \in Workers : HasJob(pool[w], r) /\ pool[w].pc \in Executing}

LimitInv == \A p \in Projects : Cardinality(RunsExecuted(wk, p)) < MaxConcurrent

SlotInv == GateInv /\ FreshInv /\ EndedInv /\ BegunInv /\ LimitInv

Base == TypeInv /\ ApprovedInv /\ JobsInv /\ SlotInv

LEMMA LimitIsBound == LimitInv => ConcurrencyBounded
<1>1. \A p : RunsExecuted(wk, p)
              = {r \in Runs : ProjectOf[r] = p /\ EngagedAtHome(r) /\ InExecution(r)}
  BY DEF RunsExecuted, HasJob, Holds, Executing, InExecution
<1> QED
  BY <1>1 DEF LimitInv, ConcurrencyBounded

(* A worker has a run whose plan is approved, and the only job of it. *)
LEMMA HeldIsBeyond ==
  ASSUME Base, NEW w \in Workers, wk[w].pc # "idle"
  PROVE  wk[w].run \in Runs /\ runState[wk[w].run] \in Beyond
<1> DEFINE r == wk[w].run
<1>1. r \in Runs /\ Approved(approvals, r)
  BY DEF Base, TypeInv, WkOK, ApprovedInv
<1>2. Positions(approvals[r], PlanApproval) # {}
  BY <1>1 DEF Approved, Positions, PlanApproval
<1>3. approvals[r] \in Seq(Approval)
  BY <1>1 DEF Base, TypeInv, TypeOK
<1>4. Granted(r) # 0
  BY <1>2, <1>3, PositionsFinite, FS_EmptySet DEF Granted
<1> QED
  BY <1>1, <1>4 DEF Base, SlotInv, GateInv

LEMMA AtLeastOne ==
  ASSUME NEW S, IsFiniteSet(S), NEW x \in S
  PROVE  Cardinality(S) \in Nat /\ Cardinality(S) >= 1
BY FS_EmptySet, FS_CardinalityType

LEMMA AtLeastTwo ==
  ASSUME NEW S, IsFiniteSet(S), NEW x \in S, NEW y \in S, x # y
  PROVE  Cardinality(S) \in Nat /\ Cardinality(S) >= 2
<1>1. /\ IsFiniteSet(S \ {x}) /\ Cardinality(S \ {x}) = Cardinality(S) - 1
      /\ Cardinality(S) \in Nat
  BY FS_RemoveElement, FS_CardinalityType
<1>2. Cardinality(S \ {x}) >= 1
  BY <1>1, AtLeastOne
<1> QED
  BY <1>1, <1>2

LEMMA OnlyJob ==
  ASSUME Base, NEW w \in Workers, NEW r \in Runs, HasJob(wk[w], r)
  PROVE  /\ \A i \in 1 .. Len(queue) : queue[i] # r
         /\ \A v \in Workers : HasJob(wk[v], r) => v = w
         /\ \A q \in Reqs : ~ WillPush(req[q], r)
<1> DEFINE kq == Queuing(r)
           kw == Holding(r)
           kp == Pushing(r)
           kg == Granted(r)
<1>1. /\ kq \in Nat /\ kw \in Nat /\ kp \in Nat /\ kg \in Nat
      /\ kq + kw + kp <= kg /\ kg <= 1
  BY JobNumbers DEF Base, JobsInv, SlotInv, GateInv
<1>2. queue \in Seq(Runs)
  BY DEF Base, TypeInv, TypeOK
<1>3. /\ IsFiniteSet(Holders(wk, r)) /\ IsFiniteSet(Pushers(req, r)) /\ IsFiniteSet(Positions(queue, r))
  BY <1>2, PositionsFinite, FinitenessAssumption, FS_Subset DEF Holders, Pushers
<1>4. w \in Holders(wk, r)
  BY DEF Holders
<1>5. kw >= 1
  BY <1>3, <1>4, AtLeastOne DEF Holding
<1>6. \A v \in Workers : HasJob(wk[v], r) /\ v # w => kw >= 2
  BY <1>3, <1>4, AtLeastTwo DEF Holding, Holders
<1>7. \A q \in Reqs : WillPush(req[q], r) => kp >= 1
  BY <1>3, AtLeastOne DEF Pushing, Pushers
<1>8. \A i \in 1 .. Len(queue) : queue[i] = r => kq >= 1
  BY <1>3, AtLeastOne DEF Queuing, Positions
<1> HIDE DEF kq, kw, kp, kg
<1>9. kq = 0 /\ kw = 1 /\ kp = 0
  BY <1>1, <1>5
<1> QED
  BY <1>6, <1>7, <1>8, <1>9

(* What a worker does to its own job and to its run. *)
Terminal == {"COMPLETED", "FAILED"}

LEMMA WorkerEffects ==
  ASSUME TypeInv, NEW w \in Workers, WorkerStep(w), ~ process_jobs(w)
  PROVE  LET r == wk[w].run
             b == wk[w]
             b1 == wk'[w]
         IN /\ b.pc # "idle" /\ r \in Runs
            /\ b1.pc # "idle" => b1.run = r
            /\ b1.pc \in Begun => b.pc \in Begun \/ runState[r] \in {"QUEUED", "RUNNING"}
            /\ b1.pc \in Executing => b.pc \in Executing \/ ClaimGranted(w)
            /\ queue' = queue /\ req' = req /\ approvals' = approvals
            /\ \A v \in Workers : v # w => wk'[v] = wk[v]
            /\ \/ runState' = runState
               \/ b1 = IdleWorker /\ runState' = [runState EXCEPT ![r] = "FAILED"]
            /\ \A s \in Runs : s # r => stateTx'[s] = stateTx[s]
            /\ \/ stateTx'[r] = stateTx[r]
               \/ stateTx'[r].to \in {"NONE", "RUNNING"}
               \/ b1 = IdleWorker /\ stateTx'[r].to \in Terminal
<1> DEFINE r == wk[w].run
           b == wk[w]
           b1 == wk'[w]
<1>0. /\ wk \in [Workers -> Worker] /\ stateTx \in [Runs -> TxRecord] /\ (b.pc # "idle" => r \in Runs)
  BY DEF TypeInv, TypeOK, WkOK
<1>1. /\ b.pc # "idle" /\ r \in Runs
      /\ queue' = queue /\ req' = req /\ approvals' = approvals
      /\ \A v \in Workers : v # w => wk'[v] = wk[v]
  BY <1>0 DEF WorkerStep, ClaimRead, ClaimCount, ClaimNoEngagement, ClaimGranted,
     ClaimDenied, FailRun, Invoke, submit_step, TransitionRead, TransitionWrite, rows
<1>2. IdleWorker.pc = "idle" /\ NoTx.to = "NONE" /\ \A f, t, p : Tx(f, t, p).to = t
  BY DEF IdleWorker, NoTx, Tx
<1>3. CASE ClaimRead(w)
  <2>1. runState' = runState /\ stateTx' = stateTx
    BY <1>3 DEF ClaimRead, rows, tx
  <2>2. CASE b1 = IdleWorker
    BY <1>1, <1>2, <2>1, <2>2 DEF Begun, Executing
  <2>3. CASE b1 # IdleWorker
    <3>1. b1.pc = "count" /\ b1.run = r /\ runState[r] \in {"QUEUED", "RUNNING"}
      BY <1>0, <1>3, <2>3 DEF ClaimRead, Worker
    <3> QED
      BY <1>1, <2>1, <3>1 DEF Executing
  <2> QED
    BY <2>2, <2>3
<1>4. CASE ClaimCount(w)
  <2> DEFINE done == completed_count(r) >= PlanLen[r]
  <2>1. runState' = runState /\ b.pc = "count"
    BY <1>4 DEF ClaimCount, rows
  <2>2. stateTx' = stateTx \/ stateTx' = [stateTx EXCEPT ![r] = Tx("QUEUED", "RUNNING", done)]
    BY <1>4 DEF ClaimCount, Claims
  <2>3. b1.pc \in {"transition", "scope"} /\ b1.run = r
    <3>1. CASE done
      BY <1>0, <1>4, <3>1 DEF ClaimCount, Worker
    <3>2. CASE ~ done
      BY <1>0, <1>4, <3>2 DEF ClaimCount, Worker
    <3> QED
      BY <3>1, <3>2
  <2> HIDE DEF done
  <2>4. /\ \A s \in Runs : s # r => stateTx'[s] = stateTx[s]
        /\ stateTx'[r] = stateTx[r] \/ stateTx'[r].to = "RUNNING"
    BY <1>0, <1>1, <1>2, <2>2
  <2> QED
    BY <1>1, <2>1, <2>3, <2>4 DEF Begun, Executing
<1>5. CASE ClaimNoEngagement(w) \/ ClaimDenied(w)
  <2>1. /\ b1 = IdleWorker /\ runState' = [runState EXCEPT ![r] = "FAILED"]
        /\ stateTx' = stateTx \/ stateTx' = [stateTx EXCEPT ![r] = NoTx]
    BY <1>0, <1>5 DEF ClaimNoEngagement, ClaimDenied, FailRun
  <2>2. /\ \A s \in Runs : s # r => stateTx'[s] = stateTx[s]
        /\ stateTx'[r] = stateTx[r] \/ stateTx'[r].to = "NONE"
    BY <1>0, <1>1, <1>2, <2>1
  <2> QED
    BY <1>1, <1>2, <2>1, <2>2 DEF Begun, Executing
<1>6. CASE ClaimGranted(w)
  <2>1. runState' = runState /\ b.pc = "scope" /\ b1.pc = "invoke" /\ b1.run = r
    BY <1>0, <1>6 DEF ClaimGranted, rows, Worker
  <2>2. stateTx' = stateTx \/ (b.seen = "QUEUED" /\ stateTx' = [stateTx EXCEPT ![r].replied = TRUE])
    BY <1>6 DEF ClaimGranted
  <2>3. CASE stateTx' = stateTx
    BY <1>1, <1>6, <2>1, <2>3 DEF Begun
  <2>4. CASE b.seen = "QUEUED" /\ stateTx' = [stateTx EXCEPT ![r].replied = TRUE]
    <3>1. stateTx[r] = Tx("QUEUED", "RUNNING", FALSE)
      BY <1>1, <2>1, <2>4 DEF TypeInv, LockOK, Owns
    <3>2. /\ stateTx'[r] = [stateTx[r] EXCEPT !.replied = TRUE]
          /\ \A s \in Runs : s # r => stateTx'[s] = stateTx[s]
      BY <1>0, <1>1, <2>4
    <3>3. stateTx'[r].to = "RUNNING"
      <4>1. stateTx[r] \in TxRecord /\ stateTx[r].to = "RUNNING"
        BY <1>0, <1>1, <3>1 DEF Tx
      <4> QED
        BY <3>2, <4>1 DEF TxRecord
    <3> QED
      BY <1>1, <1>6, <2>1, <3>2, <3>3 DEF Begun
  <2> QED
    BY <2>2, <2>3, <2>4
<1>7. CASE Invoke(w) \/ submit_step(w)
  <2>1. runState' = runState /\ stateTx' = stateTx /\ b.pc \in Executing
    BY <1>7 DEF Invoke, submit_step, rows, tx, Executing
  <2>2. b1.run = r
    BY <1>0, <1>7 DEF Invoke, submit_step, Worker
  <2> QED
    BY <1>1, <2>1, <2>2 DEF Begun, Executing
<1>8. CASE TransitionRead(w)
  <2>1. runState' = runState /\ stateTx' = stateTx
    BY <1>8 DEF TransitionRead, rows, tx
  <2>2. CASE b1 = IdleWorker
    BY <1>1, <1>2, <2>1, <2>2 DEF Begun, Executing
  <2>3. CASE b1 # IdleWorker
    <3>1. b1.pc = "write" /\ b1.run = r
      BY <1>0, <1>8, <2>3 DEF TransitionRead, Worker
    <3> QED
      BY <1>1, <2>1, <3>1 DEF Begun, Executing
  <2> QED
    BY <2>2, <2>3
<1>9. CASE TransitionWrite(w)
  <2>1. /\ runState' = runState /\ b1 = IdleWorker
        /\ stateTx' = [stateTx EXCEPT ![r] = Tx(b.seen, TargetOf(w), TRUE)]
    BY <1>0, <1>9 DEF TransitionWrite, rows
  <2>2. /\ \A s \in Runs : s # r => stateTx'[s] = stateTx[s]
        /\ stateTx'[r].to \in Terminal
    <3>1. stateTx'[r] = Tx(b.seen, TargetOf(w), TRUE)
      BY <1>0, <1>1, <2>1
    <3>2. stateTx'[r].to = TargetOf(w)
      BY <3>1 DEF Tx
    <3> QED
      BY <1>0, <1>1, <2>1, <3>2 DEF TargetOf, Terminal
  <2> QED
    BY <1>1, <1>2, <2>1, <2>2 DEF Begun, Executing
<1> QED
  BY <1>3, <1>4, <1>5, <1>6, <1>7, <1>8, <1>9 DEF WorkerStep

(* Steps that leave the decisions and the runs waiting for one alone. *)
LEMMA GateFrame ==
  ASSUME Base, approvals' = approvals,
         \A r \in Runs : \/ runState'[r] = runState[r]
                         \/ runState[r] \in Beyond /\ runState'[r] \in Beyond,
         \A r \in Runs : \/ stateTx'[r] = stateTx[r] \/ stateTx'[r] = NoTx
                         \/ /\ runState[r] \in Beyond
                            /\ stateTx'[r].to \in {"NONE", "RUNNING", "COMPLETED", "FAILED"},
         \A q \in Reqs : req'[q].pc = "write" => req'[q] = req[q]
  PROVE  GateInv' /\ FreshInv'
<1>1. \A r \in Runs : Granted(r)' = Granted(r)
  BY JobFrames
<1>2. /\ \A s \in Beyond : s \notin Waiting
      /\ "AWAITING_PLAN_APPROVAL" \notin Beyond /\ NoTx.to = "NONE"
  BY DEF Beyond, Waiting, NoTx
<1>3. ASSUME NEW r \in Runs
      PROVE  /\ runState'[r] \in Waiting \union Beyond
             /\ runState'[r] \in Waiting => Granted(r)' = 0 /\ stateTx'[r] = NoTx
             /\ Granted(r)' <= 1
             /\ stateTx'[r].to \in {"NONE", "RUNNING", "COMPLETED", "FAILED"}
  BY <1>1, <1>2 DEF Base, SlotInv, GateInv
<1>4. GateInv'
  BY <1>3 DEF GateInv
<1>5. ASSUME NEW q \in Reqs, req'[q].pc = "write"
      PROVE  /\ req'[q].op \in {"approve", "reject"} /\ req'[q].to \in {"QUEUED", "CANCELLED"}
             /\ req'[q].seen = "AWAITING_PLAN_APPROVAL"
             /\ runState'[req'[q].run] = "AWAITING_PLAN_APPROVAL"
  <2>1. req'[q] = req[q] /\ req[q].run \in Runs
    BY <1>5 DEF Base, TypeInv, ReqOK
  <2> QED
    BY <1>2, <1>5, <2>1 DEF Base, SlotInv, FreshInv
<1> QED
  BY <1>4, <1>5 DEF FreshInv

(* Steps that bring no new job, and no new report of an end. *)
LEMMA EndedFrame ==
  ASSUME Base, \A r \in Runs : JobOf(queue', wk', req', r) => JobOf(queue, wk, req, r),
         \A r \in Runs : stateTx'[r] = stateTx[r] \/ stateTx'[r].to \notin Terminal
  PROVE  EndedInv'
<1>1. ASSUME NEW r \in Runs, stateTx'[r].to \in {"COMPLETED", "FAILED"}
      PROVE  ~ JobOf(queue', wk', req', r)
  BY <1>1 DEF Base, SlotInv, EndedInv, Terminal
<1>2. \A r \in Runs : JobOf(queue, wk, req, r)' <=> JobOf(queue', wk', req', r)
  BY DEF JobOf, HasJob, WillPush, Enqueues
<1> QED
  BY <1>1, <1>2 DEF EndedInv

(* Steps after which no worker is at work that was not before. *)
LEMMA BegunFrame ==
  ASSUME Base, \A w \in Workers : wk'[w] = wk[w] \/ wk'[w].pc \notin Begun,
         \A w \in Workers : wk'[w].pc \in Begun =>
           runState'[wk[w].run] = runState[wk[w].run] \/ runState'[wk[w].run] = "RUNNING"
  PROVE  BegunInv'
<1>1. ASSUME NEW w \in Workers, wk'[w].pc \in Begun
      PROVE  runState'[wk'[w].run] \in {"QUEUED", "RUNNING"}
  BY <1>1 DEF Base, SlotInv, BegunInv
<1> QED
  BY <1>1 DEF BegunInv

(* A project of which no run is newly executed keeps to the limit. *)
LEMMA NoMoreExecuted ==
  ASSUME Undisturbed, Base, NEW p \in Projects,
         RunsExecuted(wk', p) \subseteq RunsExecuted(wk, p)
  PROVE  Cardinality(RunsExecuted(wk', p)) < MaxConcurrent
<1> DEFINE old == RunsExecuted(wk, p)
           new == RunsExecuted(wk', p)
<1>1. IsFiniteSet(old)
  BY FS_Subset DEF RunsExecuted, Undisturbed
<1>2. Cardinality(new) \in Nat /\ Cardinality(old) \in Nat /\ Cardinality(new) <= Cardinality(old)
  BY <1>1, FS_Subset, FS_CardinalityType
<1>3. Cardinality(old) < MaxConcurrent /\ MaxConcurrent \in Nat
  BY ConstantsAssumption DEF Base, SlotInv, LimitInv
<1> HIDE DEF old, new
<1>4. Cardinality(new) < MaxConcurrent
  BY <1>2, <1>3
<1> QED
  BY <1>4 DEF new

LEMMA LimitNext ==
  ASSUME \A p \in Projects : Cardinality(RunsExecuted(wk', p)) < MaxConcurrent
  PROVE  LimitInv'
<1>1. \A p \in Projects : RunsExecuted(wk, p)' = RunsExecuted(wk', p)
  BY DEF RunsExecuted, HasJob, EngagedAtHome
<1> QED
  BY <1>1 DEF LimitInv

LEMMA FewerExecuted ==
  ASSUME Undisturbed, Base,
         \A w \in Workers : wk'[w].pc \in Executing =>
           wk[w].pc \in Executing /\ wk'[w].run = wk[w].run
  PROVE  LimitInv'
<1>1. \A p \in Projects : RunsExecuted(wk', p) \subseteq RunsExecuted(wk, p)
  BY DEF RunsExecuted, HasJob, Executing
<1> QED
  BY <1>1, NoMoreExecuted, LimitNext

(* The check that grants a claim has counted all who execute in the run's  *)
(* project, and the run itself, if the engagement is of that project.      *)
LEMMA GrantCounted ==
  ASSUME Undisturbed, Base, NEW w \in Workers, ClaimGranted(w)
  PROVE  LimitInv'
<1> DEFINE r == wk[w].run
           seen == AtWork(w)
<1>1. Cardinality(seen) < MaxConcurrent
  BY DEF ClaimGranted, ScopeAllows, _check_concurrency
<1>2. /\ wk[w].pc = "scope" /\ r \in Runs /\ wk'[w].run = r
      /\ \A v \in Workers : v # w => wk'[v] = wk[v]
  BY DEF Base, TypeInv, TypeOK, WkOK, ClaimGranted, Worker
<1>3. \A v \in Workers : wk[v].pc \in Begun => runState[wk[v].run] \in ActiveStates
  BY DEF Base, SlotInv, BegunInv, ActiveStates
<1>4. StateSeenBy(w, r) \in ActiveStates
  <2>1. CASE wk[w].seen = "QUEUED"
    <3>1. stateTx[r].to = "RUNNING"
      BY <1>2, <2>1 DEF Base, TypeInv, LockOK, Owns, Tx
    <3> QED
      BY <2>1, <3>1 DEF StateSeenBy, ActiveStates
  <2>2. CASE wk[w].seen # "QUEUED"
    BY <1>2, <1>3, <2>2 DEF StateSeenBy, Begun
  <2> QED
    BY <2>1, <2>2
<1>5. ASSUME NEW s \in Runs, NEW v \in Workers, HasJob(wk'[v], s), wk'[v].pc \in Executing
      PROVE  StateSeenBy(w, s) \in ActiveStates
  <2>1. CASE s = r
    BY <1>4, <2>1
  <2>2. CASE s # r
    <3>1. wk'[v] = wk[v] /\ wk[v].run = s /\ wk[v].pc \in Begun
      BY <1>2, <1>5, <2>2 DEF HasJob, Begun, Executing
    <3>2. StateSeenBy(w, s) = runState[s]
      BY <2>2 DEF StateSeenBy
    <3> QED
      BY <1>3, <3>1, <3>2
  <2> QED
    BY <2>1, <2>2
<1>6. ASSUME NEW p \in Projects PROVE Cardinality(RunsExecuted(wk', p)) < MaxConcurrent
  <2> DEFINE new == RunsExecuted(wk', p)
  <2>1. CASE ProjectOf[r] = p /\ EngagedAtHome(r)
    <3>1. EngagedIn[r] = p
      BY <2>1 DEF EngagedAtHome
    <3>2. new \subseteq seen
      BY <1>5, <3>1 DEF RunsExecuted, AtWork
    <3>3. IsFiniteSet(seen)
      BY FS_Subset DEF Undisturbed, AtWork
    <3>4. /\ Cardinality(new) \in Nat /\ Cardinality(seen) \in Nat
          /\ Cardinality(new) <= Cardinality(seen) /\ MaxConcurrent \in Nat
      BY <3>2, <3>3, FS_Subset, FS_CardinalityType, ConstantsAssumption
    <3> HIDE DEF new, seen
    <3>5. Cardinality(new) < MaxConcurrent
      BY <1>1, <3>4
    <3> QED
      BY <3>5 DEF new
  <2>2. CASE ~ (ProjectOf[r] = p /\ EngagedAtHome(r))
    <3>1. ASSUME NEW s \in new PROVE s \in RunsExecuted(wk, p)
      <4>1. PICK v \in Workers : HasJob(wk'[v], s) /\ wk'[v].pc \in Executing
        BY <3>1 DEF RunsExecuted
      <4>2. s # r /\ s \in Runs /\ ProjectOf[s] = p /\ EngagedAtHome(s)
        BY <2>2, <3>1 DEF RunsExecuted
      <4>3. v # w
        BY <1>2, <4>1, <4>2 DEF HasJob
      <4>4. wk'[v] = wk[v]
        BY <1>2, <4>3
      <4> QED
        BY <4>1, <4>2, <4>4 DEF RunsExecuted
    <3> QED
      BY <3>1, NoMoreExecuted
  <2> QED
    BY <2>1, <2>2
<1> QED
  BY <1>6, LimitNext

LEMMA TakenSlots ==
  ASSUME Undisturbed, Base, NEW w \in Workers, process_jobs(w)
  PROVE  SlotInv'
<1>1. /\ queue # <<>> /\ queue' = Tail(queue) /\ queue \in Seq(Runs) /\ wk[w].pc = "idle"
      /\ approvals' = approvals /\ runState' = runState /\ stateTx' = stateTx /\ req' = req
      /\ \A v \in Workers : v # w => wk'[v] = wk[v]
      /\ wk'[w].pc = "claim" /\ wk'[w].run = Head(queue)
  BY DEF Base, TypeInv, TypeOK, process_jobs, rows, tx, Worker
<1>2. /\ Len(queue) \in Nat \ {0} /\ Len(Tail(queue)) = Len(queue) - 1 /\ Head(queue) = queue[1]
      /\ \A i \in 1 .. Len(Tail(queue)) : Tail(queue)[i] = queue[i + 1]
  BY <1>1, HeadTailProperties, EmptySeq, LenProperties
<1>3. ASSUME NEW r \in Runs, JobOf(queue', wk', req', r) PROVE JobOf(queue, wk, req, r)
  <2>1. CASE \E i \in 1 .. Len(queue') : queue'[i] = r
    BY <1>1, <1>2, <2>1 DEF JobOf
  <2>2. CASE \E v \in Workers : HasJob(wk'[v], r)
    <3>1. PICK v \in Workers : HasJob(wk'[v], r)
      BY <2>2
    <3>2. CASE v = w
      <4>1. queue[1] = r /\ 1 \in 1 .. Len(queue)
        BY <1>1, <1>2, <3>1, <3>2 DEF HasJob
      <4> QED
        BY <4>1 DEF JobOf
    <3>3. CASE v # w
      BY <1>1, <3>1, <3>3 DEF JobOf
    <3> QED
      BY <3>2, <3>3
  <2> QED
    BY <1>1, <1>3, <2>1, <2>2 DEF JobOf
<1>4. GateInv' /\ FreshInv'
  BY <1>1, GateFrame
<1>5. EndedInv'
  BY <1>1, <1>3, EndedFrame
<1>6. BegunInv'
  BY <1>1, BegunFrame DEF Begun
<1>7. LimitInv'
  BY <1>1, FewerExecuted DEF Executing
<1> QED
  BY <1>4, <1>5, <1>6, <1>7 DEF SlotInv

LEMMA WorkerSlots ==
  ASSUME Undisturbed, Base, NEW w \in Workers, WorkerStep(w), ~ process_jobs(w)
  PROVE  SlotInv'
<1> DEFINE r == wk[w].run
           b == wk[w]
           b1 == wk'[w]
<1>1. /\ b.pc # "idle" /\ r \in Runs
      /\ b1.pc # "idle" => b1.run = r
      /\ b1.pc \in Begun => b.pc \in Begun \/ runState[r] \in {"QUEUED", "RUNNING"}
      /\ b1.pc \in Executing => b.pc \in Executing \/ ClaimGranted(w)
      /\ queue' = queue /\ req' = req /\ approvals' = approvals
      /\ \A v \in Workers : v # w => wk'[v] = wk[v]
      /\ \/ runState' = runState
         \/ b1 = IdleWorker /\ runState' = [runState EXCEPT ![r] = "FAILED"]
      /\ \A s \in Runs : s # r => stateTx'[s] = stateTx[s]
      /\ \/ stateTx'[r] = stateTx[r]
         \/ stateTx'[r].to \in {"NONE", "RUNNING"}
         \/ b1 = IdleWorker /\ stateTx'[r].to \in Terminal
  BY WorkerEffects DEF Base
<1>2. runState[r] \in Beyond /\ runState \in [Runs -> States]
  BY <1>1, HeldIsBeyond DEF Base, TypeInv, TypeOK
<1>3. HasJob(b, r) /\ IdleWorker.pc = "idle" /\ "FAILED" \in Beyond
  BY <1>1 DEF HasJob, IdleWorker, Beyond
<1>4. /\ \A i \in 1 .. Len(queue) : queue[i] # r
      /\ \A v \in Workers : HasJob(wk[v], r) => v = w
      /\ \A q \in Reqs : ~ WillPush(req[q], r)
  BY <1>1, <1>3, OnlyJob
<1> HIDE DEF b, b1, r
<1>5. GateInv' /\ FreshInv'
  <2>1. \A s \in Runs : \/ runState'[s] = runState[s]
                        \/ runState[s] \in Beyond /\ runState'[s] \in Beyond
    BY <1>1, <1>2, <1>3
  <2>2. \A s \in Runs : \/ stateTx'[s] = stateTx[s] \/ stateTx'[s] = NoTx
                        \/ /\ runState[s] \in Beyond
                           /\ stateTx'[s].to \in {"NONE", "RUNNING", "COMPLETED", "FAILED"}
    BY <1>1, <1>2 DEF Terminal
  <2> QED
    BY <1>1, <2>1, <2>2, GateFrame
<1>6. ASSUME NEW s \in Runs, JobOf(queue', wk', req', s) PROVE JobOf(queue, wk, req, s)
  <2>1. \A v \in Workers : HasJob(wk'[v], s) => HasJob(wk[v], s)
    BY <1>1 DEF HasJob, b, b1, r
  <2> QED
    BY <1>1, <1>6, <2>1 DEF JobOf
<1>7. EndedInv'
  <2>1. ASSUME NEW s \in Runs, stateTx'[s].to \in {"COMPLETED", "FAILED"}
        PROVE  ~ JobOf(queue', wk', req', s)
    <3>1. CASE stateTx'[s] = stateTx[s]
      BY <1>6, <2>1, <3>1 DEF Base, SlotInv, EndedInv
    <3>2. CASE stateTx'[s] # stateTx[s]
      <4>1. s = r /\ b1.pc = "idle"
        BY <1>1, <1>3, <2>1, <3>2
      <4>2. \A v \in Workers : ~ HasJob(wk'[v], s)
        BY <1>1, <1>4, <4>1 DEF HasJob, b1
      <4> QED
        BY <1>1, <1>4, <4>1, <4>2 DEF JobOf
    <3> QED
      BY <3>1, <3>2
  <2>2. \A s \in Runs : JobOf(queue, wk, req, s)' <=> JobOf(queue', wk', req', s)
    BY DEF JobOf, HasJob, WillPush, Enqueues
  <2> QED
    BY <2>1, <2>2 DEF EndedInv
<1>8. BegunInv'
  <2>1. ASSUME NEW v \in Workers, wk'[v].pc \in Begun
        PROVE  runState'[wk'[v].run] \in {"QUEUED", "RUNNING"}
    <3>1. CASE v = w
      <4>1. b1.pc \in Begun /\ b1.pc # "idle" /\ b1.run = r
        BY <1>1, <2>1, <3>1 DEF Begun, b1
      <4>2. runState' = runState
        BY <1>1, <1>3, <4>1
      <4>3. b.pc \in Begun => runState[r] \in {"QUEUED", "RUNNING"}
        BY DEF Base, SlotInv, BegunInv, b, r
      <4> QED
        BY <1>1, <3>1, <4>1, <4>2, <4>3 DEF b1
    <3>2. CASE v # w
      <4>1. wk'[v] = wk[v] /\ HasJob(wk[v], wk[v].run)
        BY <1>1, <2>1, <3>2 DEF Begun, HasJob
      <4>2. wk[v].run # r
        BY <1>4, <3>2, <4>1
      <4>3. wk[v].run \in Runs
        BY <2>1, <4>1 DEF Begun, Base, TypeInv, WkOK
      <4>4. runState'[wk[v].run] = runState[wk[v].run]
        BY <1>1, <1>2, <4>2, <4>3
      <4> QED
        BY <2>1, <4>1, <4>4 DEF Base, SlotInv, BegunInv
    <3> QED
      BY <3>1, <3>2
  <2> QED
    BY <2>1 DEF BegunInv
<1>9. LimitInv'
  <2>1. CASE ClaimGranted(w)
    BY <2>1, GrantCounted
  <2>2. CASE ~ ClaimGranted(w)
    <3>1. \A v \in Workers : wk'[v].pc \in Executing =>
            wk[v].pc \in Executing /\ wk'[v].run = wk[v].run
      BY <1>1, <2>2 DEF Executing, b, b1, r
    <3> QED
      BY <3>1, FewerExecuted
  <2> QED
    BY <2>1, <2>2
<1> QED
  BY <1>5, <1>7, <1>8, <1>9 DEF SlotInv

(* A decision writes one row. *)
LEMMA OneRow ==
  ASSUME TypeInv, NEW q \in Reqs, CommitState(q), req[q].op \in {"approve", "reject"},
         req[q].seen = "AWAITING_PLAN_APPROVAL", NEW r \in Runs
  PROVE  /\ Granted(r)' \in Nat
         /\ Granted(r)' <= Granted(r) + (IF req[q].run = r THEN 1 ELSE 0)
<1> DEFINE d == req[q]
           G == CHOOSE g \in ApprovalGates : g.at = d.seen
           x == [type |-> G.type, status |-> IF d.op = "approve" THEN "approved" ELSE "rejected"]
           old == approvals[r]
           k == Granted(r)
<1>1. DecisionRows(d) = <<x>> /\ d.pc = "write"
  BY DEF DecisionRows, CommitState
<1>2. x \in Approval
  <2>1. \E g \in ApprovalGates : g.at = d.seen
    BY DEF ApprovalGates
  <2>2. G \in ApprovalGates
    BY <2>1
  <2>3. \A g \in ApprovalGates : g.type \in {"plan", "action"}
    BY DEF ApprovalGates
  <2> HIDE DEF G
  <2> QED
    BY <2>2, <2>3 DEF Approval
<1>3. old \in Seq(Approval) /\ approvals \in [Runs -> Seq(Approval)] /\ d.run \in Runs
  BY <1>1 DEF TypeInv, TypeOK, ReqOK
<1>4. k = Cardinality(Positions(old, PlanApproval)) /\ k \in Nat
  BY JobNumbers DEF Granted
<1>5. Granted(r)' = Cardinality(Positions(approvals'[r], PlanApproval))
  BY DEF Granted, Positions, PlanApproval
<1>6. approvals'[r] = IF d.run = r THEN old \o <<x>> ELSE old
  BY <1>1, <1>3 DEF CommitState
<1> HIDE DEF x, old, k
<1>7. old \o <<x>> = Append(old, x)
  BY <1>2, <1>3, AppendIsConcat
<1>8. Cardinality(Positions(Append(old, x), PlanApproval)) = k + (IF x = PlanApproval THEN 1 ELSE 0)
  BY <1>2, <1>3, <1>4, PositionsAppend
<1>9. CASE d.run = r
  <2>1. Granted(r)' = k + (IF x = PlanApproval THEN 1 ELSE 0)
    BY <1>5, <1>6, <1>7, <1>8, <1>9
  <2>2. Granted(r)' \in Nat /\ Granted(r)' <= k + 1
    BY <1>4, <2>1
  <2> QED
    BY <1>9, <2>2 DEF k
<1>10. CASE d.run # r
  BY <1>4, <1>5, <1>6, <1>10 DEF k
<1> QED
  BY <1>9, <1>10

LEMMA DecisionSlots ==
  ASSUME Undisturbed, Base, NEW q \in Reqs, CommitState(q)
  PROVE  SlotInv'
<1> DEFINE d == req[q]
           r == d.run
<1>1. /\ d.pc = "write" /\ r \in Runs /\ stateTx[r] = NoTx
      /\ d.op \in {"approve", "reject"} /\ d.to \in {"QUEUED", "CANCELLED"}
      /\ d.seen = "AWAITING_PLAN_APPROVAL" /\ runState[r] = "AWAITING_PLAN_APPROVAL"
  BY DEF CommitState, Locked, Base, TypeInv, ReqOK, SlotInv, FreshInv
<1>2. /\ runState \in [Runs -> States] /\ req \in [Reqs -> Request]
      /\ runState' = [runState EXCEPT ![r] = d.to] /\ req' = [req EXCEPT ![q].pc = "event"]
      /\ stateTx' = stateTx /\ queue' = queue /\ wk' = wk
      /\ \A p \in Reqs : p = q
  BY DEF CommitState, Base, TypeInv, TypeOK, tx, Undisturbed
<1>3. /\ \A s \in Runs : runState'[s] = IF s = r THEN d.to ELSE runState[s]
      /\ d.to \in Beyond /\ d.to \notin Waiting /\ runState[r] \in Waiting
      /\ req'[q].pc = "event" /\ req'[q].run = r
  BY <1>1, <1>2 DEF Beyond, Waiting, Request
<1>4. /\ \A s \in Runs : /\ Granted(s)' \in Nat /\ Granted(s) \in Nat
                         /\ Granted(s)' <= Granted(s) + (IF s = r THEN 1 ELSE 0)
      /\ Granted(r) = 0
  <2>1. \A s \in Runs : /\ Granted(s)' \in Nat
                        /\ Granted(s)' <= Granted(s) + (IF s = r THEN 1 ELSE 0)
    BY <1>1, OneRow DEF Base
  <2> QED
    BY <1>1, <1>3, <2>1, JobNumbers DEF Base, SlotInv, GateInv
<1> HIDE DEF d, r
<1>5. GateInv'
  <2>1. ASSUME NEW s \in Runs
        PROVE  /\ runState'[s] \in Waiting \union Beyond
               /\ runState'[s] \in Waiting => Granted(s)' = 0 /\ stateTx'[s] = NoTx
               /\ Granted(s)' <= 1
               /\ stateTx'[s].to \in {"NONE", "RUNNING", "COMPLETED", "FAILED"}
    <3>1. CASE s = r
      <4>1. Granted(s)' <= 1
        BY <1>4, <3>1
      <4> QED
        BY <1>2, <1>3, <3>1, <4>1 DEF Base, SlotInv, GateInv
    <3>2. CASE s # r
      <4>1. /\ runState[s] \in Waiting \union Beyond
            /\ runState[s] \in Waiting => Granted(s) = 0 /\ stateTx[s] = NoTx
            /\ Granted(s) <= 1
            /\ stateTx[s].to \in {"NONE", "RUNNING", "COMPLETED", "FAILED"}
        BY DEF Base, SlotInv, GateInv
      <4>2. runState'[s] = runState[s] /\ stateTx'[s] = stateTx[s]
        BY <1>2, <1>3, <3>2
      <4>3. Granted(s)' \in Nat /\ Granted(s) \in Nat /\ Granted(s)' <= Granted(s)
        BY <1>4, <3>2
      <4> QED
        BY <4>1, <4>2, <4>3
    <3> QED
      BY <3>1, <3>2
  <2> QED
    BY <2>1 DEF GateInv
<1>6. FreshInv'
  BY <1>2, <1>3 DEF FreshInv
<1>7. EndedInv'
  <2>1. ASSUME NEW s \in Runs, stateTx'[s].to \in {"COMPLETED", "FAILED"}
        PROVE  ~ JobOf(queue', wk', req', s)
    <3>1. s # r /\ ~ JobOf(queue, wk, req, s)
      BY <1>1, <1>2, <2>1 DEF NoTx, Base, SlotInv, EndedInv
    <3> QED
      BY <1>2, <1>3, <3>1 DEF JobOf, WillPush
  <2>2. \A s \in Runs : JobOf(queue, wk, req, s)' <=> JobOf(queue', wk', req', s)
    BY DEF JobOf, HasJob, WillPush, Enqueues
  <2> QED
    BY <2>1, <2>2 DEF EndedInv
<1>8. BegunInv'
  <2>1. ASSUME NEW w \in Workers, wk[w].pc \in Begun
        PROVE  runState'[wk[w].run] = runState[wk[w].run]
    <3>1. wk[w].run \in Runs /\ runState[wk[w].run] \in {"QUEUED", "RUNNING"}
      BY <2>1 DEF Begun, Base, TypeInv, WkOK, SlotInv, BegunInv
    <3> QED
      BY <1>1, <1>3, <3>1
  <2> QED
    BY <1>2, <2>1, BegunFrame
<1>9. LimitInv'
  BY <1>2, FewerExecuted
<1> QED
  BY <1>5, <1>6, <1>7, <1>8, <1>9 DEF SlotInv

(* The rest of a request. *)
LEMMA RequestSlots ==
  ASSUME Undisturbed, Base, NEW q \in Reqs,
         _record_event(q) \/ WriteAudit(q) \/ enqueue_run_job(q)
  PROVE  SlotInv'
<1> DEFINE d == req[q]
           d1 == req'[q]
<1>1. /\ runState' = runState /\ approvals' = approvals /\ wk' = wk /\ stateTx' = stateTx
      /\ req \in [Reqs -> Request] /\ \A p \in Reqs : p # q => req'[p] = req[p]
      /\ d.pc \in {"event", "audit", "enqueue"}
      /\ d1 = IdleReq \/ \E pc \in {"audit", "enqueue"} : d1 = [d EXCEPT !.pc = pc]
      /\ queue' = queue \/ (d.pc = "enqueue" /\ queue' = Append(queue, d.run))
      /\ queue \in Seq(Runs)
  BY DEF _record_event, WriteAudit, enqueue_run_job, rows, tx, Base, TypeInv, TypeOK
<1>2. d1.pc # "write" /\ \A r \in Runs : WillPush(d1, r) => WillPush(d, r)
  <2>1. CASE d1 = IdleReq
    BY <2>1 DEF IdleReq, WillPush, Enqueues
  <2>2. CASE \E pc \in {"audit", "enqueue"} : d1 = [d EXCEPT !.pc = pc]
    <3>1. d1.run = d.run /\ d1.op = d.op /\ d1.to = d.to /\ d1.pc \in {"audit", "enqueue"}
      BY <1>1, <2>2 DEF Request
    <3> QED
      BY <1>1, <3>1 DEF WillPush, Enqueues
  <2> QED
    BY <1>1, <2>1, <2>2
<1>3. ASSUME NEW r \in Runs, NEW i \in 1 .. Len(queue'), queue'[i] = r
      PROVE  JobOf(queue, wk, req, r)
  <2>1. CASE queue' = queue
    BY <1>3, <2>1 DEF JobOf
  <2>2. CASE d.pc = "enqueue" /\ queue' = Append(queue, d.run)
    <3>1. d.run \in Runs /\ Enqueues(d)
      BY <2>2 DEF Base, TypeInv, ReqOK, ApprovedInv
    <3>2. /\ Len(queue) \in Nat /\ Len(queue') = Len(queue) + 1
          /\ \A j \in 1 .. Len(queue) : queue'[j] = queue[j]
          /\ queue'[Len(queue) + 1] = d.run
      BY <1>1, <2>2, <3>1, AppendProperties, LenProperties
    <3>3. CASE i = Len(queue) + 1
      BY <1>3, <2>2, <3>1, <3>2, <3>3 DEF JobOf, WillPush
    <3>4. CASE i # Len(queue) + 1
      BY <1>3, <3>2, <3>4 DEF JobOf
    <3> QED
      BY <3>3, <3>4
  <2> QED
    BY <1>1, <2>1, <2>2
<1> HIDE DEF d, d1
<1>4. \A r \in Runs : JobOf(queue', wk', req', r) => JobOf(queue, wk, req, r)
  <2>1. \A p \in Reqs, r \in Runs : WillPush(req'[p], r) => WillPush(req[p], r)
    BY <1>1, <1>2 DEF d, d1
  <2> QED
    BY <1>1, <1>3, <2>1 DEF JobOf
<1>5. GateInv' /\ FreshInv'
  <2>1. \A p \in Reqs : req'[p].pc = "write" => req'[p] = req[p]
    BY <1>1, <1>2 DEF d1
  <2> QED
    BY <1>1, <2>1, GateFrame
<1>6. EndedInv' /\ BegunInv'
  BY <1>1, <1>4, EndedFrame, BegunFrame
<1>7. LimitInv'
  BY <1>1, FewerExecuted
<1> QED
  BY <1>5, <1>6, <1>7 DEF SlotInv

(* A request that starts is a decision on what the run is waiting for. *)
LEMMA StartSlots ==
  ASSUME Undisturbed, Base, OwnerStarts
  PROVE  SlotInv'
<1>0. /\ req \in [Reqs -> Request] /\ runState \in [Runs -> States] /\ \A p, q \in Reqs : p = q
      /\ "cancel" \notin OwnerOps /\ "transition" \notin OwnerOps
  BY DEF Base, TypeInv, TypeOK, Undisturbed
<1>1. wk' = wk /\ queue' = queue /\ stateTx' = stateTx /\ approvals' = approvals
  BY DEF OwnerStarts, create_run, cancel_run, approve_run, reject_run, transition_run, Start, rows, tx
<1>2. PICK q \in Reqs, r \in Runs : create_run(q, r) \/ approve_run(q, r) \/ reject_run(q, r)
  BY <1>0 DEF OwnerStarts, cancel_run, transition_run, Start
<1>3. \A s \in Runs : ~ WillPush(req'[q], s)
  BY <1>0, <1>2 DEF create_run, approve_run, reject_run, Start, WillPush, Enqueues
<1>4. \A s \in Runs : JobOf(queue', wk', req', s) => JobOf(queue, wk, req, s)
  BY <1>0, <1>1, <1>3 DEF JobOf
<1>5. EndedInv'
  BY <1>1, <1>4, EndedFrame
<1>6. LimitInv'
  BY <1>1, FewerExecuted
<1>7. CASE create_run(q, r)
  <2>1. /\ runState[r] = "NONE" /\ runState' = [runState EXCEPT ![r] = "DRAFT"]
        /\ req'[q].pc = "event"
    BY <1>0, <1>7 DEF create_run
  <2>2. \A s \in Runs : Granted(s)' = Granted(s)
    BY <1>1, JobFrames
  <2>3. GateInv'
    <3>1. \A s \in Runs :
            runState'[s] = runState[s] \/ (runState[s] \in Waiting /\ runState'[s] \in Waiting)
      BY <1>0, <2>1 DEF Waiting
    <3> QED
      BY <1>1, <2>2, <3>1 DEF Base, SlotInv, GateInv
  <2>4. FreshInv'
    BY <1>0, <2>1 DEF FreshInv
  <2>5. BegunInv'
    <3>1. ASSUME NEW w \in Workers, wk[w].pc \in Begun
          PROVE  runState'[wk[w].run] = runState[wk[w].run]
      BY <1>0, <2>1, <3>1 DEF Begun, Base, TypeInv, WkOK, SlotInv, BegunInv
    <3> QED
      BY <1>1, <3>1, BegunFrame
  <2> QED
    BY <1>5, <1>6, <2>3, <2>4, <2>5 DEF SlotInv
<1>8. CASE approve_run(q, r) \/ reject_run(q, r)
  <2>1. PICK gate \in ApprovalGates :
          /\ runState[r] = gate.at
          /\ \/ Start(q, "approve", r, gate.next) \/ Start(q, "reject", r, "CANCELLED")
    BY <1>8 DEF approve_run, reject_run
  <2>2. runState' = runState
    BY <2>1 DEF Start, rows
  <2>3. runState[r] \in Waiting \union Beyond
    BY DEF Base, SlotInv, GateInv
  <2>4. gate.at = "AWAITING_PLAN_APPROVAL" /\ gate.next = "QUEUED"
    BY <2>1, <2>3 DEF ApprovalGates, Waiting, Beyond
  <2>5. /\ req'[q].op \in {"approve", "reject"} /\ req'[q].to \in {"QUEUED", "CANCELLED"}
        /\ req'[q].seen = "AWAITING_PLAN_APPROVAL" /\ req'[q].run = r
    BY <1>0, <2>1, <2>4 DEF Start
  <2>6. FreshInv'
    BY <1>0, <2>1, <2>2, <2>4, <2>5 DEF FreshInv
  <2>7. GateInv'
    <3>1. \A s \in Runs : Granted(s)' = Granted(s)
      BY <1>1, JobFrames
    <3> QED
      BY <1>1, <2>2, <3>1 DEF Base, SlotInv, GateInv
  <2>8. BegunInv'
    BY <1>1, <2>2, BegunFrame
  <2> QED
    BY <1>5, <1>6, <2>6, <2>7, <2>8 DEF SlotInv
<1> QED
  BY <1>2, <1>7, <1>8

(* The commit of a claim, or of the report of an end. *)
LEMMA ReportSlots ==
  ASSUME Undisturbed, Base, NEW r \in Runs, CommitStateTx(r)
  PROVE  SlotInv'
<1> DEFINE t == stateTx[r].to
<1>1. /\ runState \in [Runs -> States] /\ stateTx \in [Runs -> TxRecord]
      /\ approvals' = approvals /\ queue' = queue /\ req' = req /\ wk' = wk
      /\ \A s \in Runs : runState'[s] = IF s = r THEN t ELSE runState[s]
      /\ \A s \in Runs : stateTx'[s] = IF s = r THEN NoTx ELSE stateTx[s]
  BY DEF CommitStateTx, Base, TypeInv, TypeOK
<1>2. t \in {"RUNNING", "COMPLETED", "FAILED"}
  <2>1. t \in RunState /\ t \in {"NONE", "RUNNING", "COMPLETED", "FAILED"}
    BY DEF CommitStateTx, Base, TypeInv, LockOK, SlotInv, GateInv
  <2> QED
    BY <2>1 DEF RunState
<1>3. runState[r] \in Beyond
  <2>1. stateTx[r] # NoTx
    BY <1>2 DEF NoTx
  <2> QED
    BY <2>1 DEF Base, SlotInv, GateInv
<1> HIDE DEF t
<1>4. GateInv' /\ FreshInv'
  <2>1. t \in Beyond
    BY <1>2 DEF Beyond
  <2> QED
    BY <1>1, <1>3, <2>1, GateFrame
<1>5. EndedInv'
  <2>1. NoTx.to \notin Terminal
    BY DEF NoTx, Terminal
  <2> QED
    BY <1>1, <2>1, EndedFrame
<1>6. BegunInv'
  <2>1. ASSUME NEW w \in Workers, wk[w].pc \in Begun
        PROVE  runState'[wk[w].run] = runState[wk[w].run] \/ runState'[wk[w].run] = "RUNNING"
    <3>1. wk[w].run \in Runs
      BY <2>1 DEF Begun, Base, TypeInv, WkOK
    <3>2. CASE wk[w].run = r
      <4>1. JobOf(queue, wk, req, r)
        BY <2>1, <3>2 DEF JobOf, HasJob, Begun
      <4>2. t \notin {"COMPLETED", "FAILED"}
        BY <4>1 DEF Base, SlotInv, EndedInv, t
      <4> QED
        BY <1>1, <1>2, <3>2, <4>2
    <3> QED
      BY <1>1, <3>1, <3>2
  <2> QED
    BY <1>1, <2>1, BegunFrame
<1>7. LimitInv'
  BY <1>1, FewerExecuted
<1> QED
  BY <1>4, <1>5, <1>6, <1>7 DEF SlotInv

(* A job that is lost, with its worker or with the API, occupies no slot. *)
LEMMA FaultSlots ==
  ASSUME Undisturbed, Base, Faults
  PROVE  SlotInv'
<1>1. /\ runState' = runState /\ approvals' = approvals /\ queue' = queue
      /\ \A w \in Workers : wk'[w] = wk[w] \/ wk'[w] = IdleWorker
      /\ \A q \in Reqs : req'[q] = req[q] \/ req'[q] = IdleReq
      /\ \A r \in Runs : stateTx'[r] = stateTx[r] \/ stateTx'[r] = NoTx
  <2>1. CASE ApiCrash
    BY <2>1 DEF ApiCrash, rows
  <2>2. CASE \E w \in Workers : AbandonJob(w)
    <3>1. PICK w \in Workers : AbandonJob(w)
      BY <2>2
    <3>2. wk \in [Workers -> Worker] /\ wk' = [wk EXCEPT ![w] = IdleWorker]
      BY <3>1 DEF AbandonJob, Base, TypeInv, TypeOK
    <3> QED
      BY <3>1, <3>2 DEF AbandonJob, rows, tx
  <2> QED
    BY <2>1, <2>2 DEF Faults
<1>2. IdleWorker.pc = "idle" /\ IdleReq.pc = "idle" /\ ~ Enqueues(IdleReq) /\ NoTx.to = "NONE"
  BY DEF IdleWorker, IdleReq, Enqueues, NoTx
<1>3. GateInv' /\ FreshInv'
  BY <1>1, <1>2, GateFrame
<1>4. EndedInv'
  <2>1. \A w \in Workers, r \in Runs : HasJob(wk'[w], r) => HasJob(wk[w], r)
    BY <1>1, <1>2 DEF HasJob
  <2>2. \A q \in Reqs, r \in Runs : WillPush(req'[q], r) => WillPush(req[q], r)
    BY <1>1, <1>2 DEF WillPush
  <2>3. \A r \in Runs : JobOf(queue', wk', req', r) => JobOf(queue, wk, req, r)
    BY <1>1, <2>1, <2>2 DEF JobOf
  <2> QED
    BY <1>1, <1>2, <2>3, EndedFrame DEF Terminal
<1>5. BegunInv'
  BY <1>1, <1>2, BegunFrame DEF Begun
<1>6. LimitInv'
  BY <1>1, <1>2, FewerExecuted DEF Executing
<1> QED
  BY <1>3, <1>4, <1>5, <1>6 DEF SlotInv

LEMMA InitSlots == Init /\ Undisturbed => SlotInv
<1> SUFFICES ASSUME Init, Undisturbed PROVE SlotInv
  OBVIOUS
<1>1. ASSUME NEW r \in Runs
      PROVE  /\ runState[r] \in Waiting /\ Granted(r) = 0
             /\ stateTx[r] = NoTx /\ stateTx[r].to = "NONE"
  <2>1. Prepared[r] \in 0 .. 3
    BY ConstantsAssumption DEF PreparationPath
  <2>2. \A n \in 1 .. 3 : PreparationPath[n] \in Waiting
    BY DEF PreparationPath, Waiting
  <2>3. runState[r] \in Waiting
    BY <2>1, <2>2 DEF Init, Waiting
  <2>4. Positions(approvals[r], PlanApproval) = {}
    BY DEF Init, Positions
  <2> QED
    BY <2>3, <2>4, FS_EmptySet DEF Granted, Init, NoTx
<1>2. /\ \A w \in Workers : wk[w].pc = "idle"
      /\ \A q \in Reqs : req[q].pc = "idle"
  BY DEF Init, IdleWorker, IdleReq
<1>3. GateInv /\ FreshInv /\ EndedInv /\ BegunInv
  BY <1>1, <1>2 DEF GateInv, FreshInv, EndedInv, BegunInv, Begun
<1>4. LimitInv
  <2>1. \A p \in Projects : RunsExecuted(wk, p) = {}
    BY <1>2 DEF RunsExecuted, HasJob
  <2> QED
    BY <2>1, FS_EmptySet DEF Undisturbed, LimitInv
<1> QED
  BY <1>3, <1>4 DEF SlotInv

LEMMA NextSlots == Undisturbed /\ Base /\ [Next]_vars => SlotInv'
<1> SUFFICES ASSUME Undisturbed, Base, [Next]_vars PROVE SlotInv'
  OBVIOUS
<1>1. CASE OwnerStarts
  BY <1>1, StartSlots
<1>2. CASE \E q \in Reqs : RequestStep(q)
  BY <1>2, DecisionSlots, RequestSlots DEF RequestStep
<1>3. CASE \E w \in Workers : WorkerStep(w)
  BY <1>3, TakenSlots, WorkerSlots
<1>4. CASE \E r \in Runs : CommitStateTx(r)
  BY <1>4, ReportSlots
<1>5. CASE Faults
  BY <1>5, FaultSlots
<1>6. CASE \/ \E w \in Workers : process_jobs_timeout(w)
           \/ (\E r \in Runs : CommitStepTx(r) \/ EditScope(r)) \/ UNCHANGED vars
  <2>1. /\ runState' = runState /\ approvals' = approvals /\ queue' = queue
        /\ wk' = wk /\ req' = req /\ stateTx' = stateTx
    BY <1>6 DEF process_jobs_timeout, CommitStepTx, EditScope, vars, rows, tx
  <2>2. GateInv' /\ FreshInv' /\ EndedInv' /\ BegunInv'
    BY <2>1, GateFrame, EndedFrame, BegunFrame
  <2>3. LimitInv'
    BY <2>1, FewerExecuted
  <2> QED
    BY <2>2, <2>3 DEF SlotInv
<1> QED
  BY <1>1, <1>2, <1>3, <1>4, <1>5, <1>6 DEF Next, Commits

(* ConcurrencyBounded, for any number of runs and workers, any plans and   *)
(* any faults: at most MaxConcurrent - 1 runs of a project, of those that  *)
(* are engaged in it, have a step in execution, whatever runs of other     *)
(* projects name the same engagements.                                     *)
(* Two claims never miss each other in _check_concurrency's count, because *)
(* a run that is executed has been active ever since its plan was          *)
(* approved, and its one job keeps it so until that job reports its end.   *)
THEOREM LimitHolds ==
  ASSUME Undisturbed
  PROVE  Spec => []ConcurrencyBounded
<1>1. Init => Base
  BY InitTypeInv, InitApprovedInv, InitJobs, InitSlots DEF Base
<1>2. Base /\ [Next]_vars => Base'
  BY NextTypeInv, NextApprovedInv, NextJobsInv, NextSlots DEF Base
<1>3. Base => ConcurrencyBounded
  BY LimitIsBound DEF Base, SlotInv
<1> QED
  BY <1>1, <1>2, <1>3, PTL DEF Spec
=============================================================================
