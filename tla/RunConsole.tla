----------------------------- MODULE RunConsole -------------------------------
(***************************************************************************)
(* One browser tab over one run: the pages that show the run and offer the  *)
(* owner's actions on it (apps/web/src/pages/RunDetail.tsx, Operations.tsx, *)
(* Runs.tsx, Approvals.tsx, the Runs tab of ProjectDetail.tsx, components/  *)
(* ApprovalGate.tsx, ConfirmDialog.tsx), drawn from a query cache that      *)
(* polls, goes stale and is invalidated by what the tab itself does, while  *)
(* workers and other tabs move the run.                                     *)
(*                                                                          *)
(* The API's own races are RunSystem's subject.  Here a handler of the      *)
(* owner's, for this tab or another, checks the run and commits its state   *)
(* in one step, its event in another, as its two commits; a worker's moves  *)
(* commit both together.                                                    *)
(*                                                                          *)
(* Left out: the queries about other things (projects, engagements,         *)
(* evidence, findings, audit), the state filter of the Runs page, which     *)
(* run is expanded there, and the texts.                                    *)
(***************************************************************************)
EXTENDS ConsoleViews, QueryCache

CONSTANTS
  Histories,  \* the states the run may have gone through when the tab opens
  Other,      \* the state of an older run in the lists, which nobody moves
  Queries,    \* those of Keys that the instance follows
  MaxSteps,   \* bound on the owner's actions and the moves of the run by others
  MaxTurns    \* bound on the user's ways between pages and the requests that fail

ASSUME ConstantsAssumption ==
  /\ Histories \subseteq Seq(RunState) \ {<<>>}
  /\ Other \in RunState
  /\ {"run", "runs", "run-events"} \subseteq Queries /\ Queries \subseteq Keys
  /\ MaxSteps \in Nat /\ MaxTurns \in Nat

(* The run began as a draft and has moved as the table allows.              *)
ASSUME HistoriesAssumption ==
  \A h \in Histories : h[1] = "DRAFT" /\ \A i \in 2 .. Len(h) : validate_transition(h[i - 1], h[i])

VARIABLES
  log,     \* the states the run has gone through, as committed
  trail,   \* how many events of the run are committed
  cache,   \* the query cache of the tab
  page,    \* the page it shows
  chosen,  \* the run the user picked on Operations: 1 is the run, 2 the other
  dialog,  \* the open ConfirmDialog
  acts,    \* the owner's actions under way
  owed,    \* history: the versions this visit of the page must come to show
  used     \* how much of the bounds is used up

vars == <<log, trail, cache, page, chosen, dialog, acts, owed, used>>

-----------------------------------------------------------------------------
(* Data *)

Components == {"controls", "gate", "row", "card"}

(* An action knows the component it was started from (by) and whether that  *)
(* is still mounted, and the version of the run that was shown there (at);  *)
(* wrote is the version it led to.                                          *)
Action == [n : 1 .. MaxSteps, by : Components, op : Ops, at : Nat, mounted : BOOLEAN,
           pc : {"sent", "decided", "answered"}, code : {0, 200, 409, 422}, wrote : Nat]

NoDialog == [by |-> "row", op |-> "none", at |-> 0]

NothingOwed == [run |-> 0, events |-> 0]

Now == log[Len(log)]

-----------------------------------------------------------------------------
(* What a page shows, given the cache and the choice *)

(* Operations shows the active run, also after a failed request; the other  *)
(* pages then replace what they have by the ErrorState.                     *)
Sees(p, c, pick) ==
  LET e == c[Main(p)]
  IN /\ HasData(e)
     /\ CASE p = "operations" -> (IF pick = 0 THEN activeRun(<<log[e.data], Other>>) ELSE pick) = 1
          [] p \in {"detail", "runs", "approvals", "project"} -> ~ e.error
          [] OTHER -> FALSE

ShownState(p, c) == log[c[Main(p)].data]

(* The queries about the run that are mounted. *)
Watched(p, c, pick) ==
  Queries \intersect
    CASE p = "detail" -> {"run", "run-steps", "run-events"}
      [] p = "operations" -> {"runs"} \union IF Sees(p, c, pick) THEN {"run-steps", "run-events"} ELSE {}
      [] p \in {"runs", "approvals", "project"} -> {"runs"}
      [] OTHER -> {}

(* The components of the page that stay mounted: the controls' mutation is  *)
(* RunDetail's own, a gate and a card live as long as the run waits.        *)
Alive(by, p, c, pick) ==
  CASE by = "controls" -> p = "detail"
    [] by = "gate" -> /\ p \in {"detail", "operations"} /\ Sees(p, c, pick)
                      /\ ShownState(p, c) \in APPROVAL_STATES
    [] by = "row"  -> p \in {"runs", "project"} /\ Sees(p, c, pick)
    [] by = "card" -> p = "approvals" /\ Sees(p, c, pick) /\ ShownState(p, c) \in APPROVAL_STATES

Empty == [k \in Queries |-> NoEntry]

(* The tab opens on some page. *)
Init ==
  /\ log    \in Histories
  /\ trail  = Len(log)
  /\ page   \in Pages
  /\ cache  = [k \in Queries |-> IF k \in Watched(page, Empty, 0) THEN Mounted(NoEntry) ELSE NoEntry]
  /\ chosen = 0
  /\ dialog = NoDialog
  /\ acts   = {}
  /\ owed   = NothingOwed
  /\ used   = [steps |-> 0, turns |-> 0]

(* Queries mount.  Whether 30 seconds have passed since their data came is  *)
(* decided only now that it matters.                                        *)
Mount(c, keys) ==
  \E old \in SUBSET {k \in keys : HasData(c[k])} :
    cache' = [k \in Queries |-> IF k \in old THEN Mounted(Aged(c[k]))
                                ELSE IF k \in keys THEN Mounted(c[k]) ELSE c[k]]

(* React draws the page from cache c: queries that come to be shown mount,  *)
(* and components that no longer are take their state with them.            *)
Redraw(c, pick) ==
  /\ Mount(c, Watched(page, c, pick) \ Watched(page, cache, chosen))
  /\ chosen' = pick
  /\ dialog' = IF Alive(dialog.by, page, c, pick) THEN dialog ELSE NoDialog
  /\ acts' = {[a EXCEPT !.mounted = @ /\ Alive(a.by, page, c, pick)] : a \in acts}
  /\ UNCHANGED page

-----------------------------------------------------------------------------
(* The user finds the way *)

Turn == used.turns < MaxTurns /\ used' = [used EXCEPT !.turns = @ + 1]
Step == used.steps < MaxSteps /\ used' = [used EXCEPT !.steps = @ + 1]

(* Every query of the new page mounts. *)
Visit(p) ==
  /\ p # page
  /\ Turn
  /\ Mount(cache, Watched(p, cache, 0))
  /\ page' = p /\ chosen' = 0 /\ dialog' = NoDialog /\ owed' = NothingOwed
  /\ acts' = {[a EXCEPT !.mounted = FALSE] : a \in acts}
  /\ UNCHANGED <<log, trail>>

(* Operations' run selector. *)
Choose(pick) ==
  /\ page = "operations" /\ HasData(cache["runs"])
  /\ pick # chosen
  /\ Turn
  /\ Redraw(cache, pick)
  /\ UNCHANGED <<log, trail, owed>>

-----------------------------------------------------------------------------
(* Data *)

Current(k) == IF k \in {"run", "runs"} THEN Len(log) ELSE trail

(* Seeded bug: polling starts when the worker does. *)
Polls_Running == page = "detail" /\ HasData(cache["run"]) /\ log[cache["run"].data] = "RUNNING"

(* RunDetail's refetchInterval, a live run's every 1.5 seconds. *)
Polls == page = "detail" /\ HasData(cache["run"]) /\ isLiveState(log[cache["run"].data])

Poll(k) ==
  /\ Polls
  /\ k \in Watched(page, cache, chosen) /\ cache[k].fetch = "idle"
  /\ cache' = [cache EXCEPT ![k] = Joined(@)]
  /\ UNCHANGED <<log, trail, page, chosen, dialog, acts, owed, used>>

(* ErrorState's button. *)
Retry ==
  LET k == Main(page) IN
  /\ page \in {"detail", "runs", "approvals", "project"} /\ cache[k].error /\ cache[k].fetch = "idle"
  /\ cache' = [cache EXCEPT ![k] = Refetched(@)]
  /\ UNCHANGED <<log, trail, page, chosen, dialog, acts, owed, used>>

Serve(k) ==
  /\ cache[k].fetch = "sent"
  /\ cache' = [cache EXCEPT ![k] = Served(@, Current(k))]
  /\ UNCHANGED <<log, trail, page, chosen, dialog, acts, owed, used>>

(* RunDetail's effect: the run it shows has become final. *)
BecomesFinal(k) ==
  /\ k = "run" /\ page = "detail" /\ HasData(cache[k])
  /\ log[cache[k].answer] # log[cache[k].data]
  /\ log[cache[k].answer] \in FinalStates

InvalidatedIn(c, keys) ==
  [k \in Queries |-> IF k \in keys THEN Invalidated(c[k], k \in Watched(page, c, chosen)) ELSE c[k]]

Deliver(k) ==
  /\ cache[k].fetch = "answered"
  /\ LET landed == [cache EXCEPT ![k] = Landed(@)]
     IN Redraw(IF BecomesFinal(k) THEN InvalidatedIn(landed, InvalidatedWhenFinal) ELSE landed,
               chosen)
  /\ owed' = IF BecomesFinal(k) /\ trail = Len(log) /\ HasData(cache["run-events"])
             THEN [owed EXCEPT !.events = trail] ELSE owed
  /\ UNCHANGED <<log, trail, used>>

Fail(k) ==
  /\ Turn
  /\ cache[k].fetch = "sent"
  /\ Redraw([cache EXCEPT ![k] = Failed(@)], chosen)
  /\ UNCHANGED <<log, trail, owed>>

-----------------------------------------------------------------------------
(* The user acts *)

Send(by, op, at) ==
  /\ Step
  /\ acts' = acts \union {[n |-> used.steps + 1, by |-> by, op |-> op, at |-> at, mounted |-> TRUE,
                           pc |-> "sent", code |-> 0, wrote |-> 0]}

Offered(by, op) == Sees(page, cache, chosen) /\ <<by, op>> \in Offers(page, ShownState(page, cache))

(* A button of the controls or the gate, disabled while an action of the    *)
(* same component is under way.                                             *)
Press(by, op) ==
  /\ by \in {"controls", "gate"}
  /\ \A a \in acts : ~ (a.mounted /\ a.by = by)
  /\ Send(by, op, cache[Main(page)].data)
  /\ Offered(by, op)
  /\ UNCHANGED <<log, trail, cache, page, chosen, dialog, owed>>

(* A row or card opens a ConfirmDialog, which is modal ... *)
Open(by, op) ==
  /\ by \in {"row", "card"}
  /\ dialog = NoDialog
  /\ Offered(by, op)
  /\ dialog' = [by |-> by, op |-> op, at |-> cache[Main(page)].data]
  /\ UNCHANGED <<log, trail, cache, page, chosen, acts, owed, used>>

(* ... Escape or a click beside it closes it, also while it is at work ... *)
Dismiss ==
  /\ dialog # NoDialog
  /\ dialog' = NoDialog
  /\ UNCHANGED <<log, trail, cache, page, chosen, acts, owed, used>>

(* ... and its button is disabled while its own action is under way.       *)
Confirm ==
  /\ dialog # NoDialog
  /\ \A a \in acts : ~ (a.mounted /\ a.by = dialog.by /\ a.op = dialog.op)
  /\ Send(dialog.by, dialog.op, dialog.at)
  /\ UNCHANGED <<log, trail, cache, page, chosen, dialog, owed>>

Replaced(a, b) == acts' = (acts \ {a}) \union {b}

Refuse(a, code) ==
  /\ Replaced(a, [a EXCEPT !.pc = "answered", !.code = code])
  /\ UNCHANGED log

(* Seeded bug: the decision is written for the state it leads to. *)
Commit_Decision(a, state) ==
  /\ log' = Append(log, a.op)
  /\ Replaced(a, [a EXCEPT !.pc = "decided", !.wrote = Len(log) + 1])

Commit(a, state) ==
  /\ log' = Append(log, state)
  /\ Replaced(a, [a EXCEPT !.pc = "decided", !.wrote = Len(log) + 1])

(* The handlers of the API (RunSystem has them in full): a decision comes   *)
(* with a justification, which the form lets be too short.                  *)
Decide(a) ==
  /\ a.pc = "sent"
  /\ \/ a.op \in Decisions /\ Refuse(a, 422)
     \/ a.op \in Decisions /\ Now \notin APPROVAL_STATES /\ Refuse(a, 409)
     \/ /\ a.op = "approve"
        /\ \E gate \in ApprovalGates : gate.at = Now /\ Commit(a, gate.next)
     \/ a.op = "reject" /\ Now \in APPROVAL_STATES /\ Commit(a, "CANCELLED")
     \/ /\ a.op = "cancel" /\ Now \in TERMINAL_STATES
        /\ Replaced(a, [a EXCEPT !.pc = "answered", !.code = 200, !.wrote = Len(log)])
        /\ UNCHANGED log
     \/ a.op = "cancel" /\ Now \notin TERMINAL_STATES /\ Commit(a, "CANCELLED")
     \/ /\ a.op \in RunState
        /\ IF validate_transition(Now, a.op) THEN Commit(a, a.op) ELSE Refuse(a, 409)
  /\ UNCHANGED <<trail, cache, page, chosen, dialog, owed, used>>

Record(a) ==
  /\ a.pc = "decided"
  /\ trail' = trail + 1
  /\ Replaced(a, [a EXCEPT !.pc = "answered", !.code = 200])
  /\ UNCHANGED <<log, cache, page, chosen, dialog, owed, used>>

(* onSuccess invalidates, whether or not the component is still there, and  *)
(* closes whatever dialog the component has open; onError only shows the    *)
(* message.                                                                 *)
Succeed(a) ==
  /\ a.pc = "answered" /\ a.code = 200
  /\ LET keys == Queries \intersect Invalidates(a.by, a.op)
     IN /\ cache' = InvalidatedIn(cache, keys)
        /\ owed' = IF ~ a.mounted THEN owed
                   ELSE [run |-> a.wrote,
                         events |-> IF "run-events" \in keys /\ HasData(cache["run-events"])
                                    THEN trail ELSE owed.events]
  /\ dialog' = IF a.mounted /\ dialog.by = a.by THEN NoDialog ELSE dialog
  /\ acts' = acts \ {a}
  /\ UNCHANGED <<log, trail, page, chosen, used>>

Refused(a) ==
  /\ a.pc = "answered" /\ a.code # 200
  /\ acts' = acts \ {a}
  /\ UNCHANGED <<log, trail, cache, page, chosen, dialog, owed, used>>

(* What no page offers, and a worker does, state and event together. *)
WorkerMoves == {<<"QUEUED", "RUNNING">>} \union {"RUNNING"} \X {"COMPLETED", "FAILED"}

(* A worker; or the owner elsewhere, whose event is left to write.          *)
Move(state) ==
  /\ Step
  /\ validate_transition(Now, state)
  /\ log' = Append(log, state)
  /\ trail' = IF <<Now, state>> \in WorkerMoves THEN trail + 1 ELSE trail
  /\ UNCHANGED <<cache, page, chosen, dialog, acts, owed>>

(* The events that handlers for other tabs have yet to write. *)
OwedElsewhere == Len(log) - trail - Cardinality({a \in acts : a.pc = "decided"})

RecordElsewhere ==
  /\ OwedElsewhere > 0
  /\ trail' = trail + 1
  /\ UNCHANGED <<log, cache, page, chosen, dialog, acts, owed, used>>

-----------------------------------------------------------------------------
Next == \/ \E p \in Pages : Visit(p)
        \/ \E pick \in {1, 2} : Choose(pick)
        \/ \E k \in Queries : Poll(k) \/ Serve(k) \/ Deliver(k) \/ Fail(k)
        \/ Retry \/ Dismiss \/ Confirm
        \/ \E by \in Components, op \in Ops : Press(by, op) \/ Open(by, op)
        \/ \E a \in acts : Decide(a) \/ Record(a) \/ Succeed(a) \/ Refused(a)
        \/ \E state \in RunState : Move(state)
        \/ RecordElsewhere

Spec == Init /\ [][Next]_vars

(* The API answers and the tab's event loop runs; RunDetail's interval goes *)
(* off while the tab is in the foreground.  Nobody is bound to act, to move *)
(* on, to press Retry or to advance the run, and no request need fail.      *)
(* A query is polled when idle, served when asked and delivered when        *)
(* answered, one after the other.                                           *)
HandleAny == \E a \in acts : Decide(a) \/ Record(a) \/ Succeed(a) \/ Refused(a)

FairSpec == /\ Spec /\ WF_vars(HandleAny) /\ WF_vars(RecordElsewhere)
            /\ \A k \in Queries : WF_vars(Poll(k) \/ Serve(k) \/ Deliver(k))

-----------------------------------------------------------------------------
(* Properties *)

(* Every variable keeps to its type. *)
TypeOK ==
  /\ log \in Seq(RunState) /\ trail \in Nat
  /\ cache \in [Queries -> Entry(Nat)]
  /\ page \in Pages /\ chosen \in 0 .. 2
  /\ dialog \in [by : Components, op : Ops \union {"none"}, at : Nat]
  /\ acts \subseteq Action
  /\ owed \in [run : Nat, events : Nat]
  /\ used \in [steps : 0 .. MaxSteps, turns : 0 .. MaxTurns]

(* No page offers what the API would refuse: an action is answered with a   *)
(* conflict only when the run has moved since the version it was offered    *)
(* for (RunDetail's NEXT_STEP and controls, ApprovalGate, Runs, Approvals   *)
(* against the transition table of the API).                                *)
RefusedOnlyIfMoved == \A a \in acts : a.code = 409 => Len(log) > a.at

(* The states of the run since it was last a draft, up to a version of it. *)
Attempt(version) == {log[i] : i \in {i \in 1 .. version :
                                       \A j \in i + 1 .. version : log[j] # "DRAFT"}}

(* What the execution graph draws as passed of planning, queue and          *)
(* execution, the run has been through since it was last a draft: nothing   *)
(* of an attempt that failed counts for the next (deriveGraph).  A run that *)
(* failed or was cancelled is drawn at the end wherever it stopped, and is  *)
(* left out.                                                                *)
GraphTruthful ==
  \A p \in {"detail", "operations"} :
    page = p /\ Sees(p, cache, chosen) /\ ShownState(p, cache) \notin {"FAILED", "CANCELLED"}
      => \A node \in PassedNodes(ShownState(p, cache)) :
           Through[node] \subseteq Attempt(cache[Main(p)].data)

(* After an action succeeded, the page it was taken on comes to show the    *)
(* run as the action left it, unless the user leaves or loading it fails:   *)
(* what every action invalidates covers what its page shows.                *)
OwnActionShown == []<>(cache[Main(page)].data >= owed.run \/ cache[Main(page)].error)

(* The timeline comes to show the events of the tab's own approvals and     *)
(* controls, and of a run that ends while RunDetail shows it, provided they *)
(* are all on record when it learns of the end, although polling stops with *)
(* the run (RunDetail's effect on final states).  The event of a cancel in  *)
(* another tab may not be, and may then never be shown.                     *)
TimelineCatchesUp ==
  []<>(cache["run-events"].data >= owed.events \/ cache["run-events"].error)

ShownLive == page = "detail" /\ HasData(cache["run"]) /\ isLiveState(ShownState(page, cache))

(* RunDetail follows a run it shows as live: it does not stay queued or     *)
(* running there for ever when it is not (refetchInterval, isLiveState).    *)
LiveRunFollowed == []<>(ShownLive => ShownState(page, cache) = Now)

===============================================================================
