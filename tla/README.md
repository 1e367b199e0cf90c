# Morphia: a verification project

TLA+ modules, TLC runs and TLAPS proofs for Morphia, a platform on which an
owner plans security research runs, approves them and lets workers execute
their steps.  Paths below are relative to the repository, `src/` here.

## 1. The system

| component | state it keeps | operations | talks to |
|---|---|---|---|
| run state machine (`apps/api/app/models/runs.py`) | none: states, table of legal transitions, terminal sets | `validate_transition` | used by both run routers |
| run routes (`routers/runs.py`) | rows `runs`, `run_events`, `approval_requests`, `audit_events` | create, transition, cancel, approve, reject | PostgreSQL, the job queue |
| job queue (`services/queue.py`) | Redis list `morphia:jobs` | push on approval; popped by workers | run routes, workers |
| worker process (`apps/worker/app/main.py`, `api_client.py`) | the job it popped and the step it holds | pop, claim, invoke a provider, submit, transition | the worker callbacks, a model provider |
| worker callbacks (`routers/worker.py`) | rows `runs`, `run_steps`, `run_events` | claim, submit step, transition | PostgreSQL, the scope validator |
| database session (`core/database.py`) | one transaction a request | commit in the route or in the cleanup, rollback on an error | every route |
| scope validator (`services/scope_validator.py`), target safety | reads engagements, scope rules, runs, approvals; writes `audit_events` | eight checks, deny by default | claim |
| engagements, scope rules (`routers/engagements.py`, `scope.py`) | rows `engagements`, `scope_rules`, `audit_events` | engagements: create, update, read; rules: create, delete, list | target safety; the scope validator reads them |
| projects (`routers/projects.py`) | rows `projects` | create, list, read; never updated or deleted | every owner route checks ownership |
| evidence (`routers/evidence.py`, `services/storage.py`, `evidence_upload.py`) | row, stored object, audit row | upload, review, read | object storage |
| findings and reports (`routers/findings.py`, `reports.py`) | findings, verifications, reports, report links, audit rows | create, update, verify, link, export | evidence ids |
| authentication, sessions, CSRF, roles (`routers/auth.py`, `middleware/csrf.py`) | rows `users`, `sessions` | register, login, logout, check, the CSRF middleware | every owner route, the browser's cookie |
| audit and aggregate views | none of their own | list and filter | audit rows |
| web application: signing in (`apps/web/src/lib/session.ts`, `auth.ts`, `api.ts`, `SignIn.tsx`, `Layout.tsx`) | a tab's token, user and page; the cookie its tabs share | sign up, in and out, reload, go back, leave on a 401 | the API |
| web application: pages about a run (`RunDetail`, `Operations`, `Runs`, `Approvals`, `ApprovalGate`, `ExecutionGraph`) | the query cache, dialogs, actions under way | poll, approve, reject, cancel, next step | the run routes |
| web application: lists with a form (`Projects`, `Reports`, `ProjectDetail`) | the query cache, the open form, the selected engagement | add to a list, remove a rule | project, engagement, scope, run and report routes |
| web application: read-only pages | cached answers | load | the API |
| health, system, settings, headers; seed, demo target, scripts, infrastructure | none that evolves | | |

What is hard about it:

* **Concurrency without locks.**  Every request is a coroutine with its own
  session at READ COMMITTED.  No route uses `SELECT ... FOR UPDATE` or a version
  column, so what a handler read may be gone when it writes.  Owner requests,
  several workers and several API processes act on one run at once.
* **Commits that follow the answer.**  Owner routes commit before they answer;
  the worker callbacks leave their commit to `get_db`'s cleanup, which FastAPI
  may run after the answer has been sent (the docstring at
  `core/database.py:48-54` says so).  The worker's next call can overtake it.
* **One operation, several transactions.**  An approval commits the state, then
  the event, then the audit row, then pushes the job.
* **A queue that forgets.**  `brpop` removes the job before it is worked on;
  nothing redelivers it, and a failed push is only logged.
* **Writes that are not there.**  A handler loads a row, assigns to it and flushes;
  SQLAlchemy writes the columns whose new value differs from the *loaded* one, so a
  stale read can turn an assignment into nothing.
* **Answers heard late.**  The web application aborts no request: an answer is heard
  by a tab that has moved on, signed in as somebody else or been reloaded, and a page
  draws, and offers, what was true some time ago.
* **Several tabs, one cookie.**  Tabs share the cookie but neither token nor cache.
* **Progress kept as a row count.**  The next step of a run is found by counting
  its `run_steps` rows, whatever their status and whichever attempt wrote them.

What makes each component correct is listed with its hazards in
`PROJECT.json`; sections 3 to 5 say what is checked and proved of it.

## 2. Modules

| module | models | role |
|---|---|---|
| `RunStates` | `models/runs.py`, `_approval_target` | states, legal transitions, terminal and slot-holding states, approval gates |
| `StepLedger` | what `run_steps` promises | the abstract specification: an append-only ledger in plan order |
| `RunSystem` | run routes, queue, worker, worker callbacks, scope limits, transactions | the core: everything that happens to a run |
| `Casework` | evidence upload and review, findings and verifications, report links and exports | the case file, apart from runs |
| `ScopeGate` | edits of rules and engagement status, the eight checks of a claim, the audit rows of both | what `RunSystem` has as the verdict `scopeOpen` |
| `WebSession` | `routers/auth.py`, `middleware/csrf.py`; `lib/session.ts`, `lib/auth.ts`, `lib/api.ts`, `SignIn`, `Layout` | tabs, cookie, sessions and the requests between them |
| `QueryCache` | @tanstack/react-query as `main.tsx` sets it up (external) | one cache entry: fresh, stale, in error, being fetched |
| `ConsoleViews` | the pages about runs as functions of a run | what they show, offer and invalidate |
| `RunConsole` | those pages over time, in one tab | composes `ConsoleViews` and `QueryCache` with a run that others move |
| `ProjectConsole` | the lists with a form, in one tab | composes `QueryCache` with lists that others change |
| `MCRunSystem`, `MCCasework`, `MCScopeGate`, `MCWebSession`, `MCRunConsole`, `MCProjectConsole` | | constants for TLC |
| `RunSystemProofs` | | type correctness, proved |
| `RunSafetyProofs` | | step order, refinement of `StepLedger`, approval before execution, proved |
| `RunHistoryProofs` | | completions, legality, trail, jobs and the concurrency limit, proved |
| `CaseworkProofs` | | type correctness, custody, traceability, exports, links, proved |
| `ScopeGateProofs` | | type correctness, edits bind, audit, proved |
| `WebSessionProofs` | | type correctness and every safety property of `WebSession`, proved |
| `RunConsoleProofs` | | type correctness, no illegal offers, a truthful graph, proved |
| `ProjectConsoleProofs` | | type correctness, one filling of a form makes one item, proved |

### How `RunSystem` corresponds to the code

State.  `runState`, `steps`, `events`, `approvals` and `auditRows` are the
committed rows.  `queue` is the Redis list.  `req[q]` is an owner request in
flight: what it has read (`seen`), where it moves the run (`to`) and what it does
next.  `wk[w]` is a worker process together with the callback it is inside of.
`stateTx[r]` is the open transaction of a worker callback that has written run
`r` and so holds its row lock; `stepTx` the uncommitted step rows, which hold
their idempotency key.  `changes` is history, `used` counts against the bounds.

Owner requests.  `create_run`, `transition_run`, `cancel_run`, `approve_run` and
`reject_run` are the read and the guards of the route; `CommitState` is the write
and its commit (with the approval row, which is in the same transaction),
`_record_event`, `WriteAudit` and `enqueue_run_job` the commits that follow.
Refused requests change nothing and have no action.

Worker.  `process_jobs` pops a job.  `ClaimRead`, `ClaimCount`, `ClaimGranted`,
`ClaimDenied` and `ClaimNoEngagement` are one `claim_run` call, cut where another
transaction can come between: after the read of the run, after the count of the
steps, after the scope check.  `Invoke` is the provider, `submit_step`,
`TransitionRead` and `TransitionWrite` the other two callbacks.  `CommitStateTx`
and `CommitStepTx` are the cleanup commits.  A callback that fails (`FailRun`)
commits before it raises, as the code does.

Faults.  `AbandonJob` is a worker that dies, restarts, times out or is refused
by the rate limit: the popped job is gone.  `ApiCrash` ends every request where
it stands and rolls open transactions back.  A push may fail.  `EditScope` turns
the verdict of the engagement and rule checks.

Abstractions.  Plans are lengths; targets, actions and rules are one bit a run
(`scopeOpen`) and a set of sensitive steps; run events without states, reasons and
payloads are left out.  `ApiCrash` is one process with all requests in it: several API
processes only make a crash smaller.

Projects.  `ProjectOf` is the project of a run, `EngagedIn` that of the engagement it
names, which `create_run` stores unchecked (`runs.py:151-161`).  Concurrency and approvals
are looked up by the engagement's project (`AtWork`, `_has_approval`).

### How `Casework` corresponds to the code

State.  `evidence`, `finding`, `verifications`, `links` and `trail` are the committed
rows (`trail` the audit rows); `objects` is the object storage; `req[q]` a request in
flight with what it has read.

An upload is `upload_evidence` (row committed), `StoreObject` (the storage call, which
may fail before or after it took effect), `CommitPath` and `AuditUpload`.  A review is
read, write and audit; so is an update of a finding, whose audit row is left out when
the state it *read* is the one it writes.  `verify_finding` and `CommitVerification`
are its read and its one commit.  `link_findings` reads the links that exist,
`InsertLinks` inserts the others; an export reads findings, verifications and evidence in
three statements.  A verification cites any ids it likes: those of artifacts, or of none
(`MadeUp`).  `Written` is SQLAlchemy's rule for a flushed attribute (external).
`ApiCrash` ends all requests where they are.

Texts, severities, digests and the rendering of a report are left out, refused requests
too; a report's own status is read by no handler.

### How `ScopeGate` corresponds to the code

State.  `status` and `rules` are the engagement's and its rules' rows, `audit` the audit
rows, `claim[c]` where a claim's handler is in `validate_target` and its verdict, `ran`
the claims a worker has executed, `req[q]` an owner request in flight.  `gone` and `seen`
are history: `seen` has what was so at some instant of a claim's check, and whether an edit
was committed between its reads of the engagement and of the rules.

`create_scope_rule` commits the rule, `AuditCreate` its audit row in a second
transaction; `CommitDelete` has both in one.  `CheckEngagement`, `CheckTarget`,
`CheckRules` and `CheckLimits` are the checks in the code's order, cut where an edit can
commit in between.  `_deny` is the denial, whose audit row `claim_run` commits before it
raises; a permission is answered first and committed by `CommitClaim`.

Patterns are the set of targets they match (`Covers`), denied address space a set of
targets; a host name may resolve to anything each time it is asked for.  Which patterns
`create_scope_rule` refuses is a constant of its own (`Acceptable`), since of a range it
looks at the two ends only (`target_safety.py:163-172`): an accepted rule may cover denied
space, as the wide rule of the instance does, and `CheckTarget` is what stops the target.  What checks 5
and 6 say is open here, since `RunSystem` has them.

### How `WebSession` corresponds to the code

State.  `accounts` counts the committed `users` rows of an address, `session[s]` is a
sessions row, `txns` the transactions of `register` and `logout`, which `get_db` commits
after the answer.  `cookie` is the browser's `sid`.  `tab[t]` has the variables of
`lib/session.ts` (`csrf`, `user`), the page, whether that is `/operations` (`home`), `Layout`'s
two states (`auth`, `shown`), and whose data the query cache holds.  `req[q]` is a request in flight, from `fetch` to the
continuation of its answer; it carries the cookie and token it left with and whether the
component, or the whole page load, that sent it is gone.

User: `Submit` is `SignIn.handleSubmit`, `Use` the pages' queries and mutations and
`handleLogout`; `Enter`, `Back` and `Reload` are the ways between pages.  API:
`RegisterLookup`, `RegisterInsert`, `LoginDenied`, `LoginGranted`, `Logout`, `Read`,
`Mutate`, with the middleware's `CsrfPass`; `Commit` is the late commit, `Expire` a session
past its `expires_at`.  Answers: `Arrive` is the browser taking Set-Cookie, before the
page's code runs; `Unauthorized` is `request()`'s way with a 401, the others are the
continuations of `login`, `register`, `logout`, `fetchCurrentUser` and of a query.  A login
answered goes to `/operations`; where the tab is there already, `Layout`'s effect does not run
again, and an earlier `/me` stays awaited (`SignedIn`).

Passwords, the role and `is_active` (no route changes them), rate limits, the cookie's
`max_age` (the session's own end is `Expire`) and a query's second try are left out.

### How `RunConsole` corresponds to the code

State.  `log` is the states the run has gone through, a version of the run its index
there; `trail` counts its committed events.  `cache` has an entry of `QueryCache` for each
query about the run.  `page`, `chosen`, `dialog` and `acts` are what one tab shows, the
run picked on Operations, the open `ConfirmDialog`, and the owner's actions under way.

`ConsoleViews` says what the pages make of a run: `NEXT_STEP`, the controls, gates, rows and
cards (`Offers`), what an action invalidates (`Invalidates`), the graph (`PassedNodes`).  Of
the graph's nodes it has planning, queue and execution, which say where the run has been.
The others claim what the run's states do not tell, all drawn from the same position:
`SCOPE VALIDATION` a check passed, at PLANNING, when none has been made; `HUMAN APPROVAL` an
approval, which a `/transition` to QUEUED does without; `WORKER REVALIDATION` a check of
each step; `EVIDENCE` an artifact, for each step row; `FINDING` a verified finding, for every
run that completed.  No property could find them truthful, and nothing backs them.
`Poll` is `refetchInterval`, `Deliver` a query's answer with `RunDetail`'s effect when the
run turns final, `Redraw` what React does then: queries mount, components that are no
longer drawn take their state with them.  `Press`, `Open`, `Dismiss`, `Confirm` are the
buttons.  `Decide` and `Record` are the API's two commits; its races are `RunSystem`'s.
`Move` is a worker, which commits state and event together, or the owner in another tab,
whose event `RecordElsewhere` commits after.  A button that is disabled while its request is
out takes no second click (`isPending`); in the browser it is disabled one render later.

### How `ProjectConsole` corresponds to the code

State.  `stored` has the version of every list, `cache` its entry in the tab; only
engagements are told apart, since the Scope tab picks one.  `form` is whether the page's
form is open, `acts` the requests that change something: each knows its list, the list its
`onSuccess` will invalidate, and whether its form and page are still there.

`Submit` is the form's `handleSubmit`, `Remove` a rule's; `Handle` is the API (a refusal, or
one commit), `Lose` the network.  `Succeed` is `onSuccess` followed by `onDone`;
`SucceedAndAwait` and `Settle` are the engagements' form, which awaits the invalidated list
before it closes.  `Kept` is how `useMutation` takes over the options of a redrawn form.
`Visit`, `Toggle` and `Pick` are the ways about.

## 3. Runs

| run | asks | instance | verdict |
|---|---|---|---|
| `race` | do owner requests, workers, crashes and lost pushes corrupt a run? | 1 run of 2 steps, 2 workers, 2 requests at a time, 3 in all, every operation, 1 fault of any kind at any moment | holds, 3.7 M states |
| `slots` | is the concurrency limit kept, does the approval check let runs pass, is every queued job settled? | 4 runs, of which any two are approved: one without engagement, one with an engagement of another project; limit 2, 2 workers, first steps sensitive | holds, 42 k states |
| `retry` | are failures reported, cancelled runs let go and jobs settled, over retries, pauses and an edit of the scope? | 1 run from its creation, 2 workers, 9 requests: enough for two attempts and a cancellation | holds, 518 k states |
| `casework` | do overlapping, failing and interrupted requests spoil the case file? | 2 artifacts (one there), 1 made-up id, 2 findings (one there), 1 report, 2 reviewers, 4 requests, 2 at a time, 1 fault | holds, 3.5 M states |
| `scope` | do edits bind the claims after them, and is everything on record? | 2 claims on 2 targets, 4 rules, 4 edits, 2 at a time, 1 stop of the API | holds, 320 k states |
| `session` | does a token, a name or a cached answer outlive its session in a tab? | 2 tabs, 2 addresses (one registered), 2 sessions, 2 requests at a time, 3 of the user's, 1 move, 1 fault | holds, 643 k states |
| `console` | do the pages offer what is legal and come to show what happened? | a run at three places (draft, gated after a failed attempt, running) and an older one, 2 actions or moves, 1 way between pages or failed request | holds, 799 k states |
| `projects` | does a form make one item, and do the lists catch up? | 2 engagements, 5 pages, 2 additions, removals or foreign changes, 1 way or lost request | holds, 296 k states |
| `v_duplicate` | "idempotency keys ... prevent duplicate execution" | | violated |
| `v_resume` | "When a run reaches QUEUED, the API pushes a job" | | violated |
| `v_verification` | "moves the finding's `state` accordingly" | | violated |
| `v_logout` | "a captured cookie stops working immediately after logout" | | violated |

Bounds.  One run is enough where the property is about one run: runs meet only in
the concurrency and approval checks (`slots` has four).  Two workers and two
requests are what a stale read needs; two steps tell the first claim of a run from
a later one and a row from a gap.  Three requests let an approval be followed by a
cancellation, a pause and a resume, or two approvals race.  The targets of `/transition` in
`race` are those that put a run back to work or hold it (QUEUED, RUNNING, PAUSED,
AWAITING_ACTION_APPROVAL); the way to a second attempt is `retry`'s.  Workers and request
slots are interchangeable (SYMMETRY `Alike`), used only in the runs without
liveness.

In `casework` a fourth request is what an export needs to overlap two verifications of
a finding it shows; two artifacts tell one verification's evidence from another's.  In
`scope` the wide rule can be deleted and another one that matches created again within
one check, with the engagement paused in between.

In `session` three requests of the user's are two logins (two tabs, two people, or the
same tab twice) and one more thing done; sign-ups and navigations send their own.  One
move leaves a request outlived, one fault a lost answer or an expired session.  In
`console` two steps let an action overlap a foreign move or another action, and the
histories put the run where a page offers something of its own; Operations' choice needs
the older run.  In `projects` two additions are a double click, a form reopened, or two
engagements; the reports page has the same definitions as the others and is not in the
instance.  The violations need less: one worker or two requests.  `CHECK_DEADLOCK FALSE` in
these five: requests are used up, and no user need
act.

### What holds

* `StepsInOrder`, `LedgerSpec`: however many workers hold a run and however late
  their transactions commit, its step rows are 1, 2, 3 ... without gap or repetition.
* `WorkerCompletionBacked`: a worker's COMPLETED has a row for each step.
* `ExecutionApproved`, `JobsBacked`: no job or worker without an approved plan,
  and never more jobs than approvals.
* `ApprovalsSpentOnce`: no job comes without a new approval, so one that was lost,
  refused or finished never comes back, and a retried or resumed run gets none of itself.
* `LegalUnlessStale`: stale reads are the only way round the transition table.
* `TrailComplete`: while the API does not stop, every transition has its event
  and every decision its audit row, or the request about to write it.
* `ApprovalCheckNeverDenies`: check 6 of the scope validator cannot deny a run whose
  engagement is of its own project.
* `ConcurrencyBounded`: at most `MaxConcurrent - 1` runs of a project execute, of those
  whose engagement is the project's own, as long as the owner takes none away by hand.
* `JobsSettle`: a run whose only job is on the list, with a step left to do, leaves QUEUED
  and RUNNING in the end.  An empty or fully recorded plan is excepted: it stays RUNNING.
* `FailureReported`: each failed step ends its attempt, by a FAILED, by a cancellation, or
  by the owner taking the run out of RUNNING, after which the worker's FAILED is refused.
* `CancelStopsWorkers`: no worker works for ever on a cancelled run.
* `PathMeansObject`: a row that names a storage path has its bytes stored.
* `OnlyReviewsJudge`: an upload that ends late never undoes a review.
* `StateTraceable`: while the API does not stop, the state of a finding and the status of
  an artifact have a record of what led there.
* `ExportedProof`: a finding exported as verified (and not set so by hand) comes with a
  verification that confirmed it and what exists of the evidence that one cites.
* `DuplicateLinksBounded`: only requests in flight together can link a finding twice.
* `AllowedInsideWindow`: an edit binds every claim that begins after it, and without an
  edit between its two reads a permission was right at one instant.
* `DecisionsAudited`, `RulesTraced`: decisions and scope changes are in the audit log,
  with the exceptions the properties name.
* `OneAccountPerAddress`: overlapping registrations of an address make one account.
* `ActsAsShown`: what a tab changes is done as the user whose name it shows, unless a
  `/me` of before its login renamed it, or it was at `/operations` when the login was answered.
* `SignedOutForgets`: a tab that signed out holds neither token nor data.
* `ReloadKeepsRights`: reloads and navigation never cost a tab its right to mutate.
* `CheckingEnds`: a tab that asks who is signed in hears it or goes to the sign-in page.
* `RefusedOnlyIfMoved`: no page offers what the API would refuse of the run it shows.
* `GraphTruthful`: planning, queue and execution drawn as passed lie behind the run in its
  current attempt, unless it failed or was cancelled.
* `OwnActionShown`, `TimelineCatchesUp`, `LiveRunFollowed`: the page comes to show the
  tab's own actions, the timeline the events on record when the page learns of the end,
  and the page does not show for ever as live a run that is not so any more.
* `DoublesOnlyIfLost`: a form makes one item, or one more for each lost answer.
* `ListsCatchUp`: the user's own change comes to be listed.

### What does not

1. `v_duplicate`: the step row is committed after the answer; the worker's next
   claim does not count it and hands the same step out again.  The unique key then
   drops the second result, but the provider has been called twice.  If the second
   execution fails, the run is reported FAILED although its row says completed.
2. `v_resume`: only an approval pushes a job; a run resumed from PAUSED waits for ever.
3. `v_verification`: two verifications, or an update and a verification, overlap; the
   one that assigns the state it had read writes nothing, and the finding ends in the
   state of the other although its own record came last.
4. `v_logout`: the deletion of the session is committed after logout has answered; a request
   with the same cookie is served in between.  If the API stops in between, the session
   stays valid until it expires.

The models show some more, which have no run of their own.

Of runs: a claim or transition that read the run before a cancellation writes RUNNING,
COMPLETED or FAILED over CANCELLED.  `claim_run` counts failed rows too, and a retried run
keeps its rows, so the retry skips the failed step and completes.  Any approved request of
the project satisfies the approval check, the plan's own among them; nothing pauses the
run for a sensitive step.  A done claim whose RUNNING is not yet committed makes the
worker's COMPLETED be refused, and an empty or fully recorded run stays RUNNING.
Approving an action moves the run to RUNNING with no worker behind it.  Two approvals in
flight decide one gate twice.  A stop between the commit of a state and of its event loses
the event.  The concurrency count includes the claiming run, so the limit itself is
refused.  A run without `engagement_id` reaches QUEUED, against `models/runs.py:97-98`; one
with an engagement of another project is executed under that one's rules, against point 5 of
`docs/architecture.md:222`: it is not counted against the limit, passes the approval check on
the approvals of runs it has nothing to do with, and is denied while they have none.

Of the case file: an upload whose storage call fails leaves a row without a path for
ever.  Overlapping reviews can leave the status of one reviewer with the id of another.
Two overlapping link requests, or a list that repeats a finding, link it twice; the
report list then counts it twice.  Nothing asks for evidence before a finding is
`verified`, nor whether the ids a verification cites exist, so a finding can be exported as
verified with no evidence at all; and an export shows findings that are not verified,
against `docs/architecture.md:239` and `:272`.

Of the scope gate: the engagement and the rules are read at two instants, so a step can
pass that was within scope at no moment.  No check reads an engagement's dates, against
`docs/architecture.md:219`.  A range is judged by its two ends, so one that spans denied
space is accepted.  The audit row of a permission is lost when the
API stops between answer and commit, against `scope_validator.py:293`; the row of a
rule's creation when it stops between the two commits.  Updates of an engagement, its
pause included, write no audit row.

Of signing in: a second tab has the cookie but no token, so it may read and every mutation
of it is refused with 403.  A logout that fails, by that 403 or by the network, drops the
tab's token and leaves its page and cache as they were (`Layout.tsx:98-102`).  The 401 of a
request sent before the login, or of a wrong password typed on the way back, clears the
live session of its tab.  A `/me` that `Layout` has stopped waiting for still renames the
tab's user (`auth.ts:48`).  A login answered to a tab that the user has meanwhile taken to
`/operations` does not run `Layout`'s effect again (`Layout.tsx:70-91`): the name shown stays that
of before, or that of a `/me` still to come, while the token is the new session's.

Of the pages about a run: `Runs.tsx:190` calls the justification optional, which the API
refuses below 10 characters.  The graph looks for the events `approval.approved` and
`run.approved`, which the API never writes, and draws stages a failed or cancelled run
never reached as passed (`ExecutionGraph.tsx:85`; hence the exception in `GraphTruthful`).
Actions taken in `Runs`, `Approvals` and `ProjectDetail` do not invalidate the run's own
query.  An invalidation during a query's first load joins that load, so an answer older
than the action counts as fresh.  The event of a cancellation in another tab is committed
after its state (`runs.py:264-275`): a page that learns of the end in between fetches the
events without it and polls no more.  A decision is taken at whichever gate the run has
reached by then, not the one shown.  The justification typed on Operations survives a change
of run.

Of the lists: a form whose engagement is switched while its rule is being added invalidates
the list of the new one (`ProjectDetail.tsx:282-285`).  The answer to a form that was
cancelled closes the form that has been opened since.  When loading the engagements fails,
the Scope tab says there are none.

### Fairness

`FairSpec` is weakly fair to each request's next step (a started coroutine runs
on), to each worker (the `while` loops of `main.py`) and to each cleanup commit.
It is not fair to the owner, to faults or to edits.  Weak fairness is enough: what
enables a step of a handler stays enabled until the handler moves or an open
transaction, itself fair, ends.  Deadlock is checked in the runs of `RunSystem`; an idle
worker polls (`process_jobs_timeout`).

In the web modules `FairSpec` is weakly fair to the API (it handles what it is sent, answers
and commits), to the tab's event loop (an answer's continuation runs) and, in `RunConsole`,
to each query's polling and its answers while the tab is in the foreground.  It is not fair to the user,
to other tabs and workers, to lost requests or to expiry.  The liveness properties take
a page left, or a load that failed and was not retried, for an answer.

## 4. Proofs

All for any sets of runs, workers and requests, any plans and any bounds.

* `TypeCorrect`: `Spec => []TypeOK`, from `TypeInv`, which adds what a busy request
  slot and a busy worker hold (`ReqOK`, `WkOK`: a run, a legal target, a positive
  step) and of open transactions (`LockOK`): one that has been answered writes a
  legal state, and a claim that has found its run QUEUED holds the lock of just that
  transition, alone.
* `StepsRecordedInOrder`: `Spec => []StepsInOrder`.  Counting rows is not inductive by
  itself: between the count and the insert others may have recorded the step.
  The strengthening (`StepInv`) adds that every worker that holds a step holds one
  at most one past the recorded rows and within the plan.
* `StepsImplementLedger`: `Spec => LedgerSpec`, by the same invariant: only
  `CommitStepTx` changes `steps`, and it appends the next number.
* `NothingExecutesUnapproved`: `Spec => []ExecutionApproved`, by following the
  approval from the request that will push (`ApprovedInv`) to the queue to the worker.
* `ApprovalCheckIsVacuous`: `Spec => []ApprovalCheckNeverDenies`, from the same: a run whose
  engagement is of its own project finds its own plan's approval.

What the history of a run is worth (`RunHistoryProofs`):

* `CompletionsAreBacked`: `Spec => []WorkerCompletionBacked`.  `CompletionInv` follows a
  completion from the count that found all steps recorded, through the worker's report
  and the open transaction to the event, while the table only grows.
* `OnlyStaleWritesAreIllegal`: `Spec => LegalUnlessStale`.  `LegalInv` says that whatever a
  request, a worker or an open transaction is about to write is legal after the state it
  *read*; the read being current is what `StaleWriter` is about.
* `TrailIsComplete`: `Spec => []TrailComplete`.  What is counted is what is missing,
  transitions less events written and events owed: no step changes it, save a stop of the
  API, which makes it grow and is counted (`StopsCounted`); the property asks for nothing
  after one.  Under any faults `TrailIsTruthful` holds: nothing is recorded that did not
  happen.
* `NoJobTwice`: `Spec => ApprovalsSpentOnce`, and from it `JobsAreBacked`: `Spec => []JobsBacked`.
  Each step is balanced on its own (`Spent`): `CommitState` of an approval adds a grant
  and a push to come, `enqueue_run_job` and `process_jobs` pass the job on, everything
  else drops it or leaves it.
* `LimitHolds`: `Spec => []ConcurrencyBounded`, for any runs, workers and faults, if the owner
  uses neither `/cancel` nor `/transition` and has one request in flight (`Undisturbed`).
  `SlotInv` says that a run is approved once (`GateInv`, `FreshInv`), that whoever reports its
  end held its only job (`EndedInv`), and so that a run at work is QUEUED or RUNNING as
  committed (`BegunInv`) and is in every count that grants a claim of its project
  (`LimitIsBound`).  Runs engaged in another project are outside the statement and may do
  as they like.  No part of
  `Undisturbed` can go: a cancellation or a move by hand takes the run from the count
  while its worker executes, and two approvals in flight make two jobs of one run, of
  which the first to fail frees the slot of the other.

Of `Casework` (`CaseworkProofs`):

* `TypeCorrect`, and `StoredBeforePointedTo`: `Spec => []PathMeansObject`, inductive once it
  also says that an upload about to write the path has stored the bytes.
* `StatesTraced`: `Spec => []StateTraceable`.  Each step keeps what is on record
  (`RecordsGrow`), and the step that changes a state records it or leaves it to its
  audit step.
* `ReviewsStand`: `Spec => [][...]` of `OnlyReviewsJudge`; the invariant it needs
  (`UnreviewedInv`) says that an artifact without a row is unreviewed and that only
  artifacts with a row are under review.
* `ExportsShowTheProof`: `Spec => []ExportedProof`.  `ExportInv` says of an export under way that
  each finding it will show as verified has a confirming verification whose evidence it
  has not read past: all of it before the verifications are read, what they cite after, as
  far as what is cited exists.
  It rests on verifications, artifacts and audit rows only ever being added.
* `LinksDoNotPileUp`: `Spec => []DuplicateLinksBounded`.  A link request counts for as long as
  it has not seen the finding linked; links made and requests that count, each taken for the
  most a list repeats a finding, never exceed the number of slots times that most
  (`LinksWithin`).  Its hypotheses: there is a link list, and a bound on the repetitions.

Of `ScopeGate` (`ScopeGateProofs`):

* `TypeCorrect`, and `EditsBind`: `Spec => []AllowedInsideWindow`.  `CheckedInv` says what
  each point of a check has established, an edit between the two reads among it; the
  verdict carries it on when a stop of the API takes the point away.
* `DecisionsOnRecord`, `ScopeChangesOnRecord`: from `AuditInv`, which tells a permission still
  to be committed from one that is done.

Of `WebSession` (`WebSessionProofs`), for any numbers of tabs, addresses, sessions and
requests:

* `TypeCorrect`, from `TypeInv`, which ties what a request carries to its kind and answer.
* `OneAccount`: `AccountInv` says that an address whose insertion is in a transaction has no
  committed row; the lookup of `register` plays no part in it.
* `RightsKept`: `ReloadKeepsRights` is inductive by itself.
* `NobodyElse`: `ActsAsShown` needs most.  `BrowserInv` says that cookie, tokens and requests
  name sessions that were handed out, whose users never change; that no one but the
  request knows the session of a login not yet heard; that the `/me` a tab waits for, when
  its token fits the cookie, left with that cookie, unless a login at `/operations` came in
  between; and that such a tab shows that session's user, if any, unless the name it shows
  is no longer the one it knows.
* `NothingKept`: `SignedOutForgets`, from the part of `BrowserInv` that says a tab which signed
  out waits for no query.

Of `RunConsole` (`RunConsoleProofs`), for any histories of the run, queries and bounds:

* `TypeCorrect`, from `TypeInv`, which adds to it that a cached answer is a version that
  exists.
* `OffersLegal`: `Spec => []RefusedOnlyIfMoved`.  `OffersFit` compares the pages' tables with
  `LEGAL_TRANSITIONS` and the gates; `OfferInv` carries what was legal for the version
  shown through the dialog and the request to the API's answer, while the log only grows.
* `GraphIsTruthful`: `Spec => []GraphTruthful`.  `Behind(state)` is what lies behind a run in that
  state; each entry of the transition table adds at most the new state to it
  (`MoveAddsItself`), so by looking at the first version that would break it, a legal path has
  been through all of it since it was last a draft (`PathCovers`).  `PassedNodes` draws no
  more than that (`PassedLiesBehind`).

Of `ProjectConsole` (`ProjectConsoleProofs`):

* `OneItemAForm`: `FormInv` says that an open form has at most one request, that a closed one
  has made nothing, and that before the request is answered well the items made are no
  more than the answers lost.
* `TypeCorrect`, from `TypeInv`, which says more, that a form posts to an engagement there is:
  the cache never lists more engagements than are stored, the Scope tab offers its form only
  while it has one to pick (`FormOffered`), and each of the engagements there will ever be is
  stored or among the requests on their way (`Accounted`).

Assumed: each module's `ConstantsAssumption`; that there are finitely many workers and
request slots (`FinitenessAssumption` of `RunSystem` and `Casework`: what counts them must be a
number); that a run's history before the tab opens is a path of the transition table
(`HistoriesAssumption` of `RunConsole`).  TLC evaluates all of them.  The theorems with a
hypothesis of their own are `LimitHolds` and `LinksDoNotPileUp`, as above.

Induction over a path or a number is done by taking the smallest counterexample
(`SmallestExists`), since the induction theorems of the library take an operator as a
parameter.

With this every safety and action property of the passing runs is proved.  Only
model-checked: liveness (`JobsSettle`, `FailureReported`, `CancelStopsWorkers`, `CheckingEnds`, `OwnActionShown`, `TimelineCatchesUp`, `LiveRunFollowed`, `ListsCatchUp`), since it
needs fairness and so ENABLED, which is out of the prover's reach; and the four
refutations, where a counterexample says it all.

## 5. Plan

Written, in this order: `RunSystem` with its proofs, `Casework`, `ScopeGate`, `WebSession`,
`RunConsole` and `ProjectConsole`, each with its proofs.  To come:

1. An abstract specification of the audit trail that `RunSystem`, `Casework` and
   `ScopeGate` each implement, next to `StepLedger`.
2. The window of the audit view (`routers/aggregate.py`), and the worker's heartbeat.

### Not modelled

* Of the web application: rendering; the read-only pages (`Dashboard`, `Findings`,
  `Evidence`, `AuditLog`, `Agents`, `Workflows`, `Settings`), which load and show; the verdict
  `AuthorizationBoundary` works out for the eye; the project's own row in
  `ProjectDetail`; a refetch when the network comes back.
* Of the API: rate limits (counters in Redis), the worker's key, health, settings and header
  middleware, read-only lists.  None has a history of its own to go wrong.  Roles: only the
  review of evidence asks for one (`evidence.py:210`), which is `Casework`'s constant
  `Reviewers`; no route changes a role.
* The providers' HTTP calls, the demo target, seed data, generated migrations, scripts
  and deployment files.
