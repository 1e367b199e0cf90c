---------------------------- MODULE ProjectConsole -----------------------------
(***************************************************************************)
(* One browser tab over the lists the owner adds to: projects, reports, and *)
(* a project's engagements, scope rules and runs (apps/web/src/pages/       *)
(* Projects.tsx, Reports.tsx, ProjectDetail.tsx).  Each of these pages and  *)
(* tabs is a list from the query cache and a form that posts one more item  *)
(* and invalidates the list, while other tabs change the same lists.        *)
(*                                                                          *)
(* A list is its version, the number of changes made to it; only the        *)
(* engagements are told apart, since the Scope tab picks one of them.       *)
(*                                                                          *)
(* Left out: what is typed, the validation of it, the dialog that confirms  *)
(* a removal, the project's own row in ProjectDetail's heading, and the     *)
(* actions on runs, which are RunConsole's.                                 *)
(***************************************************************************)
EXTENDS QueryCache

CONSTANTS
  Pages,     \* those of AllPages that the instance has
  Theirs,    \* the kinds of lists that others change meanwhile
  Started,   \* the engagements the project has when the tab opens
  MaxSteps,  \* bound on what the user submits and what others change
  MaxTurns   \* bound on the user's ways, and on requests that fail or are lost

AllPages == {"projects", "reports", "overview", "engagements", "scope", "runs"}
Kinds == {"projects", "reports", "engagements", "scope", "runs"}

ASSUME ConstantsAssumption ==
  /\ Pages \subseteq AllPages /\ Pages # {}
  /\ Theirs \subseteq Kinds
  /\ Started \in Nat /\ MaxSteps \in Nat /\ MaxTurns \in Nat

VARIABLES
  stored,  \* the version of every list, as committed
  cache,   \* the query cache of the tab
  page,    \* the page, or the tab of ProjectDetail, that is shown
  form,    \* whether its form is open
  picked,  \* the engagement selected on the Scope tab, 0 for none yet
  acts,    \* the requests that change something and are under way
  made,    \* history: what the form that is open has led to so far
  owed,    \* history: the versions this visit of the page must come to show
  used     \* how much of the bounds is used up

vars == <<stored, cache, page, form, picked, acts, made, owed, used>>

-----------------------------------------------------------------------------
(* Data *)

Engagement == 1 .. Started + MaxSteps

List(name) == <<name, 0>>
ScopeOf(e) == <<"scope", e>>

Keys == {List(name) : name \in Kinds \ {"scope"}} \union {ScopeOf(e) : e \in Engagement}

(* A request adds to the list of its page or removes a rule.  It posts to   *)
(* target; key is what its onSuccess will invalidate.  form and tab: the    *)
(* form, or the rule's row, and the page it came from are still there.      *)
Action == [n : 1 .. MaxSteps, op : {"add", "remove"}, target : Keys, key : Keys,
           form : BOOLEAN, tab : BOOLEAN,
           pc : {"sent", "answered", "refetching"}, code : {0, 201, 422}, wrote : Nat]

(* A version of the list of engagements has one of them less; the newest    *)
(* comes first.                                                             *)
Listed(c) == 1 .. IF HasData(c[List("engagements")]) THEN c[List("engagements")].data - 1 ELSE 0

(* ScopeTab's activeEngagementId. *)
Active(c, pick) ==
  IF pick # 0 THEN pick
  ELSE IF Listed(c) = {} THEN 0 ELSE CHOOSE e \in Listed(c) : \A f \in Listed(c) : f <= e

-----------------------------------------------------------------------------
(* What a page watches *)

Watched(p, f, c, pick) ==
  CASE p = "projects" -> {List("projects")}
    [] p = "reports"  -> {List("reports")} \union IF f THEN {List("projects")} ELSE {}
    [] p = "overview" -> {List("engagements"), List("runs")}
    [] p = "engagements" -> {List("engagements")}
    [] p = "scope" -> {List("engagements")}
                        \union IF Listed(c) = {} THEN {} ELSE {ScopeOf(Active(c, pick))}
    [] p = "runs" -> {List("runs")} \union IF f THEN {List("engagements")} ELSE {}

(* refetchOnMount: 'always' *)
Always(p) == IF p \in {"overview", "engagements", "scope"} THEN {List("engagements")} ELSE {}

(* Queries mount.  Whether 30 seconds have passed since their data came is  *)
(* decided only now that it matters.                                        *)
Mount(c, keys, always) ==
  \E old \in SUBSET {k \in keys \ always : HasData(c[k])} :
    cache' = [k \in Keys |-> IF k \in keys \intersect always THEN Joined(c[k])
                             ELSE IF k \in old THEN Mounted(Aged(c[k]))
                             ELSE IF k \in keys THEN Mounted(c[k]) ELSE c[k]]

Empty == [k \in Keys |-> NoEntry]

Nothing == [k \in Keys |-> 0]

NoForm == [items |-> 0, lost |-> 0]

Init ==
  /\ stored = [k \in Keys |-> IF k = List("engagements") THEN Started + 1 ELSE 1]
  /\ page   \in Pages
  /\ cache  = [k \in Keys |-> IF k \in Watched(page, FALSE, Empty, 0) THEN Mounted(NoEntry) ELSE NoEntry]
  /\ form   = FALSE
  /\ picked = 0
  /\ acts   = {}
  /\ made   = NoForm
  /\ owed   = Nothing
  /\ used   = [steps |-> 0, turns |-> 0]

(* React draws the page anew from cache c, with form f open or not and the  *)
(* engagement pick selected: queries mount that come to be shown.  A form   *)
(* that is at work takes over the engagement it is drawn with, as useMutation *)
(* gives its options to a mutation that is pending; a rule's row goes with  *)
(* the list it is in.                                                       *)
Kept(a, c, f, pick) ==
  LET drawn == IF a.op = "remove" THEN a.key = ScopeOf(Active(c, pick)) ELSE f
  IN IF ~ a.form THEN a
     ELSE IF ~ drawn THEN [a EXCEPT !.form = FALSE]
     ELSE IF a.op = "add" /\ page = "scope" THEN [a EXCEPT !.key = ScopeOf(Active(c, pick))]
     ELSE a

Redraw(c, f, pick, others) ==
  /\ Mount(c, Watched(page, f, c, pick) \ Watched(page, form, cache, picked), {})
  /\ form' = f /\ picked' = pick
  /\ acts' = {Kept(a, c, f, pick) : a \in others}
  /\ made' = IF f THEN made ELSE NoForm
  /\ UNCHANGED page

-----------------------------------------------------------------------------
(* The user finds the way *)

Turn == used.turns < MaxTurns /\ used' = [used EXCEPT !.turns = @ + 1]
Step == used.steps < MaxSteps /\ used' = [used EXCEPT !.steps = @ + 1]

(* Another page, or another tab of ProjectDetail: what was open there goes. *)
(* What a request under way will bring, it may have brought before.         *)
Visit(p) ==
  /\ p # page
  /\ Turn
  /\ Mount(cache, Watched(p, FALSE, cache, 0), Always(p))
  /\ page' = p /\ form' = FALSE /\ picked' = 0 /\ made' = NoForm
  /\ acts' = {[a EXCEPT !.form = FALSE, !.tab = FALSE] : a \in acts}
  /\ owed' = [k \in Keys |-> IF /\ p \in {"overview", "engagements", "scope"}
                                /\ k = List("engagements") /\ cache[k].fetch = "idle"
                             THEN stored[k] ELSE 0]
  /\ UNCHANGED stored

(* The New ... button, and Cancel in the form.  The Scope tab has neither   *)
(* before it has an engagement, the others always.                          *)
Toggle ==
  /\ page # "overview"
  /\ page = "scope" => Listed(cache) # {}
  /\ Redraw(cache, ~ form, picked, acts)
  /\ UNCHANGED <<stored, owed, used>>

(* The Scope tab's selection. *)
Pick(e) ==
  /\ page = "scope" /\ e \in Listed(cache) /\ e # Active(cache, picked)
  /\ Turn
  /\ Redraw(cache, form, e, acts)
  /\ UNCHANGED <<stored, owed>>

-----------------------------------------------------------------------------
(* Data *)

Serve(k) ==
  /\ cache[k].fetch = "sent"
  /\ cache' = [cache EXCEPT ![k] = Served(@, stored[k])]
  /\ UNCHANGED <<stored, page, form, picked, acts, made, owed, used>>

Deliver(k) ==
  /\ cache[k].fetch = "answered"
  /\ Redraw([cache EXCEPT ![k] = Landed(@)], form, picked, acts)
  /\ UNCHANGED <<stored, owed, used>>

Fail(k) ==
  /\ Turn
  /\ cache[k].fetch = "sent"
  /\ Redraw([cache EXCEPT ![k] = Failed(@)], form, picked, acts)
  /\ UNCHANGED <<stored, owed>>

(* ErrorState's button.  The Scope tab has one for the rules, Overview none.*)
Retry(k) ==
  /\ k \in {List("projects"), List("reports"), List("runs"), List("engagements")}
       => k = List(page)
  /\ k \in Watched(page, form, cache, picked) /\ cache[k].error /\ cache[k].fetch = "idle"
  /\ cache' = [cache EXCEPT ![k] = Refetched(@)]
  /\ UNCHANGED <<stored, page, form, picked, acts, made, owed, used>>

-----------------------------------------------------------------------------
(* The user changes something *)

(* Seeded bug: a key is invalidated that nothing is cached under. *)
Request_OtherKey(op, k) ==
  [n |-> used.steps + 1, op |-> op, target |-> k, key |-> <<"rules", k[2]>>, form |-> TRUE,
   tab |-> TRUE, pc |-> "sent", code |-> 0, wrote |-> 0]

Request(op, k) == [n |-> used.steps + 1, op |-> op, target |-> k, key |-> k, form |-> TRUE,
                   tab |-> TRUE, pc |-> "sent", code |-> 0, wrote |-> 0]

(* Seeded bug: the button is not disabled. *)
Pending_Never(op, k) == FALSE

(* The mutation of the form, or of a row, is at work. *)
Pending(op, k) == \E a \in acts : a.form /\ a.op = op /\ (op = "remove" => a.key = k)

(* handleSubmit of the page's form. *)
Submit ==
  LET k == IF page = "scope" THEN ScopeOf(Active(cache, picked)) ELSE List(page) IN
  /\ form
  /\ ~ Pending("add", k)
  /\ Step
  /\ acts' = acts \union {Request("add", k)}
  /\ UNCHANGED <<stored, cache, page, form, picked, made, owed>>

(* ScopeRuleRow's Remove, confirmed: a rule that was there at first.        *)
Remove ==
  LET k == ScopeOf(Active(cache, picked)) IN
  /\ page = "scope" /\ Listed(cache) # {}
  /\ HasData(cache[k]) /\ ~ cache[k].error
  /\ ~ Pending("remove", k)
  /\ Step
  /\ acts' = acts \union {Request("remove", k)}
  /\ UNCHANGED <<stored, cache, page, form, picked, made, owed>>

Replaced(a, b) == acts' = (acts \ {a}) \union {b}

(* The API refuses it, or commits it. *)
Handle(a) ==
  /\ a.pc = "sent"
  /\ \/ /\ Replaced(a, [a EXCEPT !.pc = "answered", !.code = 422])
        /\ UNCHANGED <<stored, made>>
     \/ /\ stored' = [stored EXCEPT ![a.target] = @ + 1]
        /\ Replaced(a, [a EXCEPT !.pc = "answered", !.code = 201, !.wrote = stored[a.target] + 1])
        /\ made' = IF a.form /\ a.op = "add" THEN [made EXCEPT !.items = @ + 1] ELSE made
  /\ UNCHANGED <<cache, page, form, picked, owed, used>>

(* The network loses it on its way, or its answer. *)
Lose(a) ==
  /\ Turn
  /\ a.pc = "sent" \/ (a.pc = "answered" /\ a.code = 201)
  /\ Replaced(a, [a EXCEPT !.pc = "answered", !.code = 0])
  /\ made' = IF a.form /\ a.op = "add" /\ a.pc = "answered" THEN [made EXCEPT !.lost = @ + 1] ELSE made
  /\ UNCHANGED <<stored, cache, page, form, picked, owed>>

(* Seeded bug: the form closes and the list is left to its own devices. *)
Invalidates_Nothing(a) == {}

Invalidates(a) == {a.key}

InvalidatedBy(a) ==
  [k \in Keys |-> IF k \in Invalidates(a)
                  THEN Invalidated(cache[k], k \in Watched(page, form, cache, picked)) ELSE cache[k]]

(* What the user has changed shows, unless its own list is not the one that *)
(* is invalidated, or is still in its first load, which the invalidation    *)
(* joins.                                                                   *)
Owing(a) ==
  IF a.key = a.target /\ a.tab /\ HasData(cache[a.key]) /\ a.key \in Watched(page, form, cache, picked)
  THEN [owed EXCEPT ![a.key] = a.wrote] ELSE owed

(* onSuccess: the list is invalidated and onDone closes the form of the     *)
(* page, whichever it is by then.                                           *)
Succeed(a) ==
  /\ a.pc = "answered" /\ a.code = 201 /\ a.target # List("engagements")
  /\ owed' = Owing(a)
  /\ Redraw(InvalidatedBy(a), form /\ ~ (a.tab /\ a.op = "add"), picked, acts \ {a})
  /\ UNCHANGED <<stored, used>>

(* The engagements' form awaits the list first: until it has settled, the   *)
(* form is at work.  An invalidation that overtakes another's request ends  *)
(* the waiting for that.                                                    *)
SucceedAndAwait(a) ==
  /\ a.pc = "answered" /\ a.code = 201 /\ a.target = List("engagements")
  /\ owed' = Owing(a)
  /\ cache' = InvalidatedBy(a)
  /\ Replaced(a, [a EXCEPT !.pc = "refetching"])
  /\ UNCHANGED <<stored, page, form, picked, made, used>>

Settle(a) ==
  /\ a.pc = "refetching"
  /\ \/ cache[a.key].fetch = "idle"
     \/ \E b \in acts : b.n # a.n /\ b.pc = "refetching"
  /\ Redraw(cache, form /\ ~ a.tab, picked, acts \ {a})
  /\ UNCHANGED <<stored, owed, used>>

(* The form, or the dialog, shows the message and stays. *)
Refused(a) ==
  /\ a.pc = "answered" /\ a.code # 201
  /\ acts' = acts \ {a}
  /\ UNCHANGED <<stored, cache, page, form, picked, made, owed, used>>

(* The owner in another tab, or a worker, changes a list. *)
Change(k) ==
  /\ k[1] \in Theirs
  /\ Step
  /\ k[1] = "scope" => k[2] < stored[List("engagements")]
  /\ stored' = [stored EXCEPT ![k] = @ + 1]
  /\ UNCHANGED <<cache, page, form, picked, acts, made, owed>>

-----------------------------------------------------------------------------
Next == \/ \E p \in Pages : Visit(p)
        \/ Toggle \/ Submit \/ Remove
        \/ \E e \in Engagement : Pick(e)
        \/ \E k \in Keys : Serve(k) \/ Deliver(k) \/ Fail(k) \/ Retry(k) \/ Change(k)
        \/ \E a \in acts : \/ Handle(a) \/ Lose(a)
                           \/ Succeed(a) \/ SucceedAndAwait(a) \/ Settle(a) \/ Refused(a)

Spec == Init /\ [][Next]_vars

(* The API answers and the tab's event loop runs. *)
Continue == \E a \in acts : Handle(a) \/ Succeed(a) \/ SucceedAndAwait(a) \/ Settle(a) \/ Refused(a)

FairSpec == /\ Spec
            /\ WF_vars(Continue)
            /\ \A k \in Keys : WF_vars(Serve(k)) /\ WF_vars(Deliver(k))

-----------------------------------------------------------------------------
(* Properties *)

(* Every variable keeps to its type. *)
TypeOK ==
  /\ stored \in [Keys -> Nat \ {0}]
  /\ cache \in [Keys -> Entry(Nat)]
  /\ page \in Pages /\ form \in BOOLEAN /\ picked \in Engagement \union {0}
  /\ acts \subseteq Action
  /\ made \in [items : Nat, lost : Nat]
  /\ owed \in [Keys -> Nat]
  /\ used \in [steps : 0 .. MaxSteps, turns : 0 .. MaxTurns]

(* One filling of a form leads to one item, unless an answer was lost and   *)
(* the user tried again: neither a second click nor a form that waits for   *)
(* its list adds another (isPending on the forms' buttons, onDone).         *)
DoublesOnlyIfLost == made.items <= 1 + made.lost

(* The user's own addition or removal comes to be listed while its list is  *)
(* shown, and a tab that is entered comes to list every engagement there    *)
(* was (the forms' invalidateQueries, refetchOnMount).                      *)
ListsCatchUp ==
  \A k \in Keys :
    []<>(\/ cache[k].data >= owed[k] \/ cache[k].error
         \/ k \notin Watched(page, form, cache, picked))

===============================================================================
