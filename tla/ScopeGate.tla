------------------------------ MODULE ScopeGate ------------------------------
(***************************************************************************)
(* The scope gate of one engagement: the owner's edits of the engagement   *)
(* and its rules (apps/api/app/routers/engagements.py, routers/scope.py)   *)
(* and the check every claimed step has to pass                            *)
(* (apps/api/app/services/scope_validator.py, called by claim_run in       *)
(* routers/worker.py), with the audit rows of both.                        *)
(*                                                                         *)
(* The check is several statements of one READ COMMITTED transaction: the  *)
(* engagement is read, then the target is resolved, then the rules are     *)
(* read, and edits commit in between.  A denial is committed before it is  *)
(* answered, a permission in get_db's cleanup after it has been.           *)
(*                                                                         *)
(* The concurrency and approval checks are those of RunSystem; here they   *)
(* pass or fail.  The dates of an engagement are left out: the check reads *)
(* the status alone, and an engagement past its end date passes it.  Its   *)
(* texts are left out too.                                                 *)
(***************************************************************************)
EXTENDS Integers, FiniteSets

CONSTANTS
  Rules,         \* the ids of scope rules
  Excludes,      \* those of rule_type "exclude", the others include
  Covers,        \* the <<rule, target>> whose pattern matches the target
  UnsafeRules,   \* the rules whose pattern prohibited_scope_pattern_reason objects to
  Targets,       \* the targets of the steps
  UnsafeTargets, \* the literal targets in denied space
  HostNames,     \* the targets that DNS resolves
  Claims,        \* the claims workers make
  TargetOf,      \* the target of the step each claim is about
  Reqs,          \* slots for owner requests in flight at once
  Prepared,      \* the rules that exist before the behaviour starts
  FaultKinds,    \* the faults that may happen
  MaxEdits,      \* bound on the number of owner requests
  MaxFaults      \* bound on the number of faults

ASSUME ConstantsAssumption ==
  /\ Excludes \subseteq Rules
  /\ Covers \subseteq Rules \X Targets
  /\ UnsafeRules \subseteq Rules
  /\ UnsafeTargets \subseteq Targets
  /\ HostNames \subseteq Targets \ UnsafeTargets
  /\ TargetOf \in [Claims -> Targets]
  /\ Prepared \subseteq Rules \ UnsafeRules
  /\ FaultKinds \subseteq {"api"}
  /\ MaxEdits \in Nat /\ MaxFaults \in Nat

VARIABLES
  status,  \* Engagement.status as committed
  rules,   \* the committed ScopeRule rows
  gone,    \* the rules that have been deleted
  audit,   \* the committed AuditEvent rows
  claim,   \* every claim: where its handler is and what it has decided
  ran,     \* the claims whose step a worker executes or has executed
  seen,    \* history: what held, or was done, at some instant while the claim was checked
  req,     \* every owner request slot
  used     \* how much of the bounds is used up

vars == <<status, rules, gone, audit, claim, ran, seen, req, used>>

-----------------------------------------------------------------------------
(* Data *)

Status == {"active", "paused"}

Claim == [pc : {"new", "target", "rules", "limits", "answered", "done"},
          verdict : {"none", "allowed", "denied"}]

Entry(action, about) == <<action, about>>
Audit == ({"create", "delete"} \X Rules) \union ({"allowed", "denied"} \X Claims)

Idle      == [op |-> "none"]
Request   == [op : {"create", "delete"}, rule : Rules]
               \union [op : {"update"}, loaded : Status, to : Status]
               \union {Idle}

Init ==
  /\ status = "active"
  /\ rules  = Prepared
  /\ gone   = {}
  /\ audit  = {Entry("create", r) : r \in Prepared}
  /\ claim  = [c \in Claims |-> [pc |-> "new", verdict |-> "none"]]
  /\ ran    = {}
  /\ seen   = [c \in Claims |-> [active |-> FALSE, covered |-> FALSE, both |-> FALSE, edited |-> FALSE]]
  /\ req    = [q \in Reqs |-> Idle]
  /\ used   = [edits |-> 0, faults |-> 0]

-----------------------------------------------------------------------------
(* The owner's edits *)

Begin(q, request) ==
  /\ req[q] = Idle
  /\ used.edits < MaxEdits
  /\ used' = [used EXCEPT !.edits = @ + 1]
  /\ req'  = [req EXCEPT ![q] = request]

Answer(q) == req' = [req EXCEPT ![q] = Idle]

(* Seeded bug: a pattern is not looked at. *)
Acceptable_Any(r) == TRUE

(* An include whose pattern is objected to is refused, an exclude never    *)
(* is.  The pattern is only sampled: of a CIDR range the two ends, and of  *)
(* a text with a slash that is no range nothing at all, so a rule that is  *)
(* accepted may cover targets in denied space.                             *)
Acceptable(r) == r \in UnsafeRules => r \in Excludes

(* The rule is committed; its audit row is a commit of its own. *)
create_scope_rule(q, r) ==
  /\ r \notin rules \union gone
  /\ Acceptable(r)
  /\ Begin(q, [op |-> "create", rule |-> r])
  /\ rules' = rules \union {r}
  /\ UNCHANGED <<status, gone, audit, claim, ran>>

AuditCreate(q) ==
  /\ req[q].op = "create"
  /\ audit' = audit \union {Entry("create", req[q].rule)}
  /\ Answer(q)
  /\ UNCHANGED <<status, rules, gone, claim, ran, used>>

delete_scope_rule(q, r) ==
  /\ r \in rules
  /\ Begin(q, [op |-> "delete", rule |-> r])
  /\ UNCHANGED <<status, rules, gone, audit, claim, ran>>

(* Seeded bug: the row is added after the commit and lost with the session. *)
DeletionRecord_Late(r) == {}

DeletionRecord(r) == {Entry("delete", r)}

(* The audit row and the deletion are one commit, also when the row is     *)
(* gone by then.                                                           *)
CommitDelete(q) ==
  LET r == req[q].rule IN
  /\ req[q].op = "delete"
  /\ rules' = rules \ {r}
  /\ gone'  = gone \union {r}
  /\ audit' = audit \union DeletionRecord(r)
  /\ Answer(q)
  /\ UNCHANGED <<status, claim, ran, used>>

update_engagement(q, to) ==
  /\ Begin(q, [op |-> "update", loaded |-> status, to |-> to])
  /\ UNCHANGED <<status, rules, gone, audit, claim, ran>>

(* The UPDATE is left out when the status assigned is the one loaded.      *)
CommitUpdate(q) ==
  /\ req[q].op = "update"
  /\ status' = IF req[q].to = req[q].loaded THEN status ELSE req[q].to
  /\ Answer(q)
  /\ UNCHANGED <<rules, gone, audit, claim, ran, used>>

-----------------------------------------------------------------------------
(* The check of a claim *)

GoTo(c, pc) == claim' = [claim EXCEPT ![c].pc = pc]

(* Seeded bug: the failure is raised before it is committed, and undone.   *)
DenialRecord_RolledBack(c) == {}

DenialRecord(c) == {Entry("denied", c)}

(* The denial, with the failure of the run, is committed and raised.       *)
_deny(c) ==
  /\ claim' = [claim EXCEPT ![c] = [pc |-> "done", verdict |-> "denied"]]
  /\ audit' = audit \union DenialRecord(c)

EngagementActive == status = "active"

(* 1. The engagement is active. *)
CheckEngagement(c) ==
  /\ claim[c].pc = "new"
  /\ IF EngagementActive THEN GoTo(c, "target") /\ UNCHANGED audit ELSE _deny(c)
  /\ UNCHANGED <<status, rules, gone, ran, req, used>>

(* 1b. The target is not unsafe: as a literal, or as whatever its name     *)
(* resolves to when it is asked for.                                       *)
CheckTarget(c) ==
  /\ claim[c].pc = "target"
  /\ \/ TargetOf[c] \notin UnsafeTargets /\ GoTo(c, "rules") /\ UNCHANGED audit
     \/ TargetOf[c] \in UnsafeTargets \union HostNames /\ _deny(c)
  /\ UNCHANGED <<status, rules, gone, ran, req, used>>

Matching(c) == {r \in rules : <<r, TargetOf[c]>> \in Covers}

(* Seeded bug: an inclusion is looked for first and is enough. *)
InScope_IncludeFirst(c) == Matching(c) \ Excludes # {}

InScope(c) == Matching(c) \intersect Excludes = {} /\ Matching(c) \ Excludes # {}

(* 2 and 3. One read of the rules: no exclusion matches, an inclusion does. *)
CheckRules(c) ==
  /\ claim[c].pc = "rules"
  /\ IF InScope(c) THEN GoTo(c, "limits") /\ UNCHANGED audit ELSE _deny(c)
  /\ UNCHANGED <<status, rules, gone, ran, req, used>>

(* 4 to 7. The action, the concurrency, the approval and the actor.  When  *)
(* all pass, the claim is answered; its audit row is flushed, not yet      *)
(* committed.                                                              *)
CheckLimits(c) ==
  /\ claim[c].pc = "limits"
  /\ \/ /\ claim' = [claim EXCEPT ![c] = [pc |-> "answered", verdict |-> "allowed"]]
        /\ UNCHANGED audit
     \/ _deny(c)
  /\ UNCHANGED <<status, rules, gone, ran, req, used>>

(* get_db's cleanup commits the claim and its audit row. *)
CommitClaim(c) ==
  /\ claim[c].pc = "answered"
  /\ GoTo(c, "done")
  /\ audit' = audit \union {Entry("allowed", c)}
  /\ UNCHANGED <<status, rules, gone, ran, req, used>>

(* The worker has the answer and executes the step. *)
Execute(c) ==
  /\ claim[c].verdict = "allowed"
  /\ c \notin ran
  /\ ran' = ran \union {c}
  /\ UNCHANGED <<status, rules, gone, audit, claim, req, used>>

(* The API process dies: open transactions roll back, answers stay given.  *)
ApiCrash ==
  /\ "api" \in FaultKinds
  /\ used.faults < MaxFaults
  /\ used'  = [used EXCEPT !.faults = @ + 1]
  /\ claim' = [c \in Claims |-> IF claim[c].pc = "new" THEN claim[c]
                                ELSE [claim[c] EXCEPT !.pc = "done"]]
  /\ req'   = [q \in Reqs |-> Idle]
  /\ UNCHANGED <<status, rules, gone, audit, ran>>

-----------------------------------------------------------------------------

OwnerStep(q) ==
  \/ \E r \in Rules : create_scope_rule(q, r) \/ delete_scope_rule(q, r)
  \/ \E to \in Status : update_engagement(q, to)
  \/ AuditCreate(q) \/ CommitDelete(q) \/ CommitUpdate(q)

ClaimStep(c) ==
  \/ CheckEngagement(c) \/ CheckTarget(c) \/ CheckRules(c) \/ CheckLimits(c)
  \/ CommitClaim(c) \/ Execute(c)

(* The owner's rules as they stand permit the target: this is what the     *)
(* rules mean, InScope is how the code looks it up.                        *)
Permits(t) ==
  /\ \E r \in rules \ Excludes : <<r, t>> \in Covers
  /\ \A r \in rules \intersect Excludes : <<r, t>> \notin Covers

(* The claim has read the engagement, but not yet the rules. *)
BetweenReads(c) == claim[c].pc \in {"target", "rules"}

(* What holds at this instant, and an edit that is committed now, are      *)
(* noted for the claims being checked.                                     *)
Observe ==
  seen' = [c \in Claims |->
             IF claim[c].pc = "done" \/ claim'[c].pc = "new" THEN seen[c]
             ELSE [active  |-> seen[c].active \/ status = "active",
                   covered |-> seen[c].covered \/ Permits(TargetOf[c]),
                   both    |-> seen[c].both \/ (status = "active" /\ Permits(TargetOf[c])),
                   edited  |-> seen[c].edited
                                 \/ (BetweenReads(c) /\ <<status', rules'>> # <<status, rules>>)]]

Next ==
  /\ \/ \E q \in Reqs : OwnerStep(q)
     \/ \E c \in Claims : ClaimStep(c)
     \/ ApiCrash
  /\ Observe

Spec == Init /\ [][Next]_vars

-----------------------------------------------------------------------------
(* Properties *)

Seen == [active : BOOLEAN, covered : BOOLEAN, both : BOOLEAN, edited : BOOLEAN]

(* Every row, request and claim has a shape the program can give it; the   *)
(* audit log in particular says what was done to what, and no include that *)
(* the pattern check objects to is in force (which is not to say that no   *)
(* include covers denied space).                                           *)
TypeOK ==
  /\ status \in Status
  /\ rules \subseteq Rules \ (UnsafeRules \ Excludes) /\ gone \subseteq Rules
  /\ audit \subseteq Audit
  /\ claim \in [Claims -> Claim]
  /\ ran \subseteq Claims
  /\ seen \in [Claims -> Seen]
  /\ req \in [Reqs -> Request]
  /\ used \in [edits : 0 .. MaxEdits, faults : 0 .. MaxFaults]

(* Edits bind every claim that begins after them: an allowed claim had,    *)
(* between its first read and its answer, an instant with an active        *)
(* engagement, an instant at which the rules permitted its target and, if  *)
(* no edit was committed between its two reads, one instant with both.     *)
(* Only an edit of the status or the rules that falls between the reads    *)
(* can let a step through that was within scope at no moment.  And no      *)
(* include, however wide, lets a claim to a literal in denied space pass.  *)
AllowedInsideWindow ==
  \A c \in Claims : claim[c].verdict = "allowed" =>
    /\ seen[c].active /\ seen[c].covered
    /\ seen[c].both \/ seen[c].edited
    /\ TargetOf[c] \notin UnsafeTargets

(* "Every scope decision - allow or deny - is written to the audit log"    *)
(* (_write_audit): a denial before anybody hears of it, although the claim *)
(* then raises; a permission unless the API stopped between the answer and *)
(* the commit that follows it.                                             *)
DecisionsAudited ==
  \A c \in Claims :
    /\ claim[c].verdict = "denied" => Entry("denied", c) \in audit
    /\ claim[c] = [pc |-> "done", verdict |-> "allowed"] =>
         Entry("allowed", c) \in audit \/ used.faults > 0

(* Scope changes can be traced: a rule in force has its "create" row, a    *)
(* request about to write it or a stopped API behind it; a rule that is    *)
(* gone has its "delete" row whatever stopped, since that row and the      *)
(* deletion are one commit (create_scope_rule, delete_scope_rule).         *)
RulesTraced ==
  /\ \A r \in rules :
       \/ Entry("create", r) \in audit
       \/ \E q \in Reqs : req[q].op = "create" /\ req[q].rule = r
       \/ used.faults > 0
  /\ \A r \in gone : r \notin rules /\ Entry("delete", r) \in audit
=============================================================================
