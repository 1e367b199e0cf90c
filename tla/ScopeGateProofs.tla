---------------------------- MODULE ScopeGateProofs ---------------------------
(***************************************************************************)
(* Proofs about ScopeGate: type correctness, that edits bind the claims    *)
(* that begin after them, and that decisions and scope changes are in the  *)
(* audit log.                                                              *)
(***************************************************************************)
EXTENDS ScopeGate, TLAPS

(* What a request holds follows from its kind. *)
LEMMA RequestKinds ==
  ASSUME TypeOK, NEW q \in Reqs
  PROVE  /\ req[q].op \in {"create", "delete"} => req[q].rule \in Rules
         /\ req[q].op = "update" => req[q].to \in Status
BY DEF TypeOK, Request, Idle

LEMMA BeginType ==
  ASSUME TypeOK, NEW q \in Reqs, NEW d \in Request, Begin(q, d)
  PROVE  req' \in [Reqs -> Request] /\ used' \in [edits : 0 .. MaxEdits, faults : 0 .. MaxFaults]
<1>1. req' \in [Reqs -> Request]
  BY DEF TypeOK, Begin
<1>2. /\ used \in [edits : 0 .. MaxEdits, faults : 0 .. MaxFaults]
      /\ used.edits < MaxEdits /\ used' = [used EXCEPT !.edits = used.edits + 1]
  BY DEF TypeOK, Begin
<1>3. used.edits + 1 \in 0 .. MaxEdits
  BY <1>2, ConstantsAssumption
<1> QED
  BY <1>1, <1>2, <1>3

LEMMA AnswerType ==
  ASSUME TypeOK, NEW q \in Reqs, Answer(q)
  PROVE  req' \in [Reqs -> Request]
BY DEF TypeOK, Answer, Request

(* A claim that moves on, or is denied, stays well typed, and so does the  *)
(* log.                                                                    *)
LEMMA GoToType ==
  ASSUME TypeOK, NEW c \in Claims, NEW pc \in {"target", "rules", "limits", "done"}, GoTo(c, pc)
  PROVE  /\ claim' \in [Claims -> Claim]
         /\ claim'[c].pc = pc /\ claim'[c].verdict = claim[c].verdict
         /\ \A d \in Claims \ {c} : claim'[d] = claim[d]
<1>1. claim \in [Claims -> Claim] /\ claim' = [claim EXCEPT ![c].pc = pc]
  BY DEF TypeOK, GoTo
<1>2. claim'[c] = [claim[c] EXCEPT !.pc = pc] /\ \A d \in Claims \ {c} : claim'[d] = claim[d]
  BY <1>1
<1> QED
  BY <1>1, <1>2 DEF Claim

LEMMA DenyType ==
  ASSUME TypeOK, NEW c \in Claims, _deny(c)
  PROVE  /\ claim' \in [Claims -> Claim]
         /\ claim'[c] = [pc |-> "done", verdict |-> "denied"]
         /\ \A d \in Claims \ {c} : claim'[d] = claim[d]
         /\ audit' = audit \union {Entry("denied", c)}
         /\ audit' \subseteq Audit
<1>1. /\ claim \in [Claims -> Claim]
      /\ claim' = [claim EXCEPT ![c] = [pc |-> "done", verdict |-> "denied"]]
      /\ audit \subseteq Audit /\ audit' = audit \union {Entry("denied", c)}
  BY DEF TypeOK, _deny, DenialRecord
<1>2. [pc |-> "done", verdict |-> "denied"] \in Claim
  BY DEF Claim
<1>3. Entry("denied", c) \in Audit
  BY DEF Audit, Entry
<1> QED
  BY <1>1, <1>2, <1>3

(* What was seen stays seen. *)
LEMMA SeenType ==
  ASSUME TypeOK, Observe
  PROVE  /\ seen' \in [Claims -> Seen]
         /\ \A c \in Claims : /\ seen[c].active => seen'[c].active
                              /\ seen[c].covered => seen'[c].covered
                              /\ seen[c].both => seen'[c].both
                              /\ seen[c].edited => seen'[c].edited
<1>1. seen \in [Claims -> Seen]
  BY DEF TypeOK
<1>2. ASSUME NEW c \in Claims
      PROVE  \/ seen'[c] = seen[c]
             \/ \E a, v, b, e \in BOOLEAN :
                  /\ seen'[c] = [active |-> a, covered |-> v, both |-> b, edited |-> e]
                  /\ seen[c].active => a
                  /\ seen[c].covered => v
                  /\ seen[c].both => b
                  /\ seen[c].edited => e
  <2>1. seen[c] \in Seen /\ Permits(TargetOf[c]) \in BOOLEAN /\ BetweenReads(c) \in BOOLEAN
    BY <1>1 DEF Permits, BetweenReads
  <2>2. CASE claim[c].pc = "done" \/ claim'[c].pc = "new"
    BY <2>2 DEF Observe
  <2>3. CASE ~ (claim[c].pc = "done" \/ claim'[c].pc = "new")
    <3> DEFINE a == seen[c].active \/ status = "active"
               v == seen[c].covered \/ Permits(TargetOf[c])
               b == seen[c].both \/ (status = "active" /\ Permits(TargetOf[c]))
               e == seen[c].edited \/ (BetweenReads(c) /\ <<status', rules'>> # <<status, rules>>)
    <3>1. seen'[c] = [active |-> a, covered |-> v, both |-> b, edited |-> e]
      BY <2>3 DEF Observe
    <3>2. a \in BOOLEAN /\ v \in BOOLEAN /\ b \in BOOLEAN /\ e \in BOOLEAN
      BY <2>1 DEF Seen
    <3>3. /\ seen[c].active => a
          /\ seen[c].covered => v
          /\ seen[c].both => b
          /\ seen[c].edited => e
      OBVIOUS
    <3> HIDE DEF a, v, b, e
    <3> QED
      BY <3>1, <3>2, <3>3
  <2> QED
    BY <2>2, <2>3
<1>3. DOMAIN seen' = Claims /\ seen' = [c \in Claims |-> seen'[c]]
  BY DEF Observe
<1>4. ASSUME NEW c \in Claims
      PROVE  /\ seen'[c] \in Seen
             /\ seen[c].active => seen'[c].active
             /\ seen[c].covered => seen'[c].covered
             /\ seen[c].both => seen'[c].both
             /\ seen[c].edited => seen'[c].edited
  <2>1. CASE seen'[c] = seen[c]
    BY <1>1, <2>1
  <2>2. CASE seen'[c] # seen[c]
    <3>1. PICK a, v, b, e \in BOOLEAN :
            /\ seen'[c] = [active |-> a, covered |-> v, both |-> b, edited |-> e]
            /\ seen[c].active => a
            /\ seen[c].covered => v
            /\ seen[c].both => b
            /\ seen[c].edited => e
      BY <1>2, <2>2
    <3>2. [active |-> a, covered |-> v, both |-> b, edited |-> e] \in Seen
      BY DEF Seen
    <3>3. /\ [active |-> a, covered |-> v, both |-> b, edited |-> e].active = a
          /\ [active |-> a, covered |-> v, both |-> b, edited |-> e].covered = v
          /\ [active |-> a, covered |-> v, both |-> b, edited |-> e].both = b
          /\ [active |-> a, covered |-> v, both |-> b, edited |-> e].edited = e
      OBVIOUS
    <3> QED
      BY <3>1, <3>2, <3>3, Zenon
  <2> QED
    BY <2>1, <2>2
<1> QED
  BY <1>3, <1>4

(* A claim that is past its first read sees what holds, and what is done.  *)
LEMMA SeenNow ==
  ASSUME TypeOK, Observe, NEW c \in Claims, claim[c].pc # "done", claim'[c].pc # "new"
  PROVE  /\ status = "active" => seen'[c].active
         /\ Permits(TargetOf[c]) => seen'[c].covered
         /\ status = "active" /\ Permits(TargetOf[c]) => seen'[c].both
         /\ BetweenReads(c) /\ status' # status => seen'[c].edited
BY DEF Observe

LEMMA InitType == Init => TypeOK
BY ConstantsAssumption
   DEF Init, TypeOK, Status, Audit, Entry, Claim, Request, Seen

-----------------------------------------------------------------------------
(* Type correctness *)

LEMMA NextType == TypeOK /\ [Next]_vars => TypeOK'
<1> SUFFICES ASSUME TypeOK, [Next]_vars PROVE TypeOK'
  OBVIOUS
<1>1. CASE UNCHANGED vars
  BY <1>1 DEF vars, TypeOK
<1>2. CASE Next
  <2>1. seen' \in [Claims -> Seen]
    BY <1>2, SeenType DEF Next
  <2>2. ASSUME NEW q \in Reqs, OwnerStep(q) PROVE TypeOK'
    <3>1. ASSUME NEW r \in Rules, create_scope_rule(q, r) PROVE TypeOK'
      <4>1. [op |-> "create", rule |-> r] \in Request
        BY DEF Request
      <4>2. req' \in [Reqs -> Request] /\ used' \in [edits : 0 .. MaxEdits, faults : 0 .. MaxFaults]
        BY <3>1, <4>1, BeginType DEF create_scope_rule
      <4> QED
        BY <2>1, <3>1, <4>2 DEF TypeOK, create_scope_rule, Acceptable
    <3>2. ASSUME NEW r \in Rules, delete_scope_rule(q, r) PROVE TypeOK'
      <4>1. [op |-> "delete", rule |-> r] \in Request
        BY DEF Request
      <4>2. req' \in [Reqs -> Request] /\ used' \in [edits : 0 .. MaxEdits, faults : 0 .. MaxFaults]
        BY <3>2, <4>1, BeginType DEF delete_scope_rule
      <4> QED
        BY <2>1, <3>2, <4>2 DEF TypeOK, delete_scope_rule
    <3>3. ASSUME NEW to \in Status, update_engagement(q, to) PROVE TypeOK'
      <4>1. [op |-> "update", loaded |-> status, to |-> to] \in Request
        BY DEF Request, TypeOK
      <4>2. req' \in [Reqs -> Request] /\ used' \in [edits : 0 .. MaxEdits, faults : 0 .. MaxFaults]
        BY <3>3, <4>1, BeginType DEF update_engagement
      <4> QED
        BY <2>1, <3>3, <4>2 DEF TypeOK, update_engagement
    <3>4. CASE AuditCreate(q)
      <4>1. req' \in [Reqs -> Request] /\ req[q].rule \in Rules
        BY <3>4, AnswerType, RequestKinds DEF AuditCreate
      <4> QED
        BY <2>1, <3>4, <4>1 DEF TypeOK, AuditCreate, Audit, Entry
    <3>5. CASE CommitDelete(q)
      <4>1. req' \in [Reqs -> Request] /\ req[q].rule \in Rules
        BY <3>5, AnswerType, RequestKinds DEF CommitDelete
      <4> QED
        BY <2>1, <3>5, <4>1 DEF TypeOK, CommitDelete, DeletionRecord, Audit, Entry
    <3>6. CASE CommitUpdate(q)
      <4>1. req' \in [Reqs -> Request] /\ req[q].to \in Status
        BY <3>6, AnswerType, RequestKinds DEF CommitUpdate
      <4> QED
        BY <2>1, <3>6, <4>1 DEF TypeOK, CommitUpdate
    <3> QED
      BY <2>2, <3>1, <3>2, <3>3, <3>4, <3>5, <3>6 DEF OwnerStep
  <2>3. ASSUME NEW c \in Claims, ClaimStep(c) PROVE TypeOK'
    <3>1. CASE CheckEngagement(c)
      BY <2>1, <3>1, GoToType, DenyType DEF TypeOK, CheckEngagement
    <3>2. CASE CheckTarget(c)
      BY <2>1, <3>2, GoToType, DenyType DEF TypeOK, CheckTarget
    <3>3. CASE CheckRules(c)
      BY <2>1, <3>3, GoToType, DenyType DEF TypeOK, CheckRules
    <3>4. CASE CheckLimits(c)
      <4>1. [pc |-> "answered", verdict |-> "allowed"] \in Claim
        BY DEF Claim
      <4>2. claim' \in [Claims -> Claim] /\ audit' \subseteq Audit
        BY <3>4, <4>1, DenyType DEF TypeOK, CheckLimits
      <4> QED
        BY <2>1, <3>4, <4>2 DEF TypeOK, CheckLimits
    <3>5. CASE CommitClaim(c)
      BY <2>1, <3>5, GoToType DEF TypeOK, CommitClaim, Audit, Entry
    <3>6. CASE Execute(c)
      BY <2>1, <3>6 DEF TypeOK, Execute
    <3> QED
      BY <2>3, <3>1, <3>2, <3>3, <3>4, <3>5, <3>6 DEF ClaimStep
  <2>4. CASE ApiCrash
    <3>1. claim' \in [Claims -> Claim]
      BY <2>4 DEF TypeOK, ApiCrash, Claim
    <3>2. req' \in [Reqs -> Request]
      BY <2>4 DEF ApiCrash, Request
    <3>3. used' \in [edits : 0 .. MaxEdits, faults : 0 .. MaxFaults]
      <4>1. /\ used \in [edits : 0 .. MaxEdits, faults : 0 .. MaxFaults]
            /\ used.faults < MaxFaults /\ used' = [used EXCEPT !.faults = used.faults + 1]
        BY <2>4 DEF TypeOK, ApiCrash
      <4>2. used.faults + 1 \in 0 .. MaxFaults
        BY <4>1, ConstantsAssumption
      <4> QED
        BY <4>1, <4>2
    <3> QED
      BY <2>1, <2>4, <3>1, <3>2, <3>3 DEF TypeOK, ApiCrash
  <2> QED
    BY <1>2, <2>2, <2>3, <2>4 DEF Next
<1> QED
  BY <1>1, <1>2

(* Every row, request and claim keeps its shape, and no include that the   *)
(* check of the pattern in create_scope_rule objects to is in force.       *)
THEOREM TypeCorrect == Spec => []TypeOK
<1> QED
  BY InitType, NextType, PTL DEF Spec

-----------------------------------------------------------------------------
(* Edits bind the claims that begin after them *)

(* What is known of a claim at each point of its check.  Only the verdict  *)
(* survives a stop of the API, so it has to carry what the points before   *)
(* it established.                                                         *)
Past(c, points) == claim[c].pc \in points \/ claim[c].verdict = "allowed"

Checked(c) ==
  /\ claim[c].pc = "answered" => claim[c].verdict = "allowed"
  /\ claim[c].verdict = "denied" => claim[c].pc = "done"
  /\ claim[c].verdict = "allowed" => claim[c].pc \in {"answered", "done"}
  /\ Past(c, {"target", "rules", "limits"}) => seen[c].active
  /\ Past(c, {"rules", "limits"}) => TargetOf[c] \notin UnsafeTargets
  /\ Past(c, {"limits"}) => seen[c].covered /\ (seen[c].both \/ seen[c].edited)
  /\ BetweenReads(c) => status = "active" \/ seen[c].edited

CheckedInv == \A c \in Claims : Checked(c)

(* A claim that stays put keeps what is known of it. *)
LEMMA CheckedKept ==
  ASSUME TypeOK, CheckedInv, Observe, NEW c \in Claims, claim'[c] = claim[c]
  PROVE  Checked(c)'
<1>1. claim[c] \in Claim /\ Checked(c)
  BY DEF TypeOK, CheckedInv
<1>2. ASSUME BetweenReads(c)' PROVE status' = "active" \/ seen'[c].edited
  <2>1. BetweenReads(c) /\ claim[c].pc # "done" /\ claim'[c].pc # "new"
    BY <1>2 DEF BetweenReads
  <2> QED
    BY <1>1, <2>1, SeenNow, SeenType DEF Checked
<1> QED
  BY <1>1, <1>2, SeenType DEF Checked, Past

LEMMA CheckedStep ==
  ASSUME TypeOK, CheckedInv, Observe, NEW c \in Claims, ClaimStep(c)
  PROVE  CheckedInv'
<1> DEFINE Others == \A d \in Claims \ {c} : claim'[d] = claim[d]
<1>1. SUFFICES Others /\ Checked(c)'
  BY <1>1, CheckedKept DEF CheckedInv
<1>2. claim[c] \in Claim
  BY DEF TypeOK
<1>3. ASSUME _deny(c) PROVE Others /\ Checked(c)'
  BY <1>3, DenyType DEF Checked, Past, BetweenReads
<1>4. CASE CheckEngagement(c)
  <2>1. ASSUME EngagementActive, GoTo(c, "target") PROVE Others /\ Checked(c)'
    BY <1>2, <1>4, <2>1, GoToType, SeenNow DEF CheckEngagement, EngagementActive, CheckedInv, Checked, Past, BetweenReads
  <2> QED
    BY <1>3, <1>4, <2>1 DEF CheckEngagement
<1>5. CASE CheckTarget(c)
  <2>1. ASSUME TargetOf[c] \notin UnsafeTargets, GoTo(c, "rules") PROVE Others /\ Checked(c)'
    BY <1>2, <1>5, <2>1, GoToType, SeenType DEF CheckTarget, CheckedInv, Checked, Past, BetweenReads
  <2> QED
    BY <1>3, <1>5, <2>1 DEF CheckTarget
<1>6. CASE CheckRules(c)
  <2>1. ASSUME InScope(c), GoTo(c, "limits") PROVE Others /\ Checked(c)'
    <3>1. Permits(TargetOf[c])
      BY <2>1 DEF InScope, Matching, Permits
    <3> QED
      BY <1>2, <1>6, <2>1, <3>1, GoToType, SeenNow, SeenType
      DEF CheckRules, CheckedInv, Checked, Past, BetweenReads
  <2> QED
    BY <1>3, <1>6, <2>1 DEF CheckRules
<1>7. CASE CheckLimits(c)
  <2>1. ASSUME claim' = [claim EXCEPT ![c] = [pc |-> "answered", verdict |-> "allowed"]]
        PROVE  Others /\ Checked(c)'
    <3>1. Others /\ claim'[c] = [pc |-> "answered", verdict |-> "allowed"]
      BY <2>1 DEF TypeOK
    <3> QED
      BY <1>7, <3>1, SeenType DEF CheckLimits, CheckedInv, Checked, Past, BetweenReads
  <2> QED
    BY <1>3, <1>7, <2>1 DEF CheckLimits
<1>8. CASE CommitClaim(c)
  BY <1>2, <1>8, GoToType, SeenType DEF CommitClaim, CheckedInv, Checked, Past, BetweenReads
<1>9. CASE Execute(c)
  BY <1>9, CheckedKept DEF Execute
<1> QED
  BY <1>4, <1>5, <1>6, <1>7, <1>8, <1>9 DEF ClaimStep

LEMMA CheckedNext == TypeOK /\ CheckedInv /\ [Next]_vars => CheckedInv'
<1> SUFFICES ASSUME TypeOK, CheckedInv, [Next]_vars PROVE CheckedInv'
  OBVIOUS
<1>1. CASE UNCHANGED vars
  BY <1>1 DEF vars, CheckedInv, Checked, Past, BetweenReads
<1>2. CASE Next
  <2>1. Observe
    BY <1>2 DEF Next
  <2>2. ASSUME NEW q \in Reqs, OwnerStep(q) PROVE CheckedInv'
    <3>1. claim' = claim
      BY <2>2 DEF OwnerStep, create_scope_rule, delete_scope_rule, update_engagement,
                  AuditCreate, CommitDelete, CommitUpdate
    <3> QED
      BY <2>1, <3>1, CheckedKept DEF CheckedInv
  <2>3. ASSUME NEW c \in Claims, ClaimStep(c) PROVE CheckedInv'
    BY <2>1, <2>3, CheckedStep
  <2>4. CASE ApiCrash
    <3>1. SUFFICES ASSUME NEW c \in Claims PROVE Checked(c)'
      BY DEF CheckedInv
    <3>2. claim[c] \in Claim
      BY DEF TypeOK
    <3>3. \/ claim'[c] = claim[c]
          \/ claim'[c] = [claim[c] EXCEPT !.pc = "done"]
      BY <2>4 DEF ApiCrash
    <3>4. CASE claim'[c] = [claim[c] EXCEPT !.pc = "done"]
      BY <2>1, <3>2, <3>4, SeenType DEF CheckedInv, Checked, Past, Claim, BetweenReads
    <3> QED
      BY <2>1, <3>3, <3>4, CheckedKept
  <2> QED
    BY <1>2, <2>2, <2>3, <2>4 DEF Next
<1> QED
  BY <1>1, <1>2

(* An allowed claim had, during its check, an instant with an active       *)
(* engagement and one at which the rules permitted its target, the same    *)
(* one unless an edit was committed between its two reads, and its target  *)
(* is no literal in denied space (validate_target).                        *)
THEOREM EditsBind == Spec => []AllowedInsideWindow
<1>1. Init => CheckedInv
  BY DEF Init, CheckedInv, Checked, Past, BetweenReads
<1>2. CheckedInv => AllowedInsideWindow
  BY DEF CheckedInv, Checked, AllowedInsideWindow, Past
<1> QED
  BY <1>1, <1>2, CheckedNext, TypeCorrect, PTL DEF Spec

-----------------------------------------------------------------------------
(* The audit log *)

(* A verdict is on record, except a permission whose commit is still to    *)
(* come or was lost with the API.                                          *)
OnRecord(c) ==
  /\ claim[c].verdict = "denied" => Entry("denied", c) \in audit
  /\ claim[c].verdict = "allowed" =>
       claim[c].pc = "answered" \/ Entry("allowed", c) \in audit \/ used.faults > 0

RuleCreated(r) ==
  \/ Entry("create", r) \in audit
  \/ \E q \in Reqs : req[q].op = "create" /\ req[q].rule = r
  \/ used.faults > 0

AuditInv ==
  /\ \A c \in Claims : OnRecord(c)
  /\ \A r \in rules : RuleCreated(r)
  /\ \A r \in gone : r \notin rules /\ Entry("delete", r) \in audit

(* The log only grows, and a fault is not forgotten. *)
LEMMA LogGrows ==
  ASSUME TypeOK, Next
  PROVE  audit \subseteq audit' /\ used.faults \in Nat /\ used'.faults \in {used.faults, used.faults + 1}
<1>1. used \in [edits : 0 .. MaxEdits, faults : 0 .. MaxFaults] /\ used.faults \in Nat
  BY ConstantsAssumption DEF TypeOK
<1>2. ASSUME NEW q \in Reqs, OwnerStep(q)
      PROVE  audit \subseteq audit' /\ used'.faults = used.faults
  BY <1>1, <1>2 DEF OwnerStep, create_scope_rule, delete_scope_rule, update_engagement,
                    AuditCreate, CommitDelete, CommitUpdate, Begin
<1>3. ASSUME NEW c \in Claims, ClaimStep(c)
      PROVE  audit \subseteq audit' /\ used' = used
  BY <1>3 DEF ClaimStep, CheckEngagement, CheckTarget, CheckRules, CheckLimits, CommitClaim,
              Execute, _deny
<1>4. ASSUME ApiCrash
      PROVE  audit \subseteq audit' /\ used'.faults = used.faults + 1
  BY <1>1, <1>4 DEF ApiCrash
<1> QED
  BY <1>1, <1>2, <1>3, <1>4 DEF Next

LEMMA OwnerAudit ==
  ASSUME TypeOK, AuditInv, Next, NEW q \in Reqs, OwnerStep(q)
  PROVE  AuditInv'
<1>1. claim' = claim
  BY DEF OwnerStep, create_scope_rule, delete_scope_rule, update_engagement,
         AuditCreate, CommitDelete, CommitUpdate
<1>2. \A c \in Claims : OnRecord(c)'
  BY <1>1, LogGrows DEF AuditInv, OnRecord
<1>3. ASSUME NEW r \in rules, NEW p \in Reqs \ {q}, req[p].op = "create", req[p].rule = r
      PROVE  req'[p] = req[p]
  BY DEF TypeOK, OwnerStep, create_scope_rule, delete_scope_rule, update_engagement,
         AuditCreate, CommitDelete, CommitUpdate, Begin, Answer
<1>4. ASSUME NEW r \in rules, ~(req[q].op = "create" /\ req[q].rule = r) PROVE RuleCreated(r)'
  BY <1>3, <1>4, LogGrows DEF AuditInv, RuleCreated
<1>5. ASSUME NEW s \in Rules, create_scope_rule(q, s) PROVE AuditInv'
  <2>1. req'[q] = [op |-> "create", rule |-> s] /\ req[q] = Idle
    BY <1>5 DEF TypeOK, create_scope_rule, Begin
  <2>2. RuleCreated(s)'
    BY <2>1 DEF RuleCreated
  <2>3. \A r \in rules' : RuleCreated(r)'
    BY <1>4, <1>5, <2>1, <2>2 DEF create_scope_rule, Idle
  <2> QED
    BY <1>2, <1>5, <2>3 DEF AuditInv, create_scope_rule
<1>6. ASSUME NEW s \in Rules, delete_scope_rule(q, s) PROVE AuditInv'
  BY <1>2, <1>4, <1>6 DEF AuditInv, delete_scope_rule, Begin, Idle
<1>7. ASSUME NEW to \in Status, update_engagement(q, to) PROVE AuditInv'
  BY <1>2, <1>4, <1>7 DEF AuditInv, update_engagement, Begin, Idle
<1>8. CASE AuditCreate(q)
  <2>1. ASSUME NEW r \in rules, req[q].rule = r PROVE RuleCreated(r)'
    BY <1>8, <2>1 DEF AuditCreate, RuleCreated
  <2> QED
    BY <1>2, <1>4, <1>8, <2>1 DEF AuditInv, AuditCreate
<1>9. CASE CommitDelete(q)
  <2>1. \A r \in rules' : RuleCreated(r)'
    BY <1>4, <1>9 DEF CommitDelete
  <2>2. \A r \in gone' : r \notin rules' /\ Entry("delete", r) \in audit'
    BY <1>9 DEF AuditInv, CommitDelete, DeletionRecord
  <2> QED
    BY <1>2, <2>1, <2>2 DEF AuditInv
<1>10. CASE CommitUpdate(q)
  BY <1>2, <1>4, <1>10 DEF AuditInv, CommitUpdate
<1> QED
  BY <1>5, <1>6, <1>7, <1>8, <1>9, <1>10 DEF OwnerStep

LEMMA ClaimAudit ==
  ASSUME TypeOK, CheckedInv, AuditInv, Next, NEW c \in Claims, ClaimStep(c)
  PROVE  AuditInv'
<1> DEFINE Others == \A d \in Claims \ {c} : claim'[d] = claim[d]
<1>1. /\ rules' = rules /\ gone' = gone /\ req' = req
      /\ \A r \in rules : RuleCreated(r)'
      /\ \A r \in gone : r \notin rules /\ Entry("delete", r) \in audit'
  <2>1. rules' = rules /\ gone' = gone /\ req' = req
    BY DEF ClaimStep, CheckEngagement, CheckTarget, CheckRules, CheckLimits, CommitClaim, Execute
  <2> QED
    BY <2>1, LogGrows DEF AuditInv, RuleCreated
<1>2. SUFFICES Others /\ OnRecord(c)'
  <2>1. ASSUME NEW d \in Claims \ {c}, Others PROVE OnRecord(d)'
    BY <2>1, LogGrows DEF AuditInv, OnRecord
  <2> QED
    BY <1>1, <1>2, <2>1 DEF AuditInv
<1>3. claim[c] \in Claim /\ Checked(c)
  BY DEF TypeOK, CheckedInv
<1>4. ASSUME _deny(c) PROVE Others /\ OnRecord(c)'
  BY <1>4, DenyType DEF OnRecord
<1>5. ASSUME NEW pc \in {"target", "rules", "limits"}, GoTo(c, pc), claim[c].pc \notin {"answered", "done"}
      PROVE  Others /\ OnRecord(c)'
  BY <1>3, <1>5, GoToType DEF OnRecord, Checked
<1>6. CASE CheckEngagement(c)
  BY <1>4, <1>5, <1>6 DEF CheckEngagement
<1>7. CASE CheckTarget(c)
  BY <1>4, <1>5, <1>7 DEF CheckTarget
<1>8. CASE CheckRules(c)
  BY <1>4, <1>5, <1>8 DEF CheckRules
<1>9. CASE CheckLimits(c)
  <2>1. ASSUME claim' = [claim EXCEPT ![c] = [pc |-> "answered", verdict |-> "allowed"]]
        PROVE  Others /\ OnRecord(c)'
    BY <2>1 DEF TypeOK, OnRecord
  <2> QED
    BY <1>4, <1>9, <2>1 DEF CheckLimits
<1>10. CASE CommitClaim(c)
  <2>1. Others /\ claim'[c].verdict = "allowed"
    BY <1>3, <1>10, GoToType DEF CommitClaim, Checked
  <2> QED
    BY <1>10, <2>1 DEF CommitClaim, OnRecord
<1>11. CASE Execute(c)
  BY <1>11 DEF Execute, AuditInv, OnRecord
<1> QED
  BY <1>6, <1>7, <1>8, <1>9, <1>10, <1>11 DEF ClaimStep

LEMMA AuditNext == TypeOK /\ CheckedInv /\ AuditInv /\ [Next]_vars => AuditInv'
<1> SUFFICES ASSUME TypeOK, CheckedInv, AuditInv, [Next]_vars PROVE AuditInv'
  OBVIOUS
<1>1. CASE UNCHANGED vars
  BY <1>1 DEF vars, AuditInv, OnRecord, RuleCreated
<1>2. CASE Next
  <2>1. ASSUME ApiCrash PROVE AuditInv'
    <3>1. used'.faults > 0
      <4>1. used \in [edits : 0 .. MaxEdits, faults : 0 .. MaxFaults] /\ used.faults \in Nat
        BY ConstantsAssumption DEF TypeOK
      <4> QED
        BY <2>1, <4>1 DEF ApiCrash
    <3>2. \A c \in Claims : claim'[c].verdict = claim[c].verdict
      BY <2>1 DEF TypeOK, Claim, ApiCrash
    <3> QED
      BY <2>1, <3>1, <3>2 DEF AuditInv, OnRecord, RuleCreated, ApiCrash
  <2> QED
    BY <1>2, <2>1, OwnerAudit, ClaimAudit DEF Next
<1> QED
  BY <1>1, <1>2

LEMMA InitAudit == Init => AuditInv
BY DEF Init, AuditInv, OnRecord, RuleCreated

LEMMA AuditSafe == Spec => []AuditInv
<1>1. Init => CheckedInv
  BY DEF Init, CheckedInv, Checked, Past, BetweenReads
<1> QED
  BY <1>1, CheckedNext, AuditNext, InitAudit, TypeCorrect, PTL DEF Spec

(* A denial is on record when anybody hears of it; a permission is once    *)
(* its claim is done, unless the API stopped (_write_audit).               *)
THEOREM DecisionsOnRecord == Spec => []DecisionsAudited
<1>1. AuditInv => DecisionsAudited
  BY DEF AuditInv, OnRecord, DecisionsAudited
<1> QED
  BY <1>1, AuditSafe, PTL

(* A rule in force has its "create" row, or a request about to write it,   *)
(* or a stopped API behind it; a rule that is gone has its "delete" row.   *)
THEOREM ScopeChangesOnRecord == Spec => []RulesTraced
<1>1. AuditInv => RulesTraced
  BY DEF AuditInv, RuleCreated, RulesTraced
<1> QED
  BY <1>1, AuditSafe, PTL
=============================================================================
