---------------------------- MODULE CaseworkProofs ----------------------------
(***************************************************************************)
(* Proofs about Casework: type correctness, that a storage path always has *)
(* its bytes behind it, that only reviews judge evidence, that every state *)
(* and status can be traced to its record, that an export shows a verified *)
(* finding with its proof, and how many links of a finding there can be.   *)
(***************************************************************************)
EXTENDS Casework, FiniteSetTheorems, TLAPS

(* What is being done follows from the kind of the request. *)
LEMMA RequestKinds ==
  ASSUME TypeOK, NEW q \in Reqs
  PROVE  /\ req[q].op = "upload" => req[q] \in UploadReq
         /\ req[q].op = "review" => req[q] \in ReviewReq
         /\ req[q].op = "create" => req[q] \in CreateReq
         /\ req[q].op = "update" => req[q] \in UpdateReq
         /\ req[q].op = "verify" => req[q] \in VerifyReq
         /\ req[q].op = "link"   => req[q] \in LinkReq
         /\ req[q].op = "export" => req[q] \in ExportReq
<1>1. req[q] \in Request
  BY DEF TypeOK
<1> QED
  BY <1>1, SMTT(60) DEF Request, UploadReq, ReviewReq, CreateReq, UpdateReq, VerifyReq, LinkReq, ExportReq, Idle

(* Moving a request on, or answering it, keeps the slots well typed. *)
LEMMA AnswerType ==
  ASSUME TypeOK, NEW q \in Reqs, Answer(q)
  PROVE  req' \in [Reqs -> Request]
BY DEF TypeOK, Answer, Request

(* A request that moves on stays what it is, and the others stay put. *)
LEMMA GoToSlots ==
  ASSUME TypeOK, NEW q \in Reqs, NEW pc, req[q].op # "none", GoTo(q, pc)
  PROVE  /\ req'[q].pc = pc /\ req'[q].op = req[q].op /\ req'[q].id = req[q].id
         /\ \A p \in Reqs \ {q} : req'[p] = req[p]
<1>1. req \in [Reqs -> Request] /\ req' = [req EXCEPT ![q].pc = pc]
  BY DEF TypeOK, GoTo
<1>2. {"pc", "op", "id"} \subseteq DOMAIN req[q]
  <2>1. req[q] \in Request
    BY DEF TypeOK
  <2> QED
    BY <2>1 DEF Request, UploadReq, ReviewReq, CreateReq, UpdateReq, VerifyReq, LinkReq, ExportReq, Idle
<1>3. req'[q] = [req[q] EXCEPT !.pc = pc] /\ \A p \in Reqs \ {q} : req'[p] = req[p]
  BY <1>1
<1> QED
  BY <1>2, <1>3

LEMMA AnswerSlots ==
  ASSUME TypeOK, NEW q \in Reqs, Answer(q)
  PROVE  req'[q] = Idle /\ \A p \in Reqs \ {q} : req'[p] = req[p]
BY DEF TypeOK, Answer

(* So does an export that has read some more. *)
LEMMA ExportSlots ==
  ASSUME TypeOK, NEW q \in Reqs, ExportVerifications(q) \/ ExportEvidence(q)
  PROVE  /\ req'[q].op = "export" /\ req'[q].id = req[q].id /\ req'[q].shown = req[q].shown
         /\ \A p \in Reqs \ {q} : req'[p] = req[p]
<1>1. req[q] \in ExportReq
  BY RequestKinds DEF ExportVerifications, ExportEvidence, At
<1>2. PICK pc, cited : req' = [req EXCEPT ![q].pc = pc, ![q].cited = cited]
  BY DEF ExportVerifications, ExportEvidence
<1>3. req \in [Reqs -> Request]
  BY DEF TypeOK
<1>4. /\ req'[q] = [req[q] EXCEPT !.pc = pc, !.cited = cited]
      /\ \A p \in Reqs \ {q} : req'[p] = req[p]
  BY <1>2, <1>3
<1> QED
  BY <1>1, <1>4 DEF ExportReq

LEMMA BeginType ==
  ASSUME TypeOK, NEW q \in Reqs, NEW d \in Request, Begin(q, d)
  PROVE  req' \in [Reqs -> Request] /\ used' \in [requests : Nat, storage : Nat, api : Nat]
<1>1. req' \in [Reqs -> Request]
  <2>1. req \in [Reqs -> Request] /\ req' = [req EXCEPT ![q] = d]
    BY DEF TypeOK, Begin
  <2> QED
    BY <2>1
<1>2. used' \in [requests : Nat, storage : Nat, api : Nat]
  <2>1. /\ used \in [requests : Nat, storage : Nat, api : Nat]
        /\ used' = [used EXCEPT !.requests = used.requests + 1]
    BY DEF TypeOK, Begin
  <2> QED
    BY <2>1
<1> QED
  BY <1>1, <1>2

(* What a flush leaves in a column is what was there or what was assigned. *)
LEMMA WrittenType ==
  ASSUME NEW S, NEW c \in S, NEW l, NEW a \in S
  PROVE  Written(c, l, a) \in S
BY DEF Written

LEMMA InitType == Init => TypeOK
<1> SUFFICES ASSUME Init PROVE TypeOK
  OBVIOUS
<1> USE ConstantsAssumption DEF Init
<1>1. evidence \in [Evidence -> Row]
  BY DEF Row, FreshRow, NoRow, EVIDENCE_VERIFICATION_STATUSES
<1>2. objects \subseteq Evidence
  OBVIOUS
<1>3. finding \in [Findings -> FindingState]
  BY DEF FindingState, FINDING_STATES
<1>4. verifications \in [Findings -> Seq(Verification)]
  OBVIOUS
<1>5. trail \subseteq Audit
  BY DEF Audit, Entry, EVIDENCE_VERIFICATION_STATUSES, FINDING_STATES
<1>6. links \in [Reports -> [Findings -> Nat]]
  OBVIOUS
<1>7. req \in [Reqs -> Request] /\ used \in [requests : Nat, storage : Nat, api : Nat]
  BY DEF Request
<1> QED
  BY <1>1, <1>2, <1>3, <1>4, <1>5, <1>6, <1>7 DEF TypeOK

LEMMA EvidenceType ==
  ASSUME TypeOK, NEW q \in Reqs, EvidenceStep(q)
  PROVE  TypeOK'
<1> USE DEF At
<1>1. CASE StoreObject(q)
  <2>1. req[q] \in UploadReq
    BY <1>1, RequestKinds DEF StoreObject
  <2>2. objects' \subseteq Evidence
    BY <1>1, <2>1 DEF StoreObject, TypeOK, UploadReq
  <2>3. req' \in [Reqs -> Request]
    <3>1. CASE GoTo(q, "path")
      <4>1. [req[q] EXCEPT !.pc = "path"] \in UploadReq
        BY <2>1 DEF UploadReq
      <4> QED
        BY <3>1, <4>1 DEF GoTo, TypeOK, Request
    <3>2. CASE Answer(q)
      BY <3>2, AnswerType
    <3> QED
      BY <1>1, <3>1, <3>2 DEF StoreObject
  <2>4. used' \in [requests : Nat, storage : Nat, api : Nat]
    BY <1>1 DEF StoreObject, TypeOK
  <2> QED
    BY <1>1, <2>2, <2>3, <2>4 DEF StoreObject, TypeOK
<1>2. CASE CommitPath(q)
  <2>1. req[q] \in UploadReq
    BY <1>2, RequestKinds DEF CommitPath
  <2>2. [req[q] EXCEPT !.pc = "audit"] \in UploadReq
    BY <2>1 DEF UploadReq
  <2>3. req' \in [Reqs -> Request]
    BY <1>2, <2>2 DEF CommitPath, GoTo, TypeOK, Request
  <2>4. evidence' \in [Evidence -> Row]
    BY <1>2, <2>1 DEF CommitPath, TypeOK, Row, UploadReq
  <2> QED
    BY <1>2, <2>3, <2>4 DEF CommitPath, TypeOK
<1>3. CASE AuditUpload(q)
  <2>1. req[q] \in UploadReq
    BY <1>3, RequestKinds DEF AuditUpload
  <2>2. trail' \subseteq Audit
    BY <1>3, <2>1 DEF AuditUpload, TypeOK, Audit, Entry, UploadReq, EVIDENCE_VERIFICATION_STATUSES
  <2> QED
    BY <1>3, <2>2, AnswerType DEF AuditUpload, TypeOK
<1>4. CASE CommitReview(q)
  <2>1. req[q] \in ReviewReq
    BY <1>4, RequestKinds DEF CommitReview
  <2>2. [req[q] EXCEPT !.pc = "audit"] \in ReviewReq
    BY <2>1 DEF ReviewReq
  <2>3. req' \in [Reqs -> Request]
    BY <1>4, <2>2 DEF CommitReview, GoTo, TypeOK, Request
  <2>4. evidence' \in [Evidence -> Row]
    <3> DEFINE d == req[q]
               row == [evidence[d.id] EXCEPT
                         !.status   = Written(evidence[d.id].status, d.row.status, d.status),
                         !.reviewer = Written(evidence[d.id].reviewer, d.row.reviewer, d.by)]
    <3>1. evidence \in [Evidence -> Row] /\ d.id \in Evidence /\ evidence[d.id] \in Row
      BY <2>1 DEF TypeOK, ReviewReq
    <3>2. evidence' = [evidence EXCEPT ![d.id] = row]
      BY <1>4 DEF CommitReview
    <3>3. row \in Row
      <4>1. d.status \in EVIDENCE_VERIFICATION_STATUSES /\ d.by \in Reviewers
        BY <2>1 DEF ReviewReq
      <4> QED
        BY <3>1, <4>1 DEF Row, Written
    <3> HIDE DEF d, row
    <3> QED
      BY <3>1, <3>2, <3>3
  <2> QED
    BY <1>4, <2>3, <2>4 DEF CommitReview, TypeOK
<1>5. CASE AuditReview(q)
  <2>1. req[q] \in ReviewReq
    BY <1>5, RequestKinds DEF AuditReview
  <2>2. trail' \subseteq Audit
    BY <1>5, <2>1 DEF AuditReview, TypeOK, Audit, Entry, ReviewReq
  <2> QED
    BY <1>5, <2>2, AnswerType DEF AuditReview, TypeOK
<1> QED
  BY <1>1, <1>2, <1>3, <1>4, <1>5 DEF EvidenceStep

LEMMA FindingType ==
  ASSUME TypeOK, NEW q \in Reqs, FindingStep(q)
  PROVE  TypeOK'
<1> USE DEF At
<1>1. CASE AuditCreate(q)
  <2>1. req[q] \in CreateReq
    BY <1>1, RequestKinds DEF AuditCreate
  <2>2. trail' \subseteq Audit
    BY <1>1, <2>1 DEF AuditCreate, TypeOK, Audit, Entry, CreateReq, FINDING_STATES
  <2> QED
    BY <1>1, <2>2, AnswerType DEF AuditCreate, TypeOK
<1>2. CASE CommitUpdate(q)
  <2>1. req[q] \in UpdateReq
    BY <1>2, RequestKinds DEF CommitUpdate
  <2>2. [req[q] EXCEPT !.pc = "audit"] \in UpdateReq
    BY <2>1 DEF UpdateReq
  <2>3. req' \in [Reqs -> Request]
    BY <1>2, <2>2, AnswerType DEF CommitUpdate, GoTo, TypeOK, Request
  <2>4. finding' \in [Findings -> FindingState]
    BY <1>2, <2>1 DEF CommitUpdate, TypeOK, UpdateReq, FindingState, Written
  <2> QED
    BY <1>2, <2>3, <2>4 DEF CommitUpdate, TypeOK
<1>3. CASE AuditUpdate(q)
  <2>1. req[q] \in UpdateReq
    BY <1>3, RequestKinds DEF AuditUpdate
  <2>2. trail' \subseteq Audit
    BY <1>3, <2>1 DEF AuditUpdate, TypeOK, Audit, Entry, UpdateReq
  <2> QED
    BY <1>3, <2>2, AnswerType DEF AuditUpdate, TypeOK
<1>4. CASE CommitVerification(q)
  <2>1. req[q] \in VerifyReq
    BY <1>4, RequestKinds DEF CommitVerification
  <2>2. verifications' \in [Findings -> Seq(Verification)]
    BY <1>4, <2>1 DEF CommitVerification, TypeOK, VerifyReq
  <2>3. \A result : MovedTo(result) \in FindingState
    BY DEF MovedTo, FindingState, FINDING_STATES
  <2>4. finding' \in [Findings -> FindingState]
    BY <1>4, <2>1, <2>3 DEF CommitVerification, TypeOK, VerifyReq, Written
  <2> QED
    BY <1>4, <2>2, <2>4, AnswerType DEF CommitVerification, TypeOK
<1> QED
  BY <1>1, <1>2, <1>3, <1>4 DEF FindingStep

LEMMA ReportType ==
  ASSUME TypeOK, NEW q \in Reqs, ReportStep(q)
  PROVE  TypeOK'
<1> USE DEF At
<1>1. CASE InsertLinks(q)
  <2>1. req[q] \in LinkReq
    BY <1>1, RequestKinds DEF InsertLinks
  <2>2. \A f \in Findings : Occurrences(f, req[q].list) \in Nat
    <3> SUFFICES ASSUME NEW f \in Findings
                 PROVE  Occurrences(f, req[q].list) \in Nat
      OBVIOUS
    <3> DEFINE n == Len(req[q].list)
               S == {i \in 1 .. n : req[q].list[i] = f}
    <3>1. n \in Nat
      BY <2>1 DEF LinkReq
    <3>2. IsFiniteSet(1 .. n)
      BY <3>1, FS_Interval
    <3>3. IsFiniteSet(S)
      BY <3>2, FS_Subset
    <3> QED
      BY <3>3, FS_CardinalityType DEF Occurrences
  <2>3. links' \in [Reports -> [Findings -> Nat]]
    BY <1>1, <2>1, <2>2 DEF InsertLinks, TypeOK, LinkReq
  <2> QED
    BY <1>1, <2>3, AnswerType DEF InsertLinks, TypeOK
<1>2. CASE ExportVerifications(q)
  <2>1. req[q] \in ExportReq
    BY <1>2, RequestKinds DEF ExportVerifications
  <2> DEFINE cited == UNION {CitedBy(f) : f \in DOMAIN req[q].shown}
  <2>2. DOMAIN req[q].shown \subseteq Findings
    BY <2>1 DEF ExportReq
  <2>3. \A f \in Findings : CitedBy(f) \subseteq CitedId
    <3> SUFFICES ASSUME NEW f \in Findings, NEW i \in 1 .. Len(verifications[f])
                 PROVE  verifications[f][i].cites \subseteq CitedId
      BY DEF CitedBy
    <3>1. verifications[f] \in Seq(Verification)
      BY DEF TypeOK
    <3>2. verifications[f][i] \in Verification
      BY <3>1
    <3> QED
      BY <3>2 DEF Verification
  <2>4. cited \subseteq CitedId
    BY <2>2, <2>3
  <2>5. [req[q] EXCEPT !.pc = "evidence", !.cited = cited] \in ExportReq
    BY <2>1, <2>4 DEF ExportReq
  <2>6. req' \in [Reqs -> Request]
    BY <1>2, <2>5 DEF ExportVerifications, TypeOK, Request
  <2> QED
    BY <1>2, <2>6 DEF ExportVerifications, TypeOK
<1>3. CASE ExportEvidence(q)
  <2>1. req[q] \in ExportReq
    BY <1>3, RequestKinds DEF ExportEvidence
  <2>2. [req[q] EXCEPT !.pc = "answer", !.cited = req[q].cited \intersect Artifacts] \in ExportReq
    BY <2>1 DEF ExportReq
  <2>3. req' \in [Reqs -> Request]
    BY <1>3, <2>2 DEF ExportEvidence, TypeOK, Request
  <2> QED
    BY <1>3, <2>3 DEF ExportEvidence, TypeOK
<1>4. CASE ExportAnswer(q)
  <2>1. req[q].id \in Reports
    BY <1>4, RequestKinds DEF ExportAnswer, At, ExportReq
  <2>2. trail' \subseteq Audit
    BY <1>4, <2>1 DEF ExportAnswer, TypeOK, Audit, Entry
  <2> QED
    BY <1>4, <2>2, AnswerType DEF ExportAnswer, TypeOK
<1> QED
  BY <1>1, <1>2, <1>3, <1>4 DEF ReportStep

LEMMA RequestsType ==
  ASSUME TypeOK, NEW q \in Reqs, Requests(q)
  PROVE  TypeOK'
<1>1. CASE \E e \in Evidence : upload_evidence(q, e)
  <2>1. PICK e \in Evidence : upload_evidence(q, e)
    BY <1>1
  <2>2. [op |-> "upload", pc |-> "store", id |-> e] \in Request
    BY DEF Request, UploadReq
  <2>3. evidence' \in [Evidence -> Row]
    BY <2>1 DEF upload_evidence, TypeOK, InsertedRow, FreshRow, NoRow, Row,
                EVIDENCE_VERIFICATION_STATUSES
  <2> QED
    BY <2>1, <2>2, <2>3, BeginType DEF upload_evidence, TypeOK
<1>2. CASE \E e \in Evidence, s \in ReviewStatuses, u \in Reviewers : verify_evidence(q, e, s, u)
  <2>1. PICK e \in Evidence, s \in ReviewStatuses, u \in Reviewers : verify_evidence(q, e, s, u)
    BY <1>2
  <2>2. [op |-> "review", pc |-> "write", id |-> e, row |-> evidence[e],
         status |-> s, by |-> u] \in Request
    BY ConstantsAssumption DEF Request, ReviewReq, TypeOK
  <2> QED
    BY <2>1, <2>2, BeginType DEF verify_evidence, TypeOK
<1>3. CASE \E f \in Findings : create_finding(q, f)
  <2>1. PICK f \in Findings : create_finding(q, f)
    BY <1>3
  <2>2. [op |-> "create", pc |-> "audit", id |-> f] \in Request
    BY DEF Request, CreateReq
  <2>3. finding' \in [Findings -> FindingState]
    BY <2>1 DEF create_finding, TypeOK, FindingState, FINDING_STATES
  <2> QED
    BY <2>1, <2>2, <2>3, BeginType DEF create_finding, TypeOK
<1>4. CASE \E f \in Findings, s \in StatePatches : update_finding(q, f, s)
  <2>1. PICK f \in Findings, s \in StatePatches : update_finding(q, f, s)
    BY <1>4
  <2>2. [op |-> "update", pc |-> "write", id |-> f, seen |-> finding[f], to |-> s] \in Request
    BY <2>1, ConstantsAssumption DEF Request, UpdateReq, TypeOK, FindingState, update_finding
  <2> QED
    BY <2>1, <2>2, BeginType DEF update_finding, TypeOK
<1>5. CASE \E f \in Findings, result \in FINDING_VERIFICATION_RESULTS, cites \in SUBSET CitedId :
             verify_finding(q, f, result, cites)
  <2>1. PICK f \in Findings, result \in FINDING_VERIFICATION_RESULTS, cites \in SUBSET CitedId :
               verify_finding(q, f, result, cites)
    BY <1>5
  <2>2. [op |-> "verify", pc |-> "write", id |-> f, seen |-> finding[f],
         verification |-> [result |-> result, cites |-> cites]] \in Request
    BY <2>1 DEF Request, VerifyReq, TypeOK, FindingState, verify_finding, Verification
  <2> QED
    BY <2>1, <2>2, BeginType DEF verify_finding, TypeOK
<1>6. CASE \E r \in Reports, list \in LinkLists : link_findings(q, r, list)
  <2>1. PICK r \in Reports, list \in LinkLists : link_findings(q, r, list)
    BY <1>6
  <2>2. [op |-> "link", pc |-> "write", id |-> r, list |-> list,
         linked |-> AlreadyLinked(r)] \in Request
    BY ConstantsAssumption DEF Request, LinkReq, AlreadyLinked
  <2> QED
    BY <2>1, <2>2, BeginType DEF link_findings, TypeOK
<1>7. CASE \E r \in Reports : export_report(q, r)
  <2>1. PICK r \in Reports : export_report(q, r)
    BY <1>7
  <2> DEFINE shown == [f \in AlreadyLinked(r) |-> finding[f]]
  <2>2. shown \in UNION {[S -> FindingState] : S \in SUBSET Findings}
    <3>1. AlreadyLinked(r) \in SUBSET Findings
      BY DEF AlreadyLinked
    <3>2. shown \in [AlreadyLinked(r) -> FindingState]
      BY <3>1 DEF TypeOK
    <3> QED
      BY <3>1, <3>2
  <2>3. [op |-> "export", pc |-> "verifications", id |-> r, shown |-> shown, cited |-> {}]
          \in Request
    BY <2>2 DEF Request, ExportReq
  <2> QED
    BY <2>1, <2>3, BeginType DEF export_report, TypeOK
<1> QED
  BY <1>1, <1>2, <1>3, <1>4, <1>5, <1>6, <1>7 DEF Requests

(* Every variable of the case file keeps to the values the schema allows,  *)
(* for any artifacts, findings, reports and requests.                      *)
THEOREM TypeCorrect == Spec => []TypeOK
<1>1. Init => TypeOK
  BY InitType
<1>2. TypeOK /\ [Next]_vars => TypeOK'
  <2> SUFFICES ASSUME TypeOK, [Next]_vars
               PROVE  TypeOK'
    OBVIOUS
  <2>1. ASSUME NEW q \in Reqs, Requests(q) PROVE TypeOK'
    BY <2>1, RequestsType
  <2>2. ASSUME NEW q \in Reqs, EvidenceStep(q) PROVE TypeOK'
    BY <2>2, EvidenceType
  <2>3. ASSUME NEW q \in Reqs, FindingStep(q) PROVE TypeOK'
    BY <2>3, FindingType
  <2>4. ASSUME NEW q \in Reqs, ReportStep(q) PROVE TypeOK'
    BY <2>4, ReportType
  <2>5. CASE ApiCrash
    <3>1. req' \in [Reqs -> Request]
      BY <2>5 DEF ApiCrash, Request
    <3>2. used' \in [requests : Nat, storage : Nat, api : Nat]
      <4>1. /\ used \in [requests : Nat, storage : Nat, api : Nat]
            /\ used' = [used EXCEPT !.api = used.api + 1]
        BY <2>5 DEF ApiCrash, TypeOK
      <4> QED
        BY <4>1
    <3> QED
      BY <2>5, <3>1, <3>2 DEF ApiCrash, TypeOK
  <2>6. CASE UNCHANGED vars
    BY <2>6 DEF vars, TypeOK
  <2> QED
    BY <2>1, <2>2, <2>3, <2>4, <2>5, <2>6 DEF Next
<1> QED
  BY <1>1, <1>2, PTL DEF Spec

-----------------------------------------------------------------------------
(* Storage: an upload that is past the storage call has its bytes there. *)

StoredInv ==
  /\ PathMeansObject
  /\ \A q \in Reqs : At(q, "upload", "path") => req[q].id \in objects

LEMMA StoredStep == TypeOK /\ StoredInv /\ [Next]_vars => StoredInv'
<1> SUFFICES ASSUME TypeOK, StoredInv, [Next]_vars
             PROVE  StoredInv'
  OBVIOUS
<1> USE DEF StoredInv, PathMeansObject, At
<1>1. ASSUME NEW q \in Reqs, Requests(q) PROVE StoredInv'
  <2>1. objects' = objects
    BY <1>1 DEF Requests, upload_evidence, verify_evidence, create_finding, update_finding,
                verify_finding, link_findings, export_report
  <2>2. \A e \in Evidence : evidence'[e].path => evidence[e].path
    BY <1>1 DEF Requests, upload_evidence, verify_evidence, create_finding, update_finding,
                verify_finding, link_findings, export_report, InsertedRow, FreshRow, NoRow, TypeOK
  <2>3. req'[q].pc # "path" /\ \A p \in Reqs \ {q} : req'[p] = req[p]
    BY <1>1 DEF Requests, upload_evidence, verify_evidence, create_finding, update_finding,
                verify_finding, link_findings, export_report, Begin, TypeOK
  <2> QED
    BY <2>1, <2>2, <2>3
<1>2. ASSUME NEW q \in Reqs, EvidenceStep(q) PROVE StoredInv'
  <2>1. CASE StoreObject(q)
    <3>1. objects \subseteq objects' /\ evidence' = evidence
      BY <2>1 DEF StoreObject
    <3>2. \A p \in Reqs \ {q} : req'[p] = req[p]
      BY <2>1 DEF StoreObject, GoTo, Answer, TypeOK
    <3>3. \/ req'[q].id = req[q].id /\ req[q].id \in objects'
          \/ req'[q] = Idle
      BY <2>1, GoToSlots, AnswerSlots DEF StoreObject
    <3> QED
      BY <3>1, <3>2, <3>3 DEF Idle
  <2>2. CASE CommitPath(q)
    BY <2>2 DEF CommitPath, GoTo, TypeOK
  <2>3. CASE AuditUpload(q)
    BY <2>3 DEF AuditUpload, Answer, Idle, TypeOK
  <2>4. CASE CommitReview(q)
    BY <2>4 DEF CommitReview, GoTo, TypeOK
  <2>5. CASE AuditReview(q)
    BY <2>5 DEF AuditReview, Answer, Idle, TypeOK
  <2> QED
    BY <1>2, <2>1, <2>2, <2>3, <2>4, <2>5 DEF EvidenceStep
<1>3. ASSUME NEW q \in Reqs, FindingStep(q) \/ ReportStep(q) PROVE StoredInv'
  <2>1. evidence' = evidence /\ objects' = objects
    BY <1>3 DEF FindingStep, ReportStep, AuditCreate, CommitUpdate, AuditUpdate, CommitVerification,
                InsertLinks, ExportVerifications, ExportEvidence, ExportAnswer
  <2>2. req'[q].op # "upload" /\ \A p \in Reqs \ {q} : req'[p] = req[p]
    <3>1. CASE FindingStep(q)
      BY <3>1, GoToSlots, AnswerSlots
      DEF FindingStep, AuditCreate, CommitUpdate, AuditUpdate, CommitVerification, Idle
    <3>2. CASE InsertLinks(q) \/ ExportAnswer(q)
      BY <3>2, AnswerSlots DEF InsertLinks, ExportAnswer, Idle
    <3>3. CASE ExportVerifications(q) \/ ExportEvidence(q)
      BY <3>3, ExportSlots
    <3> QED
      BY <1>3, <3>1, <3>2, <3>3 DEF ReportStep
  <2> QED
    BY <2>1, <2>2
<1>4. CASE ApiCrash
  BY <1>4 DEF ApiCrash, Idle
<1>5. CASE UNCHANGED vars
  BY <1>5 DEF vars
<1> QED
  BY <1>1, <1>2, <1>3, <1>4, <1>5 DEF Next

(* A storage path always has the bytes behind it, whatever fails and       *)
(* wherever the API stops: the object is stored before the path commits.   *)
THEOREM StoredBeforePointedTo == Spec => []PathMeansObject
<1>1. Init => StoredInv
  BY DEF Init, StoredInv, PathMeansObject, At, Idle, NoRow, FreshRow
<1>2. TypeOK /\ StoredInv /\ [Next]_vars => StoredInv'
  BY StoredStep
<1>3. StoredInv => PathMeansObject
  BY DEF StoredInv
<1> QED
  BY <1>1, <1>2, <1>3, TypeCorrect, PTL DEF Spec

-----------------------------------------------------------------------------
(* Records: audit rows and verifications are only ever added, and a request *)
(* about to write its audit row keeps standing for it until it has.         *)

RecordsGrow(q) ==
  /\ trail \subseteq trail'
  /\ \A f \in Findings : \A i \in 1 .. Len(verifications[f]) :
       i \in 1 .. Len(verifications'[f]) /\ verifications'[f][i] = verifications[f][i]
  /\ \A p \in Reqs \ {q} : req'[p] = req[p]
  /\ At(q, "update", "audit") => Entry("finding.state_change", req[q].id, req[q].to) \in trail'
  /\ At(q, "review", "audit") => Entry("evidence.verify", req[q].id, req[q].status) \in trail'

LEMMA RequestsGrow ==
  ASSUME TypeOK, NEW q \in Reqs, Requests(q)
  PROVE  RecordsGrow(q)
<1>1. trail' = trail /\ verifications' = verifications
  BY DEF Requests, upload_evidence, verify_evidence, create_finding, update_finding,
         verify_finding, link_findings, export_report
<1>2. req[q] = Idle /\ \A p \in Reqs \ {q} : req'[p] = req[p]
  BY DEF Requests, upload_evidence, verify_evidence, create_finding, update_finding,
         verify_finding, link_findings, export_report, Begin, TypeOK
<1> QED
  BY <1>1, <1>2 DEF RecordsGrow, At, Idle

LEMMA EvidenceGrow ==
  ASSUME TypeOK, NEW q \in Reqs, EvidenceStep(q)
  PROVE  RecordsGrow(q)
<1>1. verifications' = verifications /\ trail \subseteq trail'
  BY DEF EvidenceStep, StoreObject, CommitPath, AuditUpload, CommitReview, AuditReview
<1>2. \A p \in Reqs \ {q} : req'[p] = req[p]
  BY GoToSlots, AnswerSlots
  DEF EvidenceStep, StoreObject, CommitPath, AuditUpload, CommitReview, AuditReview, At
<1>3. ~ At(q, "update", "audit")
  BY DEF EvidenceStep, StoreObject, CommitPath, AuditUpload, CommitReview, AuditReview, At
<1>4. At(q, "review", "audit") => Entry("evidence.verify", req[q].id, req[q].status) \in trail'
  BY DEF EvidenceStep, StoreObject, CommitPath, AuditUpload, CommitReview, AuditReview, At
<1> QED
  BY <1>1, <1>2, <1>3, <1>4 DEF RecordsGrow

LEMMA FindingGrow ==
  ASSUME TypeOK, NEW q \in Reqs, FindingStep(q)
  PROVE  RecordsGrow(q)
<1>1. trail \subseteq trail'
  BY DEF FindingStep, AuditCreate, CommitUpdate, AuditUpdate, CommitVerification
<1>2. \A p \in Reqs \ {q} : req'[p] = req[p]
  BY GoToSlots, AnswerSlots
  DEF FindingStep, AuditCreate, CommitUpdate, AuditUpdate, CommitVerification, At
<1>3. ~ At(q, "review", "audit")
  BY DEF FindingStep, AuditCreate, CommitUpdate, AuditUpdate, CommitVerification, At
<1>4. At(q, "update", "audit") => Entry("finding.state_change", req[q].id, req[q].to) \in trail'
  BY DEF FindingStep, AuditCreate, CommitUpdate, AuditUpdate, CommitVerification, At
<1>5. ASSUME NEW f \in Findings, NEW i \in 1 .. Len(verifications[f])
      PROVE  i \in 1 .. Len(verifications'[f]) /\ verifications'[f][i] = verifications[f][i]
  <2>1. CASE CommitVerification(q)
    <3>1. verifications[f] \in Seq(Verification)
      BY DEF TypeOK
    <3>2. req[q].verification \in Verification
      BY <2>1, RequestKinds DEF CommitVerification, At, VerifyReq
    <3>3. \/ verifications'[f] = verifications[f]
          \/ verifications'[f] = Append(verifications[f], req[q].verification)
      BY <2>1 DEF CommitVerification, TypeOK
    <3> QED
      BY <3>1, <3>2, <3>3
  <2>2. CASE ~ CommitVerification(q)
    BY <2>2 DEF FindingStep, AuditCreate, CommitUpdate, AuditUpdate
  <2> QED
    BY <2>1, <2>2
<1> QED
  BY <1>1, <1>2, <1>3, <1>4, <1>5 DEF RecordsGrow

LEMMA ReportGrow ==
  ASSUME TypeOK, NEW q \in Reqs, ReportStep(q)
  PROVE  RecordsGrow(q)
<1>1. verifications' = verifications /\ trail \subseteq trail'
  BY DEF ReportStep, InsertLinks, ExportVerifications, ExportEvidence, ExportAnswer
<1>2. \A p \in Reqs \ {q} : req'[p] = req[p]
  BY DEF ReportStep, InsertLinks, ExportVerifications, ExportEvidence, ExportAnswer, Answer, TypeOK
<1>3. ~ At(q, "update", "audit") /\ ~ At(q, "review", "audit")
  BY DEF ReportStep, InsertLinks, ExportVerifications, ExportEvidence, ExportAnswer, At
<1> QED
  BY <1>1, <1>2, <1>3 DEF RecordsGrow

(* What is on record stays on record. *)
LEMMA RecordsStay ==
  ASSUME NEW q \in Reqs, RecordsGrow(q)
  PROVE  /\ \A f \in Findings : \A s : MoveRecorded(f, s) => MoveRecorded(f, s)'
         /\ \A e : \A s : ReviewRecorded(e, s) => ReviewRecorded(e, s)'
         /\ \A f : \A s : SetByHand(f, s) => SetByHand(f, s)'
<1>1. ASSUME NEW f \in Findings, NEW s, MoveRecorded(f, s)
      PROVE  MoveRecorded(f, s)'
  <2>1. CASE \E i \in 1 .. Len(verifications[f]) :
               verifications[f][i].result \in Moves /\ MovedTo(verifications[f][i].result) = s
    BY <2>1 DEF RecordsGrow, MoveRecorded
  <2>2. CASE Entry("finding.state_change", f, s) \in trail
    BY <2>2 DEF RecordsGrow, MoveRecorded, Entry
  <2>3. CASE \E p \in Reqs : At(p, "update", "audit") /\ req[p].id = f /\ req[p].to = s
    BY <2>3 DEF RecordsGrow, MoveRecorded, Entry, At
  <2> QED
    BY <1>1, <2>1, <2>2, <2>3 DEF MoveRecorded
<1>2. ASSUME NEW e, NEW s, ReviewRecorded(e, s)
      PROVE  ReviewRecorded(e, s)'
  BY <1>2 DEF RecordsGrow, ReviewRecorded, Entry, At
<1>3. ASSUME NEW f, NEW s, SetByHand(f, s)
      PROVE  SetByHand(f, s)'
  BY <1>3 DEF RecordsGrow, SetByHand, Entry, At
<1> QED
  BY <1>1, <1>2, <1>3

(* A state or a status that is new is recorded in the step that writes it. *)
Recorded(f) == finding[f] \notin {"NONE", "candidate"} => MoveRecorded(f, finding[f])
Reviewed(e) == evidence[e].status # "unreviewed" => ReviewRecorded(e, evidence[e].status)

LEMMA FindingRecorded ==
  ASSUME TypeOK, NEW q \in Reqs, FindingStep(q), NEW f \in Findings, Recorded(f)
  PROVE  Recorded(f)'
<1>1. CASE finding'[f] = finding[f]
  BY <1>1, FindingGrow, RecordsStay DEF Recorded
<1>2. CASE finding'[f] # finding[f] /\ CommitUpdate(q)
  <2>1. req[q] \in UpdateReq /\ req[q].op # "none"
    BY <1>2, RequestKinds DEF CommitUpdate, At
  <2>2. /\ f = req[q].id /\ finding'[f] = req[q].to /\ StateChanges(req[q])
    BY <1>2, <2>1 DEF CommitUpdate, Written, StateChanges, TypeOK
  <2>3. req' = [req EXCEPT ![q] = [req[q] EXCEPT !.pc = "audit"]]
    BY <1>2, <2>2 DEF CommitUpdate, GoTo
  <2>4. req'[q] = [req[q] EXCEPT !.pc = "audit"]
    BY <2>3 DEF TypeOK
  <2>5. req'[q].op = "update" /\ req'[q].pc = "audit" /\ req'[q].id = f /\ req'[q].to = finding'[f]
    BY <2>1, <2>2, <2>4 DEF UpdateReq
  <2> QED
    BY <2>5 DEF Recorded, MoveRecorded, At
<1>3. CASE finding'[f] # finding[f] /\ CommitVerification(q)
  <2>1. req[q] \in VerifyReq
    BY <1>3, RequestKinds DEF CommitVerification, At
  <2> DEFINE v == req[q].verification
  <2>2. f = req[q].id /\ finding'[f] = MovedTo(v.result) /\ v.result \in Moves
    BY <1>3, <2>1 DEF CommitVerification, Written, TypeOK
  <2>3. verifications'[f] = Append(verifications[f], v)
    BY <1>3, <2>2 DEF CommitVerification, TypeOK
  <2>4. verifications[f] \in Seq(Verification) /\ v \in Verification
    BY <2>1 DEF TypeOK, VerifyReq
  <2>5. /\ Len(verifications'[f]) \in 1 .. Len(verifications'[f])
        /\ verifications'[f][Len(verifications'[f])] = v
    BY <2>3, <2>4
  <2> QED
    BY <2>2, <2>5 DEF Recorded, MoveRecorded
<1>4. CASE AuditCreate(q) \/ AuditUpdate(q)
  BY <1>1, <1>4 DEF AuditCreate, AuditUpdate
<1> QED
  BY <1>1, <1>2, <1>3, <1>4 DEF FindingStep

LEMMA EvidenceReviewed ==
  ASSUME TypeOK, NEW q \in Reqs, EvidenceStep(q), NEW e \in Evidence, Reviewed(e)
  PROVE  Reviewed(e)'
<1>1. CASE evidence'[e].status = evidence[e].status
  BY <1>1, EvidenceGrow, RecordsStay DEF Reviewed
<1>2. CASE evidence'[e].status # evidence[e].status /\ CommitReview(q)
  <2>1. req[q] \in ReviewReq
    BY <1>2, RequestKinds DEF CommitReview, At
  <2>2. e = req[q].id /\ evidence'[e].status = req[q].status
    <3>1. evidence \in [Evidence -> Row]
      BY DEF TypeOK
    <3>2. e = req[q].id
      BY <1>2, <3>1 DEF CommitReview
    <3>3. evidence'[e].status = Written(evidence[e].status, req[q].row.status, req[q].status)
      BY <1>2, <3>1, <3>2 DEF CommitReview, Row
    <3> QED
      BY <1>2, <3>2, <3>3 DEF Written
  <2>3. req'[q] = [req[q] EXCEPT !.pc = "audit"]
    BY <1>2 DEF CommitReview, GoTo, TypeOK
  <2>4. req'[q].op = "review" /\ req'[q].pc = "audit" /\ req'[q].id = e /\ req'[q].status = evidence'[e].status
    BY <2>1, <2>2, <2>3 DEF ReviewReq
  <2> QED
    BY <2>4 DEF Reviewed, ReviewRecorded, At
<1>3. CASE StoreObject(q) \/ CommitPath(q) \/ AuditUpload(q) \/ AuditReview(q)
  <2>1. evidence \in [Evidence -> Row]
    BY DEF TypeOK
  <2>2. evidence'[e].status = evidence[e].status
    BY <1>3, <2>1 DEF StoreObject, CommitPath, AuditUpload, AuditReview, Row
  <2> QED
    BY <1>1, <2>2
<1> QED
  BY <1>1, <1>2, <1>3 DEF EvidenceStep

LEMMA RequestsRecorded ==
  ASSUME TypeOK, NEW q \in Reqs, Requests(q)
  PROVE  /\ \A f \in Findings : Recorded(f) => Recorded(f)'
         /\ \A e \in Evidence : Reviewed(e) => Reviewed(e)'
<1>1. \A f \in Findings : finding'[f] = finding[f] \/ finding'[f] = "candidate"
  BY DEF Requests, upload_evidence, verify_evidence, create_finding, update_finding,
         verify_finding, link_findings, export_report, TypeOK
<1>2. \A e \in Evidence : evidence'[e].status \in {evidence[e].status, "unreviewed"}
  BY DEF Requests, upload_evidence, verify_evidence, create_finding, update_finding,
         verify_finding, link_findings, export_report, TypeOK, InsertedRow, FreshRow, NoRow
<1> QED
  BY <1>1, <1>2, RequestsGrow, RecordsStay DEF Recorded, Reviewed

(* While the API does not stop, every state of a finding and every status  *)
(* of an artifact has its record, whatever the requests overlap with.      *)
THEOREM StatesTraced == Spec => []StateTraceable
<1>1. Init => StateTraceable
  BY DEF Init, StateTraceable, NoRow, FreshRow
<1>2. TypeOK /\ StateTraceable /\ [Next]_vars => StateTraceable'
  <2> SUFFICES ASSUME TypeOK, StateTraceable, [Next]_vars, used'.api = 0
               PROVE  /\ \A f \in Findings : Recorded(f)'
                      /\ \A e \in Evidence : Reviewed(e)'
    BY DEF StateTraceable, Recorded, Reviewed
  <2>1. ASSUME used'.api = used.api
        PROVE  (\A f \in Findings : Recorded(f)) /\ (\A e \in Evidence : Reviewed(e))
    BY <2>1 DEF StateTraceable, Recorded, Reviewed
  <2>2. ASSUME NEW q \in Reqs, Requests(q)
        PROVE  (\A f \in Findings : Recorded(f)') /\ (\A e \in Evidence : Reviewed(e)')
    <3>1. used'.api = used.api
      BY <2>2 DEF Requests, upload_evidence, verify_evidence, create_finding, update_finding,
                  verify_finding, link_findings, export_report, Begin, TypeOK
    <3> QED
      BY <2>1, <2>2, <3>1, RequestsRecorded
  <2>3. ASSUME NEW q \in Reqs, EvidenceStep(q)
        PROVE  (\A f \in Findings : Recorded(f)') /\ (\A e \in Evidence : Reviewed(e)')
    <3>1. used'.api = used.api /\ finding' = finding
      BY <2>3 DEF EvidenceStep, StoreObject, CommitPath, AuditUpload, CommitReview, AuditReview, TypeOK
    <3> QED
      BY <2>1, <2>3, <3>1, EvidenceReviewed, EvidenceGrow, RecordsStay DEF Recorded
  <2>4. ASSUME NEW q \in Reqs, FindingStep(q)
        PROVE  (\A f \in Findings : Recorded(f)') /\ (\A e \in Evidence : Reviewed(e)')
    <3>1. used'.api = used.api /\ evidence' = evidence
      BY <2>4 DEF FindingStep, AuditCreate, CommitUpdate, AuditUpdate, CommitVerification
    <3> QED
      BY <2>1, <2>4, <3>1, FindingRecorded, FindingGrow, RecordsStay DEF Reviewed
  <2>5. ASSUME NEW q \in Reqs, ReportStep(q)
        PROVE  (\A f \in Findings : Recorded(f)') /\ (\A e \in Evidence : Reviewed(e)')
    <3>1. used'.api = used.api /\ evidence' = evidence /\ finding' = finding
      BY <2>5 DEF ReportStep, InsertLinks, ExportVerifications, ExportEvidence, ExportAnswer
    <3> QED
      BY <2>1, <2>5, <3>1, ReportGrow, RecordsStay DEF Recorded, Reviewed
  <2>6. CASE ApiCrash
    <3>1. used'.api = used.api + 1 /\ used.api \in Nat
      BY <2>6 DEF ApiCrash, TypeOK
    <3> QED
      BY <3>1
  <2>7. CASE UNCHANGED vars
    BY <2>1, <2>7 DEF vars, Recorded, Reviewed, MoveRecorded, ReviewRecorded, At
  <2> QED
    BY <2>2, <2>3, <2>4, <2>5, <2>6, <2>7 DEF Next
<1> QED
  BY <1>1, <1>2, TypeCorrect, PTL DEF Spec

-----------------------------------------------------------------------------
(* Reviews: what is not there has not been reviewed, and an upload leaves  *)
(* the status of what is there alone.                                      *)

UnreviewedInv ==
  /\ \A e \in Evidence : ~ evidence[e].exists => evidence[e].status = "unreviewed"
  /\ \A q \in Reqs : req[q].op = "review" => evidence[req[q].id].exists

Judged(e) ==
  evidence'[e].status # evidence[e].status
    => \E q \in Reqs : At(q, "review", "write") /\ req[q].id = e /\ req[q].status = evidence'[e].status

LEMMA EvidenceJudged ==
  ASSUME TypeOK, NEW q \in Reqs, EvidenceStep(q), NEW e \in Evidence
  PROVE  Judged(e) /\ (evidence[e].exists => evidence'[e].exists)
<1>1. evidence \in [Evidence -> Row]
  BY DEF TypeOK
<1>2. CASE CommitReview(q)
  <2>1. req[q] \in ReviewReq
    BY <1>2, RequestKinds DEF CommitReview, At
  <2>2. CASE e # req[q].id
    BY <1>1, <1>2, <2>2 DEF CommitReview, Judged
  <2>3. CASE e = req[q].id
    <3>1. /\ evidence'[e].status = Written(evidence[e].status, req[q].row.status, req[q].status)
          /\ evidence'[e].exists = evidence[e].exists
      BY <1>1, <1>2, <2>3 DEF CommitReview, Row
    <3> QED
      BY <1>2, <2>3, <3>1 DEF CommitReview, Judged, Written
  <2> QED
    BY <2>2, <2>3
<1>3. CASE StoreObject(q) \/ CommitPath(q) \/ AuditUpload(q) \/ AuditReview(q)
  BY <1>1, <1>3 DEF StoreObject, CommitPath, AuditUpload, AuditReview, Row, Judged
<1> QED
  BY <1>2, <1>3 DEF EvidenceStep

LEMMA RequestsJudged ==
  ASSUME TypeOK, UnreviewedInv, NEW q \in Reqs, Requests(q)
  PROVE  UnreviewedInv' /\ \A e \in Evidence : Judged(e)
<1>1. ASSUME NEW e \in Evidence
      PROVE  /\ evidence[e].exists => evidence'[e].exists
             /\ evidence'[e].status = evidence[e].status
  <2>1. \/ evidence' = evidence
        \/ \E x \in Evidence : ~ evidence[x].exists /\ evidence' = [evidence EXCEPT ![x] = FreshRow]
    BY DEF Requests, upload_evidence, verify_evidence, create_finding, update_finding,
           verify_finding, link_findings, export_report, InsertedRow
  <2>2. FreshRow.exists /\ FreshRow.status = "unreviewed"
    BY DEF FreshRow, NoRow
  <2>3. evidence \in [Evidence -> Row]
    BY DEF TypeOK
  <2> QED
    BY <2>1, <2>2, <2>3 DEF UnreviewedInv
<1>2. /\ \A p \in Reqs \ {q} : req'[p] = req[p]
      /\ req'[q].op = "review" => req'[q].id \in Evidence /\ evidence[req'[q].id].exists
  BY DEF Requests, upload_evidence, verify_evidence, create_finding, update_finding,
         verify_finding, link_findings, export_report, Begin, TypeOK
<1>3. \A p \in Reqs : req[p].op = "review" => req[p].id \in Evidence
  BY RequestKinds DEF ReviewReq
<1> QED
  BY <1>1, <1>2, <1>3 DEF UnreviewedInv, Judged

LEMMA EvidenceStepJudged ==
  ASSUME TypeOK, UnreviewedInv, NEW q \in Reqs, EvidenceStep(q)
  PROVE  UnreviewedInv' /\ \A e \in Evidence : Judged(e)
<1>1. \A e \in Evidence : Judged(e) /\ (evidence[e].exists => evidence'[e].exists)
  BY EvidenceJudged
<1>2. \A p \in Reqs : req[p].op = "review" => req[p].id \in Evidence
  BY RequestKinds DEF ReviewReq
<1>3. \A e \in Evidence : ~ evidence'[e].exists => evidence'[e].status = "unreviewed"
  BY <1>1, <1>2 DEF UnreviewedInv, Judged, At
<1>4. \A p \in Reqs : req'[p].op = "review" => req[p].op = "review" /\ req'[p].id = req[p].id
  BY GoToSlots, AnswerSlots
  DEF EvidenceStep, StoreObject, CommitPath, AuditUpload, CommitReview, AuditReview, At, Idle
<1> QED
  BY <1>1, <1>2, <1>3, <1>4 DEF UnreviewedInv

LEMMA OtherStepJudged ==
  ASSUME TypeOK, UnreviewedInv, NEW q \in Reqs, FindingStep(q) \/ ReportStep(q)
  PROVE  UnreviewedInv' /\ \A e \in Evidence : Judged(e)
<1>1. evidence' = evidence
  BY DEF FindingStep, AuditCreate, CommitUpdate, AuditUpdate, CommitVerification,
         ReportStep, InsertLinks, ExportVerifications, ExportEvidence, ExportAnswer
<1>2. req'[q].op # "review" /\ \A p \in Reqs \ {q} : req'[p] = req[p]
  <2>1. CASE FindingStep(q)
    BY <2>1, GoToSlots, AnswerSlots
    DEF FindingStep, AuditCreate, CommitUpdate, AuditUpdate, CommitVerification, Idle, At
  <2>2. CASE InsertLinks(q) \/ ExportAnswer(q)
    BY <2>2, AnswerSlots DEF InsertLinks, ExportAnswer, Idle
  <2>3. CASE ExportVerifications(q) \/ ExportEvidence(q)
    BY <2>3, ExportSlots
  <2> QED
    BY <2>1, <2>2, <2>3 DEF ReportStep
<1> QED
  BY <1>1, <1>2 DEF UnreviewedInv, Judged

LEMMA StepJudged ==
  ASSUME TypeOK, UnreviewedInv, [Next]_vars
  PROVE  UnreviewedInv' /\ \A e \in Evidence : Judged(e)
<1>1. CASE ApiCrash
  BY <1>1 DEF ApiCrash, UnreviewedInv, Judged, Idle
<1>2. CASE UNCHANGED vars
  BY <1>2 DEF vars, UnreviewedInv, Judged
<1> QED
  BY <1>1, <1>2, RequestsJudged, EvidenceStepJudged, OtherStepJudged DEF Next

(* The status of an artifact changes only to what some review asks for:    *)
(* no upload that ends late, and no other request, undoes a review.        *)
THEOREM ReviewsStand == Spec => OnlyReviewsJudge
<1>1. Init => UnreviewedInv
  BY DEF Init, UnreviewedInv, NoRow, FreshRow, Idle
<1>2. TypeOK /\ UnreviewedInv /\ [Next]_vars => UnreviewedInv'
  BY StepJudged
<1>3. TypeOK /\ UnreviewedInv /\ [Next]_vars
        => [\A e \in Evidence :
              evidence'[e].status # evidence[e].status
                => \E q \in Reqs : /\ At(q, "review", "write")
                                   /\ req[q].id = e
                                   /\ req[q].status = evidence'[e].status]_vars
  BY StepJudged DEF Judged
<1> QED
  BY <1>1, <1>2, <1>3, TypeCorrect, PTL DEF Spec, OnlyReviewsJudge

-----------------------------------------------------------------------------
(* Exports: what a verification cites is there or was made up, and a       *)
(* finding that an export shows as verified was confirmed on evidence the  *)
(* export has seen, as far as there is any.                                *)

(* One of these verifications confirmed the finding, and what there is of  *)
(* the evidence it cites is in S.                                          *)
ConfirmedOn(list, S) ==
  \E i \in 1 .. Len(list) : list[i].result = "confirmed" /\ list[i].cites \ MadeUp \subseteq S

CitesInv ==
  /\ \A f \in Findings : \A i \in 1 .. Len(verifications[f]) : verifications[f][i].cites \subseteq Artifacts \union MadeUp
  /\ \A q \in Reqs : req[q].op = "verify" => req[q].verification.cites \subseteq Artifacts \union MadeUp

(* The evidence an export may still show: any, until it has read what is cited. *)
MayShow(d) == IF d.pc = "verifications" THEN Evidence ELSE d.cited

ShownIsProved(q) ==
  req[q].op = "export" =>
    \A f \in DOMAIN req[q].shown :
      req[q].shown[f] = "verified"
        => SetByHand(f, "verified") \/ ConfirmedOn(verifications[f], MayShow(req[q]))

ExportInv == used.api = 0 => \A q \in Reqs : ShownIsProved(q)

(* Artifacts are never deleted. *)
LEMMA ArtifactsGrow == TypeOK /\ [Next]_vars => Artifacts \subseteq Artifacts'
<1> SUFFICES ASSUME TypeOK, [Next]_vars, NEW e \in Evidence, evidence[e].exists
             PROVE  evidence'[e].exists
  BY DEF Artifacts
<1>1. evidence \in [Evidence -> Row]
  BY DEF TypeOK
<1>2. ASSUME NEW q \in Reqs, Requests(q) PROVE evidence'[e].exists
  BY <1>1, <1>2 DEF Requests, upload_evidence, verify_evidence, create_finding, update_finding,
     verify_finding, link_findings, export_report
<1>3. ASSUME NEW q \in Reqs, EvidenceStep(q) PROVE evidence'[e].exists
  BY <1>3, EvidenceJudged
<1>4. ASSUME NEW q \in Reqs, FindingStep(q) \/ ReportStep(q) PROVE evidence'[e].exists
  BY <1>4 DEF FindingStep, AuditCreate, CommitUpdate, AuditUpdate, CommitVerification,
     ReportStep, InsertLinks, ExportVerifications, ExportEvidence, ExportAnswer
<1>5. CASE ApiCrash \/ UNCHANGED vars
  BY <1>5 DEF ApiCrash, vars
<1> QED
  BY <1>2, <1>3, <1>4, <1>5 DEF Next

(* A step of a handler leaves its slot in the same kind of request or idle. *)
LEMMA StepKeepsKind ==
  ASSUME TypeOK, NEW q \in Reqs, EvidenceStep(q) \/ FindingStep(q) \/ ReportStep(q)
  PROVE  /\ \A p \in Reqs \ {q} : req'[p] = req[p]
         /\ req'[q].op # "verify"
         /\ req'[q].op = "export" => ExportVerifications(q) \/ ExportEvidence(q)
<1>1. CASE EvidenceStep(q)
  BY <1>1, GoToSlots, AnswerSlots
  DEF EvidenceStep, StoreObject, CommitPath, AuditUpload, CommitReview, AuditReview, Idle, At
<1>2. CASE FindingStep(q)
  BY <1>2, GoToSlots, AnswerSlots
  DEF FindingStep, AuditCreate, CommitUpdate, AuditUpdate, CommitVerification, Idle, At
<1>3. CASE InsertLinks(q) \/ ExportAnswer(q)
  BY <1>3, AnswerSlots DEF InsertLinks, ExportAnswer, Idle
<1>4. CASE ExportVerifications(q) \/ ExportEvidence(q)
  BY <1>4, ExportSlots
<1> QED
  BY <1>1, <1>2, <1>3, <1>4 DEF ReportStep

LEMMA NextCitesInv == TypeOK /\ CitesInv /\ [Next]_vars => CitesInv'
<1> SUFFICES ASSUME TypeOK, CitesInv, [Next]_vars PROVE CitesInv'
  OBVIOUS
<1>1. Artifacts \subseteq Artifacts'
  BY ArtifactsGrow
<1>2. ASSUME NEW q \in Reqs, Requests(q) PROVE CitesInv'
  <2>1. verifications' = verifications
    BY <1>2 DEF Requests, upload_evidence, verify_evidence, create_finding, update_finding,
       verify_finding, link_findings, export_report
  <2>2. /\ \A p \in Reqs \ {q} : req'[p] = req[p]
        /\ req'[q].op = "verify" => req'[q].verification.cites \subseteq Artifacts \union MadeUp
    BY <1>2 DEF Requests, upload_evidence, verify_evidence, create_finding, update_finding,
       verify_finding, link_findings, export_report, Begin, TypeOK
  <2> QED
    BY <1>1, <2>1, <2>2 DEF CitesInv
<1>3. ASSUME NEW q \in Reqs, EvidenceStep(q) \/ FindingStep(q) \/ ReportStep(q) PROVE CitesInv'
  <2>1. \A p \in Reqs : req'[p].op = "verify" => req'[p] = req[p]
    BY <1>3, StepKeepsKind
  <2>2. ASSUME NEW f \in Findings, NEW i \in 1 .. Len(verifications'[f])
        PROVE  verifications'[f][i].cites \subseteq Artifacts \union MadeUp
    <3>1. CASE CommitVerification(q)
      <4>1. /\ req[q].op = "verify" /\ req[q].verification \in Verification
            /\ verifications[f] \in Seq(Verification)
        BY <3>1, RequestKinds DEF CommitVerification, At, VerifyReq, TypeOK
      <4>2. \/ verifications'[f] = verifications[f]
            \/ verifications'[f] = Append(verifications[f], req[q].verification)
        BY <3>1 DEF CommitVerification, TypeOK
      <4>3. CASE verifications'[f] = verifications[f]
        BY <4>3 DEF CitesInv
      <4>4. CASE verifications'[f] = Append(verifications[f], req[q].verification)
        <5>1. \/ i \in 1 .. Len(verifications[f]) /\ verifications'[f][i] = verifications[f][i]
              \/ verifications'[f][i] = req[q].verification
          BY <4>1, <4>4
        <5> QED
          BY <4>1, <5>1 DEF CitesInv
      <4> QED
        BY <4>2, <4>3, <4>4
    <3>2. CASE ~ CommitVerification(q)
      <4>1. verifications' = verifications
        BY <1>3, <3>2
        DEF EvidenceStep, StoreObject, CommitPath, AuditUpload, CommitReview, AuditReview,
            FindingStep, AuditCreate, CommitUpdate, AuditUpdate,
            ReportStep, InsertLinks, ExportVerifications, ExportEvidence, ExportAnswer
      <4> QED
        BY <4>1 DEF CitesInv
    <3> QED
      BY <3>1, <3>2
  <2> QED
    BY <1>1, <2>1, <2>2 DEF CitesInv
<1>4. CASE ApiCrash
  BY <1>1, <1>4 DEF CitesInv, ApiCrash, Idle
<1>5. CASE UNCHANGED vars
  BY <1>1, <1>5 DEF CitesInv, vars
<1> QED
  BY <1>2, <1>3, <1>4, <1>5 DEF Next

(* What an export holds stays proved while others go on. *)
LEMMA ProvedStays ==
  ASSUME TypeOK, NEW q \in Reqs, RecordsGrow(q), NEW f \in Findings
  PROVE  /\ SetByHand(f, "verified") => SetByHand(f, "verified")'
         /\ \A S : ConfirmedOn(verifications[f], S) => ConfirmedOn(verifications'[f], S)
<1>1. SetByHand(f, "verified") => SetByHand(f, "verified")'
  BY RecordsStay
<1>2. ASSUME NEW S, ConfirmedOn(verifications[f], S) PROVE ConfirmedOn(verifications'[f], S)
  BY <1>2 DEF ConfirmedOn, RecordsGrow
<1> QED
  BY <1>1, <1>2

LEMMA OthersProved ==
  ASSUME TypeOK, NEW q \in Reqs, RecordsGrow(q), NEW p \in Reqs \ {q}, ShownIsProved(p)
  PROVE  ShownIsProved(p)'
<1> SUFFICES ASSUME req'[p].op = "export", NEW f \in DOMAIN req'[p].shown, req'[p].shown[f] = "verified"
             PROVE  SetByHand(f, "verified")' \/ ConfirmedOn(verifications'[f], MayShow(req'[p]))
  BY DEF ShownIsProved, MayShow
<1>1. req'[p] = req[p]
  BY DEF RecordsGrow
<1>2. f \in Findings
  BY <1>1, RequestKinds DEF ExportReq
<1>3. SetByHand(f, "verified") \/ ConfirmedOn(verifications[f], MayShow(req[p]))
  BY <1>1 DEF ShownIsProved
<1> QED
  BY <1>1, <1>2, <1>3, ProvedStays

(* An export begins with states that all have their record. *)
LEMMA ExportBegins ==
  ASSUME TypeOK, NEW q \in Reqs, NEW r \in Reports, export_report(q, r), \A f \in Findings : Recorded(f)
  PROVE  ShownIsProved(q)'
<1>1. /\ req'[q].pc = "verifications" /\ DOMAIN req'[q].shown \subseteq Findings
      /\ \A f \in DOMAIN req'[q].shown : req'[q].shown[f] = finding[f]
  <2>1. req'[q] = [op |-> "export", pc |-> "verifications", id |-> r,
                   shown |-> [f \in AlreadyLinked(r) |-> finding[f]], cited |-> {}]
    BY DEF export_report, Begin, TypeOK
  <2> QED
    BY <2>1 DEF AlreadyLinked
<1> SUFFICES ASSUME NEW f \in Findings, finding[f] = "verified"
             PROVE  SetByHand(f, "verified") \/ ConfirmedOn(verifications[f], Evidence)
  <2>1. RecordsGrow(q)
    BY RequestsGrow DEF Requests
  <2>2. MayShow(req'[q]) = Evidence
    BY <1>1 DEF MayShow
  <2> QED
    BY <1>1, <2>1, <2>2, ProvedStays DEF ShownIsProved, MayShow
<1>2. MoveRecorded(f, "verified")
  BY DEF Recorded
<1>3. ASSUME NEW i \in 1 .. Len(verifications[f]), verifications[f][i].result \in Moves,
             MovedTo(verifications[f][i].result) = "verified"
      PROVE  ConfirmedOn(verifications[f], Evidence)
  <2>1. verifications[f] \in Seq(Verification)
    BY DEF TypeOK
  <2>2. verifications[f][i] \in Verification
    BY <2>1
  <2>3. verifications[f][i].result = "confirmed"
    BY <1>3 DEF MovedTo
  <2>4. verifications[f][i].cites \ MadeUp \subseteq Evidence
    BY <2>2 DEF Verification, CitedId
  <2> QED
    BY <2>3, <2>4 DEF ConfirmedOn
<1> QED
  BY <1>2, <1>3 DEF MoveRecorded, SetByHand

(* An export that reads on keeps the evidence of the confirmation it needs. *)
LEMMA ExportReadsOn ==
  ASSUME TypeOK, CitesInv, NEW q \in Reqs, ExportVerifications(q) \/ ExportEvidence(q), ShownIsProved(q)
  PROVE  ShownIsProved(q)'
<1> DEFINE d  == req[q]
           d1 == req'[q]
<1>1. d \in ExportReq /\ d.op = "export" /\ DOMAIN d.shown \subseteq Findings
  BY RequestKinds DEF ExportVerifications, ExportEvidence, At, ExportReq
<1>2. d1.shown = d.shown /\ verifications' = verifications
  BY ExportSlots DEF ExportVerifications, ExportEvidence
<1>3. ASSUME NEW f \in DOMAIN d.shown PROVE SetByHand(f, "verified") => SetByHand(f, "verified")'
  <2>1. RecordsGrow(q)
    BY ReportGrow DEF ReportStep
  <2> QED
    BY <1>1, <2>1, ProvedStays
<1>4. ASSUME NEW f \in DOMAIN d.shown, ConfirmedOn(verifications[f], MayShow(d))
      PROVE  ConfirmedOn(verifications[f], MayShow(d1))
  <2>1. PICK i \in 1 .. Len(verifications[f]) :
               verifications[f][i].result = "confirmed" /\ verifications[f][i].cites \ MadeUp \subseteq MayShow(d)
    BY <1>4 DEF ConfirmedOn
  <2>2. f \in Findings /\ verifications[f][i].cites \subseteq Artifacts \union MadeUp
    BY <1>1 DEF CitesInv
  <2>3. req \in [Reqs -> Request]
    BY DEF TypeOK
  <2>4. CASE ExportVerifications(q)
    <3>1. d1 = [d EXCEPT !.pc = "evidence", !.cited = UNION {CitedBy(g) : g \in DOMAIN d.shown}]
      BY <2>3, <2>4 DEF ExportVerifications
    <3>2. MayShow(d1) = UNION {CitedBy(g) : g \in DOMAIN d.shown}
      BY <1>1, <3>1 DEF MayShow, ExportReq
    <3>3. verifications[f][i].cites \subseteq CitedBy(f)
      BY DEF CitedBy
    <3> HIDE DEF d, d1
    <3>4. verifications[f][i].cites \ MadeUp \subseteq MayShow(d1)
      BY <3>2, <3>3
    <3> QED
      BY <2>1, <3>4 DEF ConfirmedOn
  <2>5. CASE ExportEvidence(q)
    <3>1. d.pc = "evidence" /\ d1 = [d EXCEPT !.pc = "answer", !.cited = d.cited \intersect Artifacts]
      BY <2>3, <2>5 DEF ExportEvidence, At
    <3>2. MayShow(d) = d.cited /\ MayShow(d1) = d.cited \intersect Artifacts
      BY <1>1, <3>1 DEF MayShow, ExportReq
    <3> QED
      BY <2>1, <2>2, <3>2 DEF ConfirmedOn
  <2> QED
    BY <2>4, <2>5
<1> HIDE DEF d, d1
<1>5. \A f \in DOMAIN d1.shown :
        d1.shown[f] = "verified" => SetByHand(f, "verified")' \/ ConfirmedOn(verifications'[f], MayShow(d1))
  <2>1. \A f \in DOMAIN d.shown :
          d.shown[f] = "verified" => SetByHand(f, "verified") \/ ConfirmedOn(verifications[f], MayShow(d))
    BY <1>1 DEF ShownIsProved, d
  <2> QED
    BY <1>2, <1>3, <1>4, <2>1
<1> QED
  BY <1>5 DEF ShownIsProved, MayShow, d1

LEMMA NextExportInv == TypeOK /\ CitesInv /\ StateTraceable /\ ExportInv /\ [Next]_vars => ExportInv'
<1> SUFFICES ASSUME TypeOK, CitesInv, StateTraceable, ExportInv, [Next]_vars, used'.api = 0
             PROVE  \A q \in Reqs : ShownIsProved(q)'
  BY DEF ExportInv
<1>1. ASSUME used'.api = used.api
      PROVE  (\A q \in Reqs : ShownIsProved(q)) /\ (\A f \in Findings : Recorded(f))
  BY <1>1 DEF ExportInv, StateTraceable, Recorded
<1>2. ASSUME NEW q \in Reqs, Requests(q) PROVE \A p \in Reqs : ShownIsProved(p)'
  <2>1. used'.api = used.api
    BY <1>2 DEF Requests, upload_evidence, verify_evidence, create_finding, update_finding,
       verify_finding, link_findings, export_report, Begin, TypeOK
  <2>2. \A p \in Reqs \ {q} : ShownIsProved(p)'
    BY <1>1, <1>2, <2>1, RequestsGrow, OthersProved
  <2>3. CASE \E r \in Reports : export_report(q, r)
    BY <1>1, <2>1, <2>2, <2>3, ExportBegins
  <2>4. CASE ~ \E r \in Reports : export_report(q, r)
    <3>1. req'[q].op # "export"
      BY <1>2, <2>4 DEF Requests, upload_evidence, verify_evidence, create_finding, update_finding,
         verify_finding, link_findings, Begin, TypeOK
    <3> QED
      BY <2>2, <3>1 DEF ShownIsProved
  <2> QED
    BY <2>3, <2>4
<1>3. ASSUME NEW q \in Reqs, EvidenceStep(q) \/ FindingStep(q) \/ ReportStep(q)
      PROVE  \A p \in Reqs : ShownIsProved(p)'
  <2>1. used'.api = used.api
    BY <1>3 DEF EvidenceStep, StoreObject, CommitPath, AuditUpload, CommitReview, AuditReview,
       FindingStep, AuditCreate, CommitUpdate, AuditUpdate, CommitVerification,
       ReportStep, InsertLinks, ExportVerifications, ExportEvidence, ExportAnswer, TypeOK
  <2>2. \A p \in Reqs \ {q} : ShownIsProved(p)'
    BY <1>1, <1>3, <2>1, EvidenceGrow, FindingGrow, ReportGrow, OthersProved
  <2>3. ShownIsProved(q)'
    <3>1. CASE ExportVerifications(q) \/ ExportEvidence(q)
      BY <1>1, <2>1, <3>1, ExportReadsOn
    <3>2. CASE ~ (ExportVerifications(q) \/ ExportEvidence(q))
      BY <1>3, <3>2, StepKeepsKind DEF ShownIsProved
    <3> QED
      BY <3>1, <3>2
  <2> QED
    BY <2>2, <2>3
<1>4. CASE ApiCrash
  <2>1. used'.api = used.api + 1 /\ used.api \in Nat
    BY <1>4 DEF ApiCrash, TypeOK
  <2> QED
    BY <2>1
<1>5. CASE UNCHANGED vars
  BY <1>1, <1>5 DEF vars, ShownIsProved, MayShow, SetByHand, ConfirmedOn, At
<1> QED
  BY <1>2, <1>3, <1>4, <1>5 DEF Next

(* ExportedProof, for any artifacts, findings and requests in flight: the  *)
(* three reads of export_report happen at three moments, but each looks  *)
(* at what only grows, and later than the one whose answer it completes.   *)
THEOREM ExportsShowTheProof == Spec => []ExportedProof
<1>1. Init => CitesInv /\ ExportInv
  BY DEF Init, CitesInv, ExportInv, ShownIsProved, Idle
<1>2. TypeOK /\ CitesInv /\ [Next]_vars => CitesInv'
  BY NextCitesInv
<1>3. TypeOK /\ CitesInv /\ StateTraceable /\ ExportInv /\ [Next]_vars => ExportInv'
  BY NextExportInv
<1>4. ExportInv => ExportedProof
  BY DEF ExportInv, ShownIsProved, MayShow, ConfirmedOn, ExportedProof, At
<1> QED
  BY <1>1, <1>2, <1>3, <1>4, TypeCorrect, StatesTraced, PTL DEF Spec

-----------------------------------------------------------------------------
(* Links: a link request that does not know a link yet was there when      *)
(* there was none, and there are only so many requests.                    *)

(* A non-empty set of naturals with a bound has a largest member: the one  *)
(* with the fewest above it.                                               *)
LEMMA LargestExists ==
  ASSUME NEW S \in SUBSET Nat, S # {}, NEW n \in Nat, \A x \in S : x <= n
  PROVE  \E m \in S : \A x \in S : x <= m
<1> DEFINE Above(x) == {y \in S : y > x}
           T == {Above(x) : x \in S}
<1>1. IsFiniteSet(S)
  <2>1. S \subseteq 0 .. n
    OBVIOUS
  <2>2. IsFiniteSet(0 .. n)
    BY FS_Interval
  <2> QED
    BY <2>1, <2>2, FS_Subset
<1>2. T \subseteq SUBSET S /\ T # {}
  OBVIOUS
<1>3. IsWellFoundedOn(StrictSubsetOrdering(S), SUBSET S)
  BY <1>1, FS_FiniteSubsetsOfFinite, FS_StrictSubsetOrderingWellFounded
<1>4. \E Z \in T : \A Y \in T : ~ (<<Y, Z>> \in StrictSubsetOrdering(S))
  <2> HIDE DEF T
  <2> QED
    BY <1>2, <1>3, WFMin
<1>5. PICK m \in S : \A x \in S : ~ (<<Above(x), Above(m)>> \in StrictSubsetOrdering(S))
  BY <1>4
<1>6. ASSUME NEW x \in S, x > m PROVE FALSE
  <2>0. \A y \in S : (y > x => y > m) /\ ~ (x > x)
    BY <1>6
  <2>1. Above(x) \subseteq Above(m) /\ x \in Above(m) /\ x \notin Above(x)
    BY <1>6, <2>0
  <2>2. Above(x) \in SUBSET S /\ Above(m) \in SUBSET S /\ Above(x) # Above(m)
    BY <2>1
  <2> HIDE DEF Above
  <2> QED
    BY <1>5, <2>1, <2>2 DEF StrictSubsetOrdering
<1> QED
  BY <1>6

LEMMA OccurrencesType ==
  ASSUME NEW list \in Seq(Findings), NEW f \in Findings
  PROVE  Occurrences(f, list) \in Nat
<1>1. {i \in 1 .. Len(list) : list[i] = f} \subseteq 1 .. Len(list)
  OBVIOUS
<1>2. IsFiniteSet(1 .. Len(list))
  BY FS_Interval
<1> QED
  BY <1>1, <1>2, FS_Subset, FS_CardinalityType DEF Occurrences

(* If no list repeats a finding more than n times, MostRepeated is the least such n. *)
LEMMA MostRepeatedBounds ==
  ASSUME LinkLists # {}, Findings # {}, NEW n \in Nat,
         \A f \in Findings, list \in LinkLists : Occurrences(f, list) <= n
  PROVE  /\ MostRepeated \in Nat
         /\ \A f \in Findings, list \in LinkLists : Occurrences(f, list) <= MostRepeated
<1> DEFINE S == {Occurrences(f, list) : f \in Findings, list \in LinkLists}
<1>1. S \in SUBSET Nat /\ S # {} /\ \A x \in S : x <= n
  <2>1. ASSUME NEW f \in Findings, NEW list \in LinkLists PROVE Occurrences(f, list) \in Nat
    BY ConstantsAssumption, OccurrencesType
  <2>2. ASSUME NEW x \in S PROVE x \in Nat /\ x <= n
    <3>1. PICK f \in Findings, list \in LinkLists : x = Occurrences(f, list)
      OBVIOUS
    <3> QED
      BY <2>1, <3>1
  <2>3. S # {}
    OBVIOUS
  <2> HIDE DEF S
  <2> QED
    BY <2>2, <2>3
<1>2. \E m \in S : \A f \in Findings, list \in LinkLists : Occurrences(f, list) <= m
  <2>1. \E m \in S : \A x \in S : x <= m
    <3> HIDE DEF S
    <3> QED
      BY <1>1, LargestExists
  <2> QED
    BY <2>1
<1>3. MostRepeated = CHOOSE m \in S : \A f \in Findings, list \in LinkLists : Occurrences(f, list) <= m
  BY DEF MostRepeated
<1> HIDE DEF S
<1> QED
  BY <1>1, <1>2, <1>3

(* The requests that are going to link f to r, not knowing of a link. *)
Linking(r, f) == {q \in Reqs : req[q].op = "link" /\ req[q].id = r /\ f \notin req[q].linked}

(* Every such request still has its m rows to add. *)
LinksWithin(r, f, m) == links[r][f] + Cardinality(Linking(r, f)) * m <= Cardinality(Reqs) * m

ListsInv == \A q \in Reqs : req[q].op = "link" => req[q].list \in LinkLists

LEMMA LinkingType ==
  ASSUME TypeOK, NEW r \in Reports, NEW f \in Findings
  PROVE  /\ links[r][f] \in Nat /\ Cardinality(Reqs) \in Nat
         /\ IsFiniteSet(Linking(r, f))
         /\ Cardinality(Linking(r, f)) \in Nat /\ Cardinality(Linking(r, f)) <= Cardinality(Reqs)
<1>1. Linking(r, f) \subseteq Reqs
  BY DEF Linking
<1>2. links[r][f] \in Nat
  BY DEF TypeOK
<1> QED
  BY <1>1, <1>2, FinitenessAssumption, FS_Subset, FS_CardinalityType

(* Fewer requests have less to add. *)
LEMMA Products ==
  ASSUME NEW m \in Nat, NEW a \in Nat, NEW b \in Nat
  PROVE  a * m \in Nat /\ (a <= b => a * m <= b * m) /\ (a + 1) * m = a * m + m
OBVIOUS

LEMMA LinksStay ==
  ASSUME TypeOK, TypeOK', links' = links, NEW r \in Reports, NEW f \in Findings, NEW m \in Nat,
         Linking(r, f)' \subseteq Linking(r, f), LinksWithin(r, f, m)
  PROVE  LinksWithin(r, f, m)'
<1> DEFINE a == Cardinality(Linking(r, f))
           b == Cardinality(Linking(r, f)')
           n == Cardinality(Reqs) * m
<1>1. a \in Nat /\ links[r][f] \in Nat /\ IsFiniteSet(Linking(r, f)) /\ Cardinality(Reqs) \in Nat
  BY LinkingType
<1>2. b \in Nat /\ b <= a
  BY <1>1, FS_Subset, FS_CardinalityType
<1>3. n \in Nat /\ a * m \in Nat /\ b * m \in Nat /\ b * m <= a * m
  BY <1>1, <1>2, Products
<1>4. links[r][f] + a * m <= n
  BY DEF LinksWithin
<1>5. LinksWithin(r, f, m)' <=> links'[r][f] + b * m <= n
  BY DEF LinksWithin
<1> HIDE DEF a, b, n
<1> QED
  BY <1>1, <1>3, <1>4, <1>5

LEMMA LinkBegins ==
  ASSUME TypeOK, TypeOK', NEW q \in Reqs, NEW s \in Reports, NEW list \in LinkLists, link_findings(q, s, list),
         NEW r \in Reports, NEW f \in Findings, NEW m \in Nat, LinksWithin(r, f, m)
  PROVE  LinksWithin(r, f, m)'
<1>1. /\ req[q] = Idle /\ \A p \in Reqs \ {q} : req'[p] = req[p]
      /\ req'[q] = [op |-> "link", pc |-> "write", id |-> s, list |-> list, linked |-> AlreadyLinked(s)]
      /\ links' = links
  BY DEF link_findings, Begin, TypeOK
<1>2. CASE s = r /\ links[r][f] = 0
  <2> DEFINE b == Cardinality(Linking(r, f)')
             c == Cardinality(Reqs)
  <2>1. b \in Nat /\ c \in Nat /\ b <= c
    <3>1. Linking(r, f)' \subseteq Reqs
      BY DEF Linking
    <3> QED
      BY <3>1, FinitenessAssumption, FS_Subset, FS_CardinalityType
  <2>2. b * m \in Nat /\ b * m <= c * m
    BY <2>1, Products
  <2>3. LinksWithin(r, f, m)' <=> links'[r][f] + b * m <= c * m
    BY DEF LinksWithin
  <2> HIDE DEF b, c
  <2> QED
    BY <1>1, <1>2, <2>2, <2>3
<1>3. CASE s # r \/ links[r][f] # 0
  <2>1. links[r][f] \in Nat
    BY LinkingType
  <2>2. links[r][f] # 0 => f \in AlreadyLinked(r)
    BY <2>1 DEF AlreadyLinked
  <2>3. Linking(r, f)' \subseteq Linking(r, f)
    BY <1>1, <1>3, <2>2 DEF Linking
  <2> QED
    BY <1>1, <2>3, LinksStay
<1> QED
  BY <1>2, <1>3

LEMMA LinksInserted ==
  ASSUME TypeOK, ListsInv, NEW q \in Reqs, InsertLinks(q),
         NEW r \in Reports, NEW f \in Findings, NEW m \in Nat,
         \A list \in LinkLists : Occurrences(f, list) <= m, LinksWithin(r, f, m)
  PROVE  LinksWithin(r, f, m)'
<1> DEFINE d == req[q]
           a == Cardinality(Linking(r, f))
           b == Cardinality(Linking(r, f)')
           n == Cardinality(Reqs) * m
           k == Occurrences(f, d.list)
<1>1. d \in LinkReq /\ d.op = "link" /\ d.list \in LinkLists
  BY RequestKinds DEF InsertLinks, At, ListsInv
<1>2. k \in Nat /\ k <= m
  BY <1>1, ConstantsAssumption, OccurrencesType
<1>3. req'[q] = Idle /\ \A p \in Reqs \ {q} : req'[p] = req[p]
  BY AnswerSlots DEF InsertLinks
<1>4. Linking(r, f)' = Linking(r, f) \ {q}
  BY <1>3 DEF Linking, Idle
<1>5. a \in Nat /\ IsFiniteSet(Linking(r, f)) /\ links[r][f] \in Nat /\ Cardinality(Reqs) \in Nat
  BY LinkingType
<1>6. links'[r][f] = IF q \in Linking(r, f) THEN links[r][f] + k ELSE links[r][f]
  <2>1. links \in [Reports -> [Findings -> Nat]]
    BY DEF TypeOK
  <2>2. links' = [links EXCEPT ![d.id] = [g \in Findings |-> IF g \in d.linked THEN links[d.id][g]
                                                             ELSE links[d.id][g] + Occurrences(g, d.list)]]
    BY DEF InsertLinks
  <2>3. q \in Linking(r, f) <=> d.id = r /\ f \notin d.linked
    BY <1>1 DEF Linking
  <2> HIDE DEF d
  <2> QED
    BY <2>1, <2>2, <2>3
<1>7. links[r][f] + a * m <= n
  BY DEF LinksWithin
<1>8. LinksWithin(r, f, m)' <=> links'[r][f] + b * m <= n
  BY DEF LinksWithin
<1>9. CASE q \notin Linking(r, f)
  <2>1. b = a
    BY <1>4, <1>9
  <2> HIDE DEF a, b, n, k
  <2> QED
    BY <1>6, <1>7, <1>8, <1>9, <2>1
<1>10. CASE q \in Linking(r, f)
  <2>1. b \in Nat /\ a = b + 1
    <3>1. IsFiniteSet(Linking(r, f) \ {q}) /\ Cardinality(Linking(r, f) \ {q}) = a - 1
      BY <1>5, <1>10, FS_RemoveElement
    <3>2. b = Cardinality(Linking(r, f) \ {q})
      BY <1>4
    <3>3. b \in Nat
      BY <3>1, <3>2, FS_CardinalityType
    <3> HIDE DEF a, b
    <3> QED
      BY <1>5, <3>1, <3>2, <3>3 DEF a
  <2> HIDE DEF a, b, n, k
  <2>2. n \in Nat /\ b * m \in Nat /\ a * m = b * m + m
    BY <1>5, <2>1, Products DEF n
  <2> QED
    BY <1>2, <1>5, <1>6, <1>7, <1>8, <1>10, <2>2
<1> QED
  BY <1>9, <1>10

LEMMA NextLinks ==
  ASSUME TypeOK, TypeOK', ListsInv, [Next]_vars
  PROVE  /\ ListsInv'
         /\ \A m \in Nat : \A r \in Reports, f \in Findings :
              (\A list \in LinkLists : Occurrences(f, list) <= m) /\ LinksWithin(r, f, m) => LinksWithin(r, f, m)'
<1>1. CASE \E q \in Reqs, s \in Reports, list \in LinkLists : link_findings(q, s, list)
  <2>1. PICK q \in Reqs, s \in Reports, list \in LinkLists : link_findings(q, s, list)
    BY <1>1
  <2>2. req'[q].list = list /\ \A p \in Reqs \ {q} : req'[p] = req[p]
    BY <2>1 DEF link_findings, Begin, TypeOK
  <2> QED
    BY <2>1, <2>2, LinkBegins DEF ListsInv
<1>2. CASE \E q \in Reqs : InsertLinks(q)
  <2>1. PICK q \in Reqs : InsertLinks(q)
    BY <1>2
  <2>2. req'[q] = Idle /\ \A p \in Reqs \ {q} : req'[p] = req[p]
    BY <2>1, AnswerSlots DEF InsertLinks
  <2> QED
    BY <2>1, <2>2, LinksInserted DEF ListsInv, Idle
<1>3. CASE links' = links /\ \A p \in Reqs : req'[p].op = "link" => req'[p] = req[p]
  <2>1. \A r \in Reports, f \in Findings : Linking(r, f)' \subseteq Linking(r, f)
    BY <1>3 DEF Linking
  <2> QED
    BY <1>3, <2>1, LinksStay DEF ListsInv
<1>4. ASSUME NEW q \in Reqs, Requests(q), ~ \E s \in Reports, list \in LinkLists : link_findings(q, s, list)
      PROVE  links' = links /\ \A p \in Reqs : req'[p].op = "link" => req'[p] = req[p]
  BY <1>4 DEF Requests, upload_evidence, verify_evidence, create_finding, update_finding,
     verify_finding, export_report, Begin, TypeOK
<1>5. ASSUME NEW q \in Reqs, EvidenceStep(q) \/ FindingStep(q) \/ ReportStep(q), ~ InsertLinks(q)
      PROVE  links' = links /\ \A p \in Reqs : req'[p].op = "link" => req'[p] = req[p]
  <2>1. links' = links
    BY <1>5 DEF EvidenceStep, StoreObject, CommitPath, AuditUpload, CommitReview, AuditReview,
       FindingStep, AuditCreate, CommitUpdate, AuditUpdate, CommitVerification,
       ReportStep, ExportVerifications, ExportEvidence, ExportAnswer
  <2>2. req'[q].op # "link" /\ \A p \in Reqs \ {q} : req'[p] = req[p]
    <3>1. CASE EvidenceStep(q)
      BY <3>1, GoToSlots, AnswerSlots
      DEF EvidenceStep, StoreObject, CommitPath, AuditUpload, CommitReview, AuditReview, Idle, At
    <3>2. CASE FindingStep(q)
      BY <3>2, GoToSlots, AnswerSlots
      DEF FindingStep, AuditCreate, CommitUpdate, AuditUpdate, CommitVerification, Idle, At
    <3>3. CASE ReportStep(q)
      BY <1>5, <3>3, ExportSlots, AnswerSlots DEF ReportStep, ExportAnswer, Idle
    <3> QED
      BY <1>5, <3>1, <3>2, <3>3
  <2> QED
    BY <2>1, <2>2
<1>6. CASE ApiCrash \/ UNCHANGED vars
  BY <1>3, <1>6 DEF ApiCrash, vars, Idle
<1> QED
  BY <1>1, <1>2, <1>3, <1>4, <1>5, <1>6 DEF Next

(* DuplicateLinksBounded, for any number of requests in flight, as long as *)
(* there is some bound on how often a list names a finding: link_findings  *)
(* does look up what is linked, and can only be overtaken by the requests  *)
(* that looked before it inserted.                                         *)
THEOREM LinksDoNotPileUp ==
  ASSUME LinkLists # {}, NEW n \in Nat,
         \A f \in Findings, list \in LinkLists : Occurrences(f, list) <= n
  PROVE  Spec => []DuplicateLinksBounded
<1> DEFINE m == MostRepeated
           LinksInv == ListsInv /\ \A r \in Reports, f \in Findings : LinksWithin(r, f, m)
<1>1. Findings # {} => m \in Nat /\ \A f \in Findings, list \in LinkLists : Occurrences(f, list) <= m
  BY MostRepeatedBounds
<1>2. Init => LinksInv
  <2> SUFFICES ASSUME Init PROVE LinksInv
    OBVIOUS
  <2>1. ListsInv
    BY DEF Init, ListsInv, Idle
  <2>2. ASSUME NEW r \in Reports, NEW f \in Findings PROVE LinksWithin(r, f, m)
    <3>1. Linking(r, f) = {} /\ links[r][f] = 0
      BY DEF Init, Linking, Idle
    <3>2. Cardinality(Linking(r, f)) = 0 /\ Cardinality(Reqs) \in Nat /\ m \in Nat
      BY <1>1, <3>1, FS_EmptySet, FinitenessAssumption, FS_CardinalityType
    <3> HIDE DEF m
    <3>3. Cardinality(Reqs) * m \in Nat /\ 0 * m = 0
      BY <3>2, Products
    <3> QED
      BY <3>1, <3>2, <3>3 DEF LinksWithin
  <2> QED
    BY <2>1, <2>2
<1>3. TypeOK /\ TypeOK' /\ LinksInv /\ [Next]_vars => LinksInv'
  <2> SUFFICES ASSUME TypeOK, TypeOK', LinksInv, [Next]_vars PROVE LinksInv'
    OBVIOUS
  <2>1. ListsInv'
    BY NextLinks
  <2>2. ASSUME NEW r \in Reports, NEW f \in Findings PROVE LinksWithin(r, f, m)'
    <3>1. m \in Nat /\ \A list \in LinkLists : Occurrences(f, list) <= m
      BY <1>1
    <3>2. ListsInv /\ LinksWithin(r, f, m)
      OBVIOUS
    <3> HIDE DEF m
    <3> QED
      BY <3>1, <3>2, NextLinks
  <2> QED
    BY <2>1, <2>2
<1>4. TypeOK /\ LinksInv => DuplicateLinksBounded
  <2> SUFFICES ASSUME TypeOK, LinksInv, NEW r \in Reports, NEW f \in Findings
               PROVE  links[r][f] <= Cardinality(Reqs) * m
    BY DEF DuplicateLinksBounded
  <2> DEFINE a == Cardinality(Linking(r, f))
             c == Cardinality(Reqs)
  <2>1. m \in Nat /\ a \in Nat /\ c \in Nat /\ links[r][f] \in Nat
    BY <1>1, LinkingType
  <2>2. links[r][f] + a * m <= c * m
    BY DEF LinksWithin
  <2> HIDE DEF m, a, c
  <2>3. a * m \in Nat /\ c * m \in Nat
    BY <2>1, Products
  <2> QED
    BY <2>1, <2>2, <2>3 DEF c
<1> HIDE DEF LinksInv
<1> QED
  BY <1>2, <1>3, <1>4, TypeCorrect, PTL DEF Spec

=============================================================================
