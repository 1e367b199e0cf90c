------------------------------- MODULE Casework -------------------------------
(***************************************************************************)
(* The case file of a project: evidence artifacts and the object storage   *)
(* behind them (apps/api/app/routers/evidence.py, services/storage.py),    *)
(* findings and their verifications (routers/findings.py), and the reports *)
(* that present them (routers/reports.py).                                 *)
(*                                                                         *)
(* Every request has a database session of its own at READ COMMITTED and   *)
(* commits before it answers, some of them several times.  A handler loads *)
(* a row, assigns to it and flushes: SQLAlchemy then UPDATEs only the      *)
(* columns whose assigned value differs from the LOADED one.  A request    *)
(* whose read is stale can so write nothing at all.                        *)
(*                                                                         *)
(* Left out: the texts of findings, reports and notes, refused requests,   *)
(* and the status of a report, which no handler reads.                     *)
(***************************************************************************)
EXTENDS Integers, Sequences, FiniteSets

CONSTANTS
  Evidence,        \* the ids of evidence artifacts
  MadeUp,          \* ids that a verification cites and no artifact has or will have
  Findings,        \* the ids of findings
  Reports,         \* the reports of the project
  Reviewers,       \* the users whose role lets them review evidence
  NoOne,           \* the reviewer_id of evidence nobody has reviewed
  Reqs,            \* slots for requests in flight at once
  Uploaded,        \* the evidence uploaded before the behaviour starts
  Created,         \* the findings created before the behaviour starts
  StatePatches,    \* the states the owner PATCHes findings to
  ReviewStatuses,  \* the statuses reviewers give to evidence
  LinkLists,       \* the finding_ids the owner sends to a report
  FaultKinds,      \* the faults that may happen
  MaxRequests,     \* bound on the number of requests
  MaxFaults        \* bound on the number of faults

EVIDENCE_VERIFICATION_STATUSES ==
  {"unreviewed", "source_captured", "integrity_verified", "manually_reproduced",
   "contradicted", "inconclusive", "rejected"}

FINDING_STATES ==
  {"candidate", "needs_evidence", "needs_reproduction", "verified", "rejected",
   "duplicate", "report_ready", "submitted", "triaged", "resolved"}

FINDING_VERIFICATION_RESULTS == {"confirmed", "denied", "inconclusive"}

ASSUME ConstantsAssumption ==
  /\ NoOne \notin Reviewers
  /\ Evidence \intersect MadeUp = {}
  /\ Uploaded \subseteq Evidence
  /\ Created \subseteq Findings
  /\ StatePatches \subseteq FINDING_STATES
  /\ ReviewStatuses \subseteq EVIDENCE_VERIFICATION_STATUSES
  /\ LinkLists \subseteq Seq(Findings) \ {<<>>}
  /\ FaultKinds \subseteq {"storage", "api"}
  /\ MaxRequests \in Nat /\ MaxFaults \in Nat

(* Only so many requests are in flight at once. *)
ASSUME FinitenessAssumption == IsFiniteSet(Reqs)

VARIABLES
  evidence,       \* the EvidenceArtifact rows as committed
  objects,        \* the artifacts whose bytes are in the object storage
  finding,        \* Finding.state as committed, "NONE" before the row exists
  verifications,  \* the FindingVerification rows of every finding, in commit order
  trail,          \* the AuditEvent rows written about all of these
  links,          \* how many ReportFinding rows link each report to each finding
  req,            \* every request slot
  used            \* how much of the bounds is used up

vars == <<evidence, objects, finding, verifications, trail, links, req, used>>

-----------------------------------------------------------------------------
(* Data *)

(* storage_path is empty until the bytes are stored. *)
Row == [exists : BOOLEAN, path : BOOLEAN,
        status : EVIDENCE_VERIFICATION_STATUSES, reviewer : Reviewers \union {NoOne}]

NoRow    == [exists |-> FALSE, path |-> FALSE, status |-> "unreviewed", reviewer |-> NoOne]
FreshRow == [NoRow EXCEPT !.exists = TRUE]

Artifacts == {e \in Evidence : evidence[e].exists}

FindingState == FINDING_STATES \union {"NONE"}

(* evidence_ids is a JSON column: it holds whatever ids were sent. *)
CitedId      == Evidence \union MadeUp
Verification == [result : FINDING_VERIFICATION_RESULTS, cites : SUBSET CitedId]

(* An audit row: what was done to what, to what effect. *)
Audit == [action : {"evidence.upload", "evidence.verify"}, id : Evidence,
          to : EVIDENCE_VERIFICATION_STATUSES]
         \union [action : {"finding.create", "finding.state_change"}, id : Findings,
                 to : FINDING_STATES]
         \union [action : {"report.export"}, id : Reports, to : {"exported"}]

Entry(action, id, to) == [action |-> action, id |-> id, to |-> to]

(* What the handlers in flight hold, for each kind of request. *)
UploadReq == [op : {"upload"}, pc : {"store", "path", "audit"}, id : Evidence]
ReviewReq == [op : {"review"}, pc : {"write", "audit"}, id : Evidence, row : Row,
              status : EVIDENCE_VERIFICATION_STATUSES, by : Reviewers]
CreateReq == [op : {"create"}, pc : {"audit"}, id : Findings]
UpdateReq == [op : {"update"}, pc : {"write", "audit"}, id : Findings,
              seen : FINDING_STATES, to : FINDING_STATES]
VerifyReq == [op : {"verify"}, pc : {"write"}, id : Findings,
              seen : FINDING_STATES, verification : Verification]
LinkReq   == [op : {"link"}, pc : {"write"}, id : Reports,
              list : Seq(Findings), linked : SUBSET Findings]
ExportReq == [op : {"export"}, pc : {"verifications", "evidence", "answer"}, id : Reports,
              shown : UNION {[S -> FindingState] : S \in SUBSET Findings},
              cited : SUBSET CitedId]
Idle      == [op |-> "none", pc |-> "idle"]

Request == UploadReq \union ReviewReq \union CreateReq \union UpdateReq \union VerifyReq
             \union LinkReq \union ExportReq \union {Idle}

Init ==
  /\ evidence = [e \in Evidence |-> IF e \in Uploaded THEN [FreshRow EXCEPT !.path = TRUE]
                                    ELSE NoRow]
  /\ objects       = Uploaded
  /\ finding       = [f \in Findings |-> IF f \in Created THEN "candidate" ELSE "NONE"]
  /\ verifications = [f \in Findings |-> <<>>]
  /\ trail = {Entry("evidence.upload", e, "unreviewed") : e \in Uploaded}
               \union {Entry("finding.create", f, "candidate") : f \in Created}
  /\ links = [r \in Reports |-> [f \in Findings |-> 0]]
  /\ req   = [q \in Reqs |-> Idle]
  /\ used  = [requests |-> 0, storage |-> 0, api |-> 0]

-----------------------------------------------------------------------------
(* Requests *)

(* A request comes in and gets as far as this. *)
Begin(q, request) ==
  /\ req[q] = Idle
  /\ used.requests < MaxRequests
  /\ used' = [used EXCEPT !.requests = @ + 1]
  /\ req'  = [req EXCEPT ![q] = request]

(* Request q is of this kind and has reached this point. *)
At(q, op, pc) == req[q].op = op /\ req[q].pc = pc

GoTo(q, pc) == req' = [req EXCEPT ![q].pc = pc]
Answer(q)   == req' = [req EXCEPT ![q] = Idle]

(* One more fault of this kind may happen. *)
MayFail(kind) == kind \in FaultKinds /\ used.storage + used.api < MaxFaults

(* What a column holds after the flush of a value assigned to a loaded row. *)
Written(committed, loaded, assigned) == IF assigned = loaded THEN committed ELSE assigned

-----------------------------------------------------------------------------
(* Evidence *)

(* Seeded bug: the row points at its object before the object is stored. *)
InsertedRow_WithPath == [FreshRow EXCEPT !.path = TRUE]

(* The row as the first commit of an upload leaves it. *)
InsertedRow == FreshRow

(* The upload has been validated; its row is committed without a path. *)
upload_evidence(q, e) ==
  /\ ~ evidence[e].exists
  /\ Begin(q, [op |-> "upload", pc |-> "store", id |-> e])
  /\ evidence' = [evidence EXCEPT ![e] = InsertedRow]
  /\ UNCHANGED <<objects, finding, verifications, trail, links>>

(* The bytes reach the storage, or the call fails, with or without effect, *)
(* and the request with it: the row stays as it is.                        *)
StoreObject(q) ==
  /\ At(q, "upload", "store")
  /\ \/ objects' = objects \union {req[q].id} /\ GoTo(q, "path") /\ UNCHANGED used
     \/ /\ MayFail("storage")
        /\ objects' \in {objects, objects \union {req[q].id}}
        /\ Answer(q)
        /\ used' = [used EXCEPT !.storage = @ + 1]
  /\ UNCHANGED <<evidence, finding, verifications, trail, links>>

(* Seeded bug: the commit of the path rewrites the row as it was inserted. *)
CommitPath_WholeRow(q) ==
  /\ At(q, "upload", "path")
  /\ evidence' = [evidence EXCEPT ![req[q].id] = [FreshRow EXCEPT !.path = TRUE]]
  /\ GoTo(q, "audit")
  /\ UNCHANGED <<objects, finding, verifications, trail, links, used>>

CommitPath(q) ==
  /\ At(q, "upload", "path")
  /\ evidence' = [evidence EXCEPT ![req[q].id].path = TRUE]
  /\ GoTo(q, "audit")
  /\ UNCHANGED <<objects, finding, verifications, trail, links, used>>

AuditUpload(q) ==
  /\ At(q, "upload", "audit")
  /\ trail' = trail \union {Entry("evidence.upload", req[q].id, "unreviewed")}
  /\ Answer(q)
  /\ UNCHANGED <<evidence, objects, finding, verifications, links, used>>

verify_evidence(q, e, status, reviewer) ==
  /\ evidence[e].exists
  /\ status \in ReviewStatuses
  /\ Begin(q, [op |-> "review", pc |-> "write", id |-> e, row |-> evidence[e],
               status |-> status, by |-> reviewer])
  /\ UNCHANGED <<evidence, objects, finding, verifications, trail, links>>

CommitReview(q) ==
  LET d == req[q] IN
  /\ At(q, "review", "write")
  /\ evidence' = [evidence EXCEPT
                    ![d.id].status   = Written(@, d.row.status, d.status),
                    ![d.id].reviewer = Written(@, d.row.reviewer, d.by)]
  /\ GoTo(q, "audit")
  /\ UNCHANGED <<objects, finding, verifications, trail, links, used>>

AuditReview(q) ==
  /\ At(q, "review", "audit")
  /\ trail' = trail \union {Entry("evidence.verify", req[q].id, req[q].status)}
  /\ Answer(q)
  /\ UNCHANGED <<evidence, objects, finding, verifications, links, used>>

-----------------------------------------------------------------------------
(* Findings *)

create_finding(q, f) ==
  /\ finding[f] = "NONE"
  /\ Begin(q, [op |-> "create", pc |-> "audit", id |-> f])
  /\ finding' = [finding EXCEPT ![f] = "candidate"]
  /\ UNCHANGED <<evidence, objects, verifications, trail, links>>

AuditCreate(q) ==
  /\ At(q, "create", "audit")
  /\ trail' = trail \union {Entry("finding.create", req[q].id, "candidate")}
  /\ Answer(q)
  /\ UNCHANGED <<evidence, objects, finding, verifications, links, used>>

(* Any state may be asked for in any state. *)
update_finding(q, f, state) ==
  /\ finding[f] # "NONE"
  /\ state \in StatePatches
  /\ Begin(q, [op |-> "update", pc |-> "write", id |-> f, seen |-> finding[f], to |-> state])
  /\ UNCHANGED <<evidence, objects, finding, verifications, trail, links>>

(* Seeded bug: previous_state is taken from the row after the assignment. *)
StateChanges_Late(d) == d.to # d.to

(* The update is audited when it changes the state the request has read. *)
StateChanges(d) == d.to # d.seen

CommitUpdate(q) ==
  LET d == req[q] IN
  /\ At(q, "update", "write")
  /\ finding' = [finding EXCEPT ![d.id] = Written(@, d.seen, d.to)]
  /\ IF StateChanges(d) THEN GoTo(q, "audit") ELSE Answer(q)
  /\ UNCHANGED <<evidence, objects, verifications, trail, links, used>>

AuditUpdate(q) ==
  /\ At(q, "update", "audit")
  /\ trail' = trail \union {Entry("finding.state_change", req[q].id, req[q].to)}
  /\ Answer(q)
  /\ UNCHANGED <<evidence, objects, finding, verifications, links, used>>

(* The ids the owner cites are stored as they come, of artifacts or not. *)
verify_finding(q, f, result, cites) ==
  /\ finding[f] # "NONE"
  /\ cites \subseteq Artifacts \union MadeUp
  /\ Begin(q, [op |-> "verify", pc |-> "write", id |-> f, seen |-> finding[f],
               verification |-> [result |-> result, cites |-> cites]])
  /\ UNCHANGED <<evidence, objects, finding, verifications, trail, links>>

(* Where a verification moves the finding it is about. *)
Moves == {"confirmed", "denied"}

(* Seeded bug: a denial is written as the state itself. *)
MovedTo_Result(result) == IF result = "confirmed" THEN "verified" ELSE result

MovedTo(result) == IF result = "confirmed" THEN "verified" ELSE "rejected"

(* The verification row and the state it leads to are one commit. *)
CommitVerification(q) ==
  LET d == req[q]
      result == d.verification.result
  IN
  /\ At(q, "verify", "write")
  /\ verifications' = [verifications EXCEPT ![d.id] = Append(@, d.verification)]
  /\ finding' = IF result \in Moves
                THEN [finding EXCEPT ![d.id] = Written(@, d.seen, MovedTo(result))]
                ELSE finding
  /\ Answer(q)
  /\ UNCHANGED <<evidence, objects, trail, links, used>>

-----------------------------------------------------------------------------
(* Reports *)

Occurrences(f, list) == Cardinality({i \in 1 .. Len(list) : list[i] = f})

(* Seeded bug: links that exist are not looked up. *)
AlreadyLinked_Ignored(r) == {}

AlreadyLinked(r) == {f \in Findings : links[r][f] > 0}

(* Every finding of the list exists; those already linked are remembered. *)
link_findings(q, r, list) ==
  /\ \A i \in 1 .. Len(list) : finding[list[i]] # "NONE"
  /\ Begin(q, [op |-> "link", pc |-> "write", id |-> r, list |-> list,
               linked |-> AlreadyLinked(r)])
  /\ UNCHANGED <<evidence, objects, finding, verifications, trail, links>>

InsertLinks(q) ==
  LET d == req[q] IN
  /\ At(q, "link", "write")
  /\ links' = [links EXCEPT ![d.id] =
                 [f \in Findings |-> IF f \in d.linked THEN @[f] ELSE @[f] + Occurrences(f, d.list)]]
  /\ Answer(q)
  /\ UNCHANGED <<evidence, objects, finding, verifications, trail, used>>

(* An export reads the linked findings, then their verifications, then the *)
(* evidence those cite, each in a statement of its own.                    *)
export_report(q, r) ==
  /\ Begin(q, [op |-> "export", pc |-> "verifications", id |-> r,
               shown |-> [f \in AlreadyLinked(r) |-> finding[f]], cited |-> {}])
  /\ UNCHANGED <<evidence, objects, finding, verifications, trail, links>>

(* Seeded bug: only the latest verification of each finding is looked at. *)
CitedBy_Latest(f) ==
  IF verifications[f] = <<>> THEN {} ELSE verifications[f][Len(verifications[f])].cites

(* The evidence the verifications of finding f cite. *)
CitedBy(f) == UNION {verifications[f][i].cites : i \in 1 .. Len(verifications[f])}

ExportVerifications(q) ==
  /\ At(q, "export", "verifications")
  /\ req' = [req EXCEPT ![q].pc = "evidence",
                        ![q].cited = UNION {CitedBy(f) : f \in DOMAIN req[q].shown}]
  /\ UNCHANGED <<evidence, objects, finding, verifications, trail, links, used>>

ExportEvidence(q) ==
  /\ At(q, "export", "evidence")
  /\ req' = [req EXCEPT ![q].pc = "answer", ![q].cited = @ \intersect Artifacts]
  /\ UNCHANGED <<evidence, objects, finding, verifications, trail, links, used>>

(* The export is put on record, and what was read is answered. *)
ExportAnswer(q) ==
  /\ At(q, "export", "answer")
  /\ trail' = trail \union {Entry("report.export", req[q].id, "exported")}
  /\ Answer(q)
  /\ UNCHANGED <<evidence, objects, finding, verifications, links, used>>

-----------------------------------------------------------------------------

(* The API process dies: requests in flight end where they are. *)
ApiCrash ==
  /\ MayFail("api")
  /\ used' = [used EXCEPT !.api = @ + 1]
  /\ req' = [q \in Reqs |-> Idle]
  /\ UNCHANGED <<evidence, objects, finding, verifications, trail, links>>

Requests(q) ==
  \/ \E e \in Evidence : upload_evidence(q, e)
  \/ \E e \in Evidence, s \in ReviewStatuses, u \in Reviewers : verify_evidence(q, e, s, u)
  \/ \E f \in Findings : create_finding(q, f)
  \/ \E f \in Findings, s \in StatePatches : update_finding(q, f, s)
  \/ \E f \in Findings, result \in FINDING_VERIFICATION_RESULTS, cites \in SUBSET CitedId :
       verify_finding(q, f, result, cites)
  \/ \E r \in Reports, list \in LinkLists : link_findings(q, r, list)
  \/ \E r \in Reports : export_report(q, r)

EvidenceStep(q) ==
  StoreObject(q) \/ CommitPath(q) \/ AuditUpload(q) \/ CommitReview(q) \/ AuditReview(q)

FindingStep(q) == AuditCreate(q) \/ CommitUpdate(q) \/ AuditUpdate(q) \/ CommitVerification(q)

ReportStep(q) ==
  InsertLinks(q) \/ ExportVerifications(q) \/ ExportEvidence(q) \/ ExportAnswer(q)

Next ==
  \/ \E q \in Reqs : Requests(q) \/ EvidenceStep(q) \/ FindingStep(q) \/ ReportStep(q)
  \/ ApiCrash

Spec == Init /\ [][Next]_vars

-----------------------------------------------------------------------------
(* Properties *)

(* Every variable keeps to the values the schema and the handlers allow.   *)
TypeOK ==
  /\ evidence \in [Evidence -> Row]
  /\ objects \subseteq Evidence
  /\ finding \in [Findings -> FindingState]
  /\ verifications \in [Findings -> Seq(Verification)]
  /\ trail \subseteq Audit
  /\ links \in [Reports -> [Findings -> Nat]]
  /\ req \in [Reqs -> Request]
  /\ used \in [requests : Nat, storage : Nat, api : Nat]

(* An artifact whose row names a storage path has its bytes stored,        *)
(* although the row is committed before the storage is called, the call    *)
(* may fail and the API may stop between any two of the three commits.     *)
PathMeansObject == \A e \in Evidence : evidence[e].path => e \in objects

(* The status of an artifact is the verdict of a review and of nothing     *)
(* else: an upload that ends after its artifact has been reviewed leaves   *)
(* the review alone.                                                       *)
OnlyReviewsJudge ==
  [][\A e \in Evidence :
       evidence'[e].status # evidence[e].status
         => \E q \in Reqs : /\ At(q, "review", "write")
                            /\ req[q].id = e
                            /\ req[q].status = evidence'[e].status]_vars

(* What moved finding f to state s is on record: a verification, an audit  *)
(* row, or an update that is about to write its audit row.                 *)
MoveRecorded(f, s) ==
  \/ \E i \in 1 .. Len(verifications[f]) :
       verifications[f][i].result \in Moves /\ MovedTo(verifications[f][i].result) = s
  \/ Entry("finding.state_change", f, s) \in trail
  \/ \E q \in Reqs : At(q, "update", "audit") /\ req[q].id = f /\ req[q].to = s

ReviewRecorded(e, s) ==
  \/ Entry("evidence.verify", e, s) \in trail
  \/ \E q \in Reqs : At(q, "review", "audit") /\ req[q].id = e /\ req[q].status = s

(* While the API does not stop, the state a finding is in and the status   *)
(* of an artifact can be traced to a record of what led there, however     *)
(* updates, verifications and reviews overlap and skip their writes.       *)
StateTraceable ==
  used.api = 0 =>
    /\ \A f \in Findings : finding[f] \notin {"NONE", "candidate"} => MoveRecorded(f, finding[f])
    /\ \A e \in Evidence : evidence[e].status # "unreviewed" => ReviewRecorded(e, evidence[e].status)

(* The owner has set finding f to state s by hand. *)
SetByHand(f, s) ==
  \/ Entry("finding.state_change", f, s) \in trail
  \/ \E q \in Reqs : At(q, "update", "audit") /\ req[q].id = f /\ req[q].to = s

(* An exported report that shows a finding as verified shows whatever      *)
(* evidence there is of a verification that confirmed it, although         *)
(* findings, verifications and evidence are read one after the other while *)
(* others write them.  It need not show any: nothing asks a confirmation   *)
(* to cite evidence, or that what it cites exists.                         *)
ExportedProof ==
  used.api = 0 =>
    \A q \in Reqs : At(q, "export", "answer") =>
      \A f \in DOMAIN req[q].shown :
        req[q].shown[f] = "verified" /\ ~ SetByHand(f, "verified")
          => \E i \in 1 .. Len(verifications[f]) :
               /\ verifications[f][i].result = "confirmed"
               /\ verifications[f][i].cites \ MadeUp \subseteq req[q].cited

(* The most often one list names one finding. *)
MostRepeated ==
  CHOOSE n \in {Occurrences(f, list) : f \in Findings, list \in LinkLists} :
    \A f \in Findings, list \in LinkLists : Occurrences(f, list) <= n

(* However often a report is linked to a finding, only requests in flight  *)
(* together can link it twice: the rows do not pile up.                    *)
DuplicateLinksBounded ==
  \A r \in Reports, f \in Findings : links[r][f] <= Cardinality(Reqs) * MostRepeated

-----------------------------------------------------------------------------
(* What the documents say and the code does not keep *)

(* A verification "moves the finding's state accordingly": the commit that *)
(* records a confirmation or a denial leaves the finding in that state.    *)
VerificationMovesFinding ==
  [][\A f \in Findings :
       LET last == verifications'[f][Len(verifications'[f])] IN
       verifications'[f] # verifications[f] /\ last.result \in Moves
         => finding'[f] = MovedTo(last.result)]_vars

=============================================================================
