---------------------------- MODULE Governance ----------------------------
(***************************************************************************)
(* GovernanceManager (packages/governance) over the store: agents propose  *)
(* memories, the policy applies them at once or stages them, users approve *)
(* or reject what was staged.  Its callers run next to every caller of     *)
(* MemoryStore.                                                            *)
(*                                                                         *)
(* createMemoryProposal, approveMemoryProposal and rejectMemoryProposal    *)
(* await one read and then run one synchronous transaction: two steps.     *)
(* An automatic write takes a third one, setMemoryImportance, outside the  *)
(* transaction.                                                            *)
(***************************************************************************)
EXTENDS MemoryStore

Decision == {"CREATE", "UPDATE", "MERGE"}   \* IGNORE is refused at once
Mode == {"auto_apply", "require_approval"}

GovernanceCall ==
  StoreCall
    \cup [op : {"propose"}, record : Proposal, mode : Mode]
    \cup [op : {"importance"}, id : Ids]
    \cup [op : {"approve", "reject"}, id : ProposalIds, record : Proposal]

GovernanceTypeOK == TablesTypeOK /\ call \in [Clients -> GovernanceCall]

-----------------------------------------------------------------------------
(* evaluateGovernancePolicy: the rules in their order. confident stands for  *)
(* confidence_score >= 0.85.                                                 *)
Policy(candidate, decision, confident) ==
  IF \/ candidate.sensitivity = Restricted
     \/ decision = "MERGE"
     \/ ~ confident
  THEN "require_approval"
  ELSE "auto_apply"

(* proposal_id is a fresh ULID: no row has it and no call in flight does.    *)
FreshProposalId(p) ==
  /\ proposals[p] = None
  /\ \A c \in Clients : call[c].op \in {"approve", "reject"} => call[c].id # p

(* saveProposalRecordSync: an upsert whose target is NULL or registered.     *)
SaveProposalUnchecked(p, record) == proposals' = [proposals EXCEPT ![p] = record]

SaveProposal(p, record) ==
  /\ record.target \in registry' \cup {None}
  /\ proposals' = [proposals EXCEPT ![p] = record]

(* executeAtomicMutationTransaction: the primitive, the proposal and the     *)
(* audit row are written together or not at all.                             *)
CreateFrom(record) == InsertRows(record.candidate)

MutateFrom(record) ==
  /\ record.target # None
  /\ record.expected # None
  /\ rows[record.target] # None
  /\ rows[record.target].updated_at = record.expected
  /\ Mutable(rows[record.target], record.candidate)
  /\ UpdateRows(Mutated(rows[record.target], record.candidate, record.decision),
                record.expected)

ExecuteAtomicMutation(p, record, operation, initiator) ==
  /\ \/ /\ record.decision = "CREATE"
        /\ CreateFrom(record)
        /\ Audit(operation, initiator, record.candidate)
     \/ /\ record.decision # "CREATE"
        /\ MutateFrom(record)
        /\ Audit(operation, initiator,
                 Mutated(rows[record.target], record.candidate, record.decision))
  /\ SaveProposal(p, record)

-----------------------------------------------------------------------------
(* getPrimitive(target_primitive_id): no id or no row is no target.          *)
Found(target) == target # None /\ rows[target] # None

ProposalRecord(candidate, decision, target, mode) ==
  [ candidate |-> candidate,
    decision  |-> decision,
    target    |-> target,
    expected  |-> IF Found(target) THEN rows[target].updated_at ELSE None,
    status    |-> IF mode = "auto_apply" THEN "auto_applied" ELSE "pending" ]

ProposeCall(candidate, decision, target, mode) ==
  [op |-> "propose", mode |-> mode,
   record |-> ProposalRecord(candidate, decision, target, mode)]

(* createMemoryProposal up to its await.  A creation may name a target (the  *)
(* consolidation engine's COEXIST does), whether or not it has a row.        *)
BeginPropose(c) ==
  /\ \E d \in Drafts, made, changed \in SubmissionTimes, decision \in Decision,
        target \in Ids \cup {None}, confident \in BOOLEAN :
       LET candidate == Submitted(d, made, changed)
       IN  /\ decision # "CREATE" => Found(target)
           /\ Start(c, "propose",
                ProposeCall(candidate, decision, target, Policy(candidate, decision, confident)))
  /\ UNCHANGED <<clock, tables>>

(* The id setMemoryImportance is called with.                                *)
PersistedId(record) ==
  IF record.decision = "CREATE" THEN record.candidate.id ELSE record.target

CommitAutoApply(c) ==
  /\ call[c].op = "propose"
  /\ call[c].mode = "auto_apply"
  /\ \E p \in ProposalIds :
       /\ FreshProposalId(p)
       /\ ExecuteAtomicMutation(p, call[c].record, call[c].record.decision, "system")
  /\ call' = [call EXCEPT ![c] = [op |-> "importance", id |-> PersistedId(call[c].record)]]
  /\ UNCHANGED clock

CommitStage(c) ==
  /\ call[c].op = "propose"
  /\ call[c].mode = "require_approval"
  /\ UNCHANGED <<clock, memoryTables>>
  /\ \E p \in ProposalIds : FreshProposalId(p) /\ SaveProposal(p, call[c].record)
  /\ Audit("proposal_created", "system", call[c].record.candidate)
  /\ Return(c)

(* setMemoryImportance: an upsert of memory_lifecycle.                       *)
SetImportance(c) ==
  /\ call[c].op = "importance"
  /\ Registered(call[c].id)
  /\ lifecycle' = [lifecycle EXCEPT ![call[c].id] = "decided"]
  /\ Return(c)
  /\ UNCHANGED <<clock, registry, rows, fts, embeddings, proposals, audit_log>>

(* approveMemoryProposal and rejectMemoryProposal up to their await: the     *)
(* status is checked on the copy that was read.                              *)
BeginDecide(c, operation, status) ==
  /\ \E p \in ProposalIds :
       /\ proposals[p] # None
       /\ proposals[p].status = "pending"
       /\ Start(c, operation,
            [op |-> operation, id |-> p, record |-> [proposals[p] EXCEPT !.status = status]])
  /\ UNCHANGED <<clock, tables>>

BeginApprove(c) == BeginDecide(c, "approve", "approved")

BeginReject(c) == BeginDecide(c, "reject", "rejected")

CommitApprove(c) ==
  /\ call[c].op = "approve"
  /\ ExecuteAtomicMutation(call[c].id, call[c].record, "user_approval", "user")
  /\ Return(c)
  /\ UNCHANGED clock

(* The rejection saved without saveProposalWithAudit.                        *)
CommitRejectUnaudited(c) ==
  /\ call[c].op = "reject"
  /\ UNCHANGED <<clock, memoryTables>>
  /\ SaveProposal(call[c].id, call[c].record)
  /\ Return(c)
  /\ UNCHANGED audit_log

CommitReject(c) ==
  /\ call[c].op = "reject"
  /\ UNCHANGED <<clock, memoryTables>>
  /\ SaveProposal(call[c].id, call[c].record)
  /\ Audit("user_rejection", "user", call[c].record.candidate)
  /\ Return(c)

GovernanceStep(c) ==
  \/ BeginPropose(c)
  \/ CommitAutoApply(c)
  \/ CommitStage(c)
  \/ SetImportance(c)
  \/ BeginApprove(c)
  \/ BeginReject(c)
  \/ CommitApprove(c)
  \/ CommitReject(c)

GovernanceNext == Next \/ \E c \in Clients : GovernanceStep(c)

GovernanceSpec == Init /\ [][GovernanceNext]_vars

-----------------------------------------------------------------------------
(* Safety.                                                                 *)

(* No agent touches a restricted memory on its own: an automatic write       *)
(* neither creates, changes nor merges a restricted row, even when the       *)
(* candidate itself claims a public tier or the row changed hands between    *)
(* the policy's decision and the write.                                      *)
IsRestricted(row) == row # None /\ row.sensitivity = Restricted

AgentsLeaveRestrictedAlone ==
  [][\A c \in Clients : CommitAutoApply(c) =>
       \A i \in Ids : IsRestricted(rows[i]) \/ IsRestricted(rows'[i]) => rows'[i] = rows[i]]_vars

(* Every decision that is still on file has its audit row, whoever decided   *)
(* and whoever raced: the staged candidate, the rejection of it, the write   *)
(* an approval or the policy made of it.                                     *)
AuditedContents(operation, initiator, i) ==
  { audit_log[k].event.primitive_jcs_hash.sha256 :
      k \in { j \in 1 .. Len(audit_log) :
                /\ audit_log[j].event.operation_type = operation
                /\ audit_log[j].event.initiator = initiator
                /\ audit_log[j].event.primitive_id = i } }

WrittenFrom(record, written) ==
  LET candidate == record.candidate
  IN  /\ record.decision = "CREATE" => written = candidate
      /\ record.decision # "MERGE" => /\ written.claim = candidate.claim
                                     /\ written.detail = candidate.detail
      /\ candidate.detail # None => written.detail = candidate.detail

CandidateAudited(record, operation, initiator) ==
  record.candidate \in AuditedContents(operation, initiator, record.candidate.id)

WriteAudited(record, operation, initiator) ==
  \E written \in AuditedContents(operation, initiator, PersistedId(record)) :
    WrittenFrom(record, written)

DecisionAudited(record) ==
  /\ record.status = "pending" => CandidateAudited(record, "proposal_created", "system")
  /\ record.status = "rejected" => CandidateAudited(record, "user_rejection", "user")
  /\ record.status = "approved" => WriteAudited(record, "user_approval", "user")
  /\ record.status = "auto_applied" => WriteAudited(record, record.decision, "system")

DecisionsAudited ==
  \A p \in ProposalIds : proposals[p] # None => DecisionAudited(proposals[p])

(* An approval takes effect as it was proposed, whatever happened while the  *)
(* proposal waited: the candidate's content is stored, in the candidate's    *)
(* tier, under the proposal's target, a merge keeps the target's claim, and  *)
(* no other row changes.                                                     *)
AppliesProposal(record) ==
  LET i == PersistedId(record)
  IN  /\ rows'[i] # None
      /\ WrittenFrom(record, rows'[i])
      /\ rows'[i].sensitivity = record.candidate.sensitivity
      /\ record.decision = "MERGE" => rows'[i].claim = rows[i].claim
      /\ \A j \in Ids \ {i} : rows'[j] = rows[j]

ApprovalAppliesProposal ==
  [][\A c \in Clients : CommitApprove(c) => AppliesProposal(call[c].record)]_vars

-----------------------------------------------------------------------------
(* What the code asserts and does not keep.                                *)

(* A decision is made once, on a pending proposal: "expected 'pending'".     *)
DecisionIsFinal ==
  [][\A p \in ProposalIds :
       proposals[p] # None /\ proposals[p].status # "pending" /\ proposals'[p] # None
         => proposals'[p] = proposals[p]]_vars
=============================================================================
