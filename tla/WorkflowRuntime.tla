-------------------------- MODULE WorkflowRuntime --------------------------
(***************************************************************************)
(* One running workflow instance ("Hạng mục"): its steps (task nodes), who *)
(* holds them, the evidence handed in for them, the acceptance attempts,   *)
(* and the requests to go back to an earlier step.                         *)
(*                                                                         *)
(* Every action is one committed request of                                *)
(* dev/backend/src/contracts/workflow_runtime.py or of a route that writes *)
(* the same rows.  The handlers of this module lock the node row before    *)
(* they decide, so a request is one atomic step here.  A verdict on a       *)
(* document and an upload decide on a step they have not locked, and take  *)
(* two steps: what they read, and what they write whatever has become of   *)
(* the step since.  The other handlers that decide on rows they have not   *)
(* locked are atomic here too; the README names them.                      *)
(***************************************************************************)
EXTENDS Naturals, Sequences, FiniteSets

CONSTANTS
    Nodes,          \* the steps of the activated graph
    StartNode,      \* graph["start_node"]
    NoNode,         \* no step at all
    Succ,           \* [Nodes -> SUBSET Nodes]: the targets of "transitions"
    DefaultNext,    \* target of COMPLETED or of the only outcome, or NoNode
    Code,           \* [Nodes -> Nat]: the rank of node_code among the codes
    Depts,          \* departments
    Dept,           \* [Nodes -> SUBSET Depts]: {} when never offered in the pool
    NodeRoles,      \* [Nodes -> SUBSET Roles]: claim roles of the step
    HandoverNode,   \* the is_handover step, or NoNode
    FieldNodes,     \* SURVEY_FIELD steps
    PauseNodes,     \* steps whose catalogue entry has allow_pause
    DocNodes,       \* steps with an output document to be reviewed
    ChecklistNodes, \* steps with a checklist item
    PayNodes,       \* steps whose checklist item is payable
    SurveyNode,     \* the step the contract's survey record hangs on, or NoNode
    MaxAttempts,    \* bound: acceptance attempts per step
    MaxRequests     \* bound: rollback requests per instance

Roles == {"main", "assistant"}

(***************************************************************************)
(* What validate_workflow_graph guarantees of an activated graph.  Branches,*)
(* joins, cycles and repeated node codes are all let through.              *)
(***************************************************************************)
ASSUME GraphAssumption ==
    /\ IsFiniteSet(Nodes)
    /\ StartNode \in Nodes
    /\ NoNode \notin Nodes
    /\ Succ \in [Nodes -> SUBSET Nodes]
    /\ DefaultNext \in [Nodes -> Nodes \cup {NoNode}]
    /\ \A n \in Nodes : DefaultNext[n] \in Succ[n] \cup {NoNode}
    /\ Code \in [Nodes -> Nat]

ASSUME CatalogAssumption ==
    /\ Dept \in [Nodes -> SUBSET Depts]
    /\ NodeRoles \in [Nodes -> SUBSET Roles]
    /\ HandoverNode \in Nodes \cup {NoNode}
    /\ SurveyNode \in Nodes \cup {NoNode}
    /\ FieldNodes \subseteq Nodes /\ PauseNodes \subseteq Nodes
    /\ ChecklistNodes \subseteq Nodes
    /\ DocNodes \subseteq ChecklistNodes /\ PayNodes \subseteq ChecklistNodes

ASSUME BoundAssumption == MaxAttempts \in Nat /\ MaxRequests \in Nat

VARIABLES
    inst,         \* workflow_instances.status
    status,       \* task_nodes.status
    paused,       \* task_nodes.pause_reason_type is set
    fieldStarted, \* execution_data ? 'field_started_at'
    staff,        \* roles with an active task_node_assignments row
    checklist,    \* task_node_checklist_results.status
    verdict,      \* review_status of the current document link
    reviewing,    \* steps with a verdict under way, which holds the item's row
    uploading,    \* steps with an upload under way, which holds nothing
    late,         \* history: steps whose document or verdict came after acceptance
    acceptances,  \* status of each acceptance attempt, by attempt_no
    request,      \* target of the pending rollback request, or NoNode
    requests,     \* number of rollback requests filed so far
    settled,      \* the approved receipts cover the value of the contract
    waiver        \* handover_debt_requests of the handover step: its last status

papers   == <<verdict, reviewing, uploading, late>>
evidence == <<checklist, papers>>
work     == <<paused, fieldStarted, staff>>
rollback == <<request, requests>>
debt     == <<settled, waiver>>
vars     == <<inst, status, work, evidence, acceptances, rollback, debt>>

----------------------------------------------------------------------------
(***************************************************************************)
(* The graph.                                                              *)
(***************************************************************************)
\* A set of steps no transition leads out of.
Closed(S) == \A n \in S : Succ[n] \subseteq S

\* The steps a walk along the transitions from n reaches, n among them.
Downstream ==
    [n \in Nodes |->
        {m \in Nodes : \A S \in SUBSET Nodes : n \in S /\ Closed(S) => m \in S}]

\* The steps from which at least one transition leads to n: on a cycle, n too.
Ancestors ==
    [n \in Nodes |-> {m \in Nodes : \E s \in Succ[m] : n \in Downstream[s]}]

Branching(n) == Succ[n] # {} /\ DefaultNext[n] = NoNode

----------------------------------------------------------------------------
(***************************************************************************)
(* Guards and updates the handlers share.                                  *)
(***************************************************************************)
\* Broken: steps that are only open are not reset; accepted ones are cancelled.
ResettableButReady == {"in_progress", "submitted", "accepted", "rework_required"}
UnfinishedOrAccepted == {"pending", "ready", "in_progress", "submitted",
                         "rework_required", "accepted"}

Active       == {"in_progress", "rework_required"}
Resettable   == {"ready", "in_progress", "submitted", "accepted", "rework_required"}
Unfinished   == {"pending", "ready", "in_progress", "submitted", "rework_required"}
Submitted    == {"pending_approval", "approved", "not_applicable"}

PredecessorsAccepted(n) == \A m \in Ancestors[n] : status[m] = "accepted"

HasPending(n) == \E i \in DOMAIN acceptances[n] : acceptances[n][i] = "pending"

CanAttempt(n) == Len(acceptances[n]) < MaxAttempts

\* Broken: the attempt is forgotten, or decided ones are overwritten.
ClosePendingForgotten(n, s) == acceptances[n]
ClosePendingOverwrites(n, s) == [i \in DOMAIN acceptances[n] |-> s]

\* update ... set status = s where task_node_id = n and status = 'pending'
ClosePending(n, s) ==
    [i \in DOMAIN acceptances[n] |->
        IF acceptances[n][i] = "pending" THEN s ELSE acceptances[n][i]]

\* update ... set status = s where id = :acceptance_id, of a pending attempt
DecideAttempt(n, s) ==
    \E i \in DOMAIN acceptances[n] :
        /\ acceptances[n][i] = "pending"
        /\ acceptances' = [acceptances EXCEPT ![n][i] = s]

EverPaid(n) ==
    n \in PayNodes /\ \E i \in DOMAIN acceptances[n] : acceptances[n][i] = "accepted"

ChecklistIn(n, S, c) == n \in ChecklistNodes => c \in S

\* debt_summary: the approval of one contract and one handover step opens the
\* gate of that step and of the instance alike.
GateOpen == settled \/ waiver = "approved"

\* Broken: the verdict on the document, or the debt gate, is not asked.
MayAcceptUnreviewed(n, c, g) ==
    /\ PredecessorsAccepted(n)
    /\ ChecklistIn(n, Submitted, c)
    /\ n = HandoverNode => g

MayAcceptUnpaid(n, c, g) ==
    /\ PredecessorsAccepted(n)
    /\ ChecklistIn(n, Submitted, c)
    /\ verdict[n] \notin {"pending_review", "rejected"}

(***************************************************************************)
(* review_task_node_acceptance, decision "accepted", for an attempt that is *)
(* pending, the step's checklist item being c and the debt gate being g.   *)
(***************************************************************************)
MayAccept(n, c, g) ==
    /\ PredecessorsAccepted(n)
    /\ ChecklistIn(n, Submitted, c)
    /\ verdict[n] \notin {"pending_review", "rejected"}
    /\ n = HandoverNode => g

Finished == \A n \in Nodes : status[n] \in {"accepted", "cancelled"}

\* Broken: the next step is not opened.
AfterAcceptanceOpensNothing(n, next) == [status EXCEPT ![n] = "accepted"]

AfterAcceptance(n, next) ==
    [m \in Nodes |->
        IF m = n THEN "accepted"
        ELSE IF m = next /\ status[m] = "pending" THEN "ready"
        ELSE status[m]]

\* Broken: an item handed in with the step is left to be judged.
AcceptNodeOnly(n, next, c) ==
    /\ status' = AfterAcceptance(n, next)
    /\ checklist' = [checklist EXCEPT ![n] = c]

AcceptNode(n, next, c) ==
    /\ status' = AfterAcceptance(n, next)
    /\ checklist' = [checklist EXCEPT ![n] =
                        IF c = "pending_approval" THEN "approved" ELSE c]

(***************************************************************************)
(* The acceptance that opens no step and leaves none unfinished completes   *)
(* the instance, unless it has a handover step and the gate is shut.       *)
(***************************************************************************)
CompletionGate(g) == HandoverNode \in Nodes => g

CompleteWhenFinished(g) ==
    inst' = IF inst = "running" /\ Finished' /\ CompletionGate(g)
            THEN "completed" ELSE inst

(***************************************************************************)
(* auto_finalize_node_if_ready: a step being worked on whose evidence is    *)
(* complete is handed in and accepted in one go.  It looks at neither the   *)
(* pause nor the staff.  A branching step is only handed in: the Director   *)
(* picks the outcome.  An acceptance that is refused raises, and the caller *)
(* undoes the whole attempt.                                               *)
(***************************************************************************)
AutoSubmittable(n, c, g) ==
    /\ status[n] = "in_progress"
    /\ ChecklistIn(n, {"approved", "not_applicable"}, c)
    /\ n \in DocNodes => verdict[n] # "none"
    /\ n = HandoverNode => g

AutoSubmit(n, c) ==
    /\ Branching(n)
    /\ acceptances' = [acceptances EXCEPT ![n] = Append(@, "pending")]
    /\ status' = [status EXCEPT ![n] = "submitted"]
    /\ checklist' = [checklist EXCEPT ![n] = c]

AutoAccept(n, c, g) ==
    /\ ~Branching(n)
    /\ MayAccept(n, c, g)
    /\ acceptances' = [acceptances EXCEPT ![n] = Append(@, "accepted")]
    /\ AcceptNode(n, DefaultNext[n], c)

AutoRefused(n, c, g) == ~Branching(n) /\ ~MayAccept(n, c, g)

----------------------------------------------------------------------------
(***************************************************************************)
(* activate_workflow: the start step is ready, the Director's assignments  *)
(* are in place, nothing has been handed in.                               *)
(***************************************************************************)
Init ==
    /\ inst = "running"
    /\ status = [n \in Nodes |-> IF n = StartNode THEN "ready" ELSE "pending"]
    /\ paused = [n \in Nodes |-> FALSE]
    /\ fieldStarted = [n \in Nodes |-> FALSE]
    /\ staff \in [Nodes -> SUBSET Roles]
    /\ \A n \in Nodes : staff[n] \subseteq NodeRoles[n]
    /\ checklist = [n \in Nodes |-> "pending"]
    /\ verdict = [n \in Nodes |-> "none"]
    /\ reviewing = {}
    /\ uploading = {}
    /\ late = {}
    /\ acceptances = [n \in Nodes |-> <<>>]
    /\ request = NoNode
    /\ requests = 0
    /\ settled \in BOOLEAN
    /\ waiver = "none"

----------------------------------------------------------------------------
(***************************************************************************)
(* Staffing.                                                               *)
(***************************************************************************)
\* The other steps of the department that a main claim reserves as well.
Chain(n, d) ==
    {m \in Nodes \ {n} :
        /\ status[m] \notin {"accepted", "cancelled"}
        /\ d \in Dept[m]
        /\ "main" \in NodeRoles[m] \ staff[m]}

\* claim_and_start_task by an employee of department d; startNow = FALSE is
\* the claim of one step of claim_cluster.  No predecessor is looked at.
Claim(n, d, role, startNow) ==
    /\ inst = "running"
    /\ status[n] \in {"ready", "in_progress"}
    /\ d \in Dept[n]
    /\ role \in NodeRoles[n] \ staff[n]
    /\ ~(n \in FieldNodes /\ role = "assistant" /\ fieldStarted[n])
    /\ staff' = [m \in Nodes |->
                    IF m = n THEN staff[m] \cup {role}
                    ELSE IF role = "main" /\ m \in Chain(n, d)
                         THEN staff[m] \cup {"main"}
                         ELSE staff[m]]
    /\ status' = IF startNow /\ status[n] = "ready"
                   THEN [status EXCEPT ![n] = "in_progress"] ELSE status
    /\ UNCHANGED <<inst, paused, fieldStarted, evidence, acceptances, rollback, debt>>

\* Broken: a step being worked on may lose everybody.
ReassignAnybody(n, roles) ==
    /\ inst = "running"
    /\ status[n] \notin {"submitted", "accepted", "cancelled"}
    /\ roles \subseteq NodeRoles[n]
    /\ staff' = [staff EXCEPT ![n] = roles]
    /\ UNCHANGED <<inst, status, paused, fieldStarted, evidence, acceptances,
                    rollback, debt>>

\* replace_node_assignments by the Director.
Reassign(n, roles) ==
    /\ inst = "running"
    /\ status[n] \notin {"submitted", "accepted", "cancelled"}
    /\ roles \subseteq NodeRoles[n]
    /\ status[n] \in Active => roles # {}
    /\ ~EverPaid(n)
    /\ n \in PayNodes => "main" \in roles
    /\ staff' = [staff EXCEPT ![n] = roles]
    /\ UNCHANGED <<inst, status, paused, fieldStarted, evidence, acceptances,
                    rollback, debt>>

\* Broken: the assignment that ends is not made anew.
HandOverToNobody(n, role) ==
    /\ inst = "running"
    /\ status[n] \in {"pending", "in_progress", "rework_required"}
    /\ role \in staff[n]
    /\ staff' = [staff EXCEPT ![n] = @ \ {role}]
    /\ UNCHANGED <<inst, status, paused, fieldStarted, evidence, acceptances,
                    rollback, debt>>

\* execute_employee_handover, mode "reassign", for one assignment of an employee
\* who leaves, to a colleague who holds the other role of the step already and
\* is given no second assignment.  A colleague new to the step takes the role
\* over, which changes no row this module sees.  Mode "pool" writes columns
\* that task_nodes does not have, and is undone.
HandOver(n, role) ==
    /\ inst = "running"
    /\ status[n] \in {"pending", "in_progress", "rework_required"}
    /\ role \in staff[n]
    /\ staff[n] # {role}
    /\ staff' = [staff EXCEPT ![n] = @ \ {role}]
    /\ UNCHANGED <<inst, status, paused, fieldStarted, evidence, acceptances,
                    rollback, debt>>

----------------------------------------------------------------------------
(***************************************************************************)
(* Work on a step by its staff.                                            *)
(***************************************************************************)
\* start_task_node
StartTask(n) ==
    /\ staff[n] # {}
    /\ PredecessorsAccepted(n)
    /\ status[n] \in {"ready", "rework_required"}
    /\ status' = [status EXCEPT ![n] = "in_progress"]
    /\ paused' = [paused EXCEPT ![n] = FALSE]
    /\ UNCHANGED <<inst, fieldStarted, staff, evidence, acceptances, rollback, debt>>

\* mark_field_work_started
MarkFieldWorkStarted(n) ==
    /\ n \in FieldNodes
    /\ staff[n] # {}
    /\ status[n] \in Active
    /\ ~fieldStarted[n]
    /\ status' = [status EXCEPT ![n] = "in_progress"]
    /\ fieldStarted' = [fieldStarted EXCEPT ![n] = TRUE]
    /\ UNCHANGED <<inst, paused, staff, evidence, acceptances, rollback, debt>>

\* pause_node
PauseNode(n) ==
    /\ staff[n] # {}
    /\ status[n] = "in_progress"
    /\ ~paused[n]
    /\ n \in PauseNodes
    /\ paused' = [paused EXCEPT ![n] = TRUE]
    /\ UNCHANGED <<inst, status, fieldStarted, staff, evidence, acceptances,
                    rollback, debt>>

\* resume_node
ResumeNode(n) ==
    /\ staff[n] # {}
    /\ paused[n]
    /\ paused' = [paused EXCEPT ![n] = FALSE]
    /\ UNCHANGED <<inst, status, fieldStarted, staff, evidence, acceptances,
                    rollback, debt>>

\* _authorized_checklist_for_submission
MaySubmitEvidence(n) ==
    /\ n \in ChecklistNodes
    /\ staff[n] # {}
    /\ checklist[n] \in {"pending", "failed"}
    /\ status[n] \in Active

\* submit_checklist_evidence: the item and the step are locked, so it waits for
\* a verdict under way.
SubmitEvidence(n) ==
    /\ MaySubmitEvidence(n)
    /\ n \notin reviewing
    /\ checklist' = [checklist EXCEPT ![n] = "pending_approval"]
    /\ UNCHANGED <<inst, status, work, papers, acceptances, rollback, debt>>

(***************************************************************************)
(* submit_checklist_output_document authorises the employee on rows it does *)
(* not lock, receives the file, stores it, and then links it under the      *)
(* lock of the item, where only an approved document stops it              *)
(* (_lock_checklist_and_reject_overwrite).                                 *)
(***************************************************************************)
AuthorizeUpload(n) ==
    /\ n \in DocNodes \ uploading
    /\ MaySubmitEvidence(n)
    /\ uploading' = uploading \cup {n}
    /\ UNCHANGED <<inst, status, work, checklist, verdict, reviewing, late,
                    acceptances, rollback, debt>>

\* A document or a verdict is written: late when the step is accepted already.
WritePaper(n, v) ==
    /\ verdict' = [verdict EXCEPT ![n] = v]
    /\ late' = IF status[n] = "accepted" THEN late \cup {n} ELSE late \ {n}

\* Broken: the link gets the status of an attempt.
UploadDocumentAsAttempt(n) ==
    /\ n \in uploading \ reviewing
    /\ verdict[n] # "approved"
    /\ WritePaper(n, "pending")
    /\ uploading' = uploading \ {n}
    /\ UNCHANGED <<inst, status, work, checklist, reviewing, acceptances, rollback, debt>>

\* The new link is the current one.
UploadDocument(n) ==
    /\ n \in uploading \ reviewing
    /\ verdict[n] # "approved"
    /\ WritePaper(n, "pending_review")
    /\ uploading' = uploading \ {n}
    /\ UNCHANGED <<inst, status, work, checklist, reviewing, acceptances, rollback, debt>>

\* submit_task_node_for_acceptance, with the note that turns an unfinished
\* checklist item into one to be judged with the step.
Submit(n) ==
    /\ "main" \in staff[n]
    /\ ~paused[n]
    /\ status[n] \in Active
    /\ PredecessorsAccepted(n)
    /\ n # HandoverNode
    /\ verdict[n] # "rejected"
    /\ CanAttempt(n)
    /\ checklist' = [checklist EXCEPT ![n] =
                        IF n \in ChecklistNodes /\ @ \in {"pending", "failed"}
                        THEN "pending_approval" ELSE @]
    /\ acceptances' = [acceptances EXCEPT ![n] = Append(@, "pending")]
    /\ status' = [status EXCEPT ![n] = "submitted"]
    /\ UNCHANGED <<inst, work, papers, rollback, debt>>

\* submit_handover_for_acceptance: its own gates, and neither the pause nor
\* the predecessors.
SubmitHandover(n) ==
    /\ n = HandoverNode
    /\ staff[n] # {}
    /\ status[n] \in Active
    /\ GateOpen
    /\ n \in ChecklistNodes
    /\ checklist[n] \in Submitted
    /\ CanAttempt(n)
    /\ acceptances' = [acceptances EXCEPT ![n] = Append(@, "pending")]
    /\ status' = [status EXCEPT ![n] = "submitted"]
    /\ UNCHANGED <<inst, work, evidence, rollback, debt>>

----------------------------------------------------------------------------
(***************************************************************************)
(* Decisions of the Director.                                              *)
(***************************************************************************)
(***************************************************************************)
(* review_node_document locks the item and the link, and reads the status   *)
(* of the step without locking it.                                         *)
(***************************************************************************)
ReadForVerdict(n) ==
    /\ n \in DocNodes \ reviewing
    /\ verdict[n] # "none"
    /\ status[n] = "submitted"
    /\ reviewing' = reviewing \cup {n}
    /\ UNCHANGED <<inst, status, work, checklist, verdict, uploading, late,
                    acceptances, rollback, debt>>

\* Its update of the step waits for whoever holds that row, and asks nothing
\* again.  A verdict may be changed until the step is decided.
ReviewDocument(n, v) ==
    /\ n \in reviewing
    /\ WritePaper(n, v)
    /\ reviewing' = reviewing \ {n}
    /\ UNCHANGED <<inst, status, work, checklist, uploading, acceptances, rollback, debt>>

\* A verdict or an upload under way fails: the storage or the connection does,
\* the document is approved by now, or PostgreSQL ends the circle of a verdict
\* that waits for the step and an acceptance or a rollback that waits for the item.
AbandonPaper(n) ==
    /\ n \in reviewing \cup uploading
    /\ \/ reviewing' = reviewing \ {n} /\ UNCHANGED uploading
       \/ uploading' = uploading \ {n} /\ UNCHANGED reviewing
    /\ UNCHANGED <<inst, status, work, checklist, verdict, late, acceptances,
                    rollback, debt>>

\* A decision on the step writes an item that is to be judged with it, and
\* waits for the verdict that holds its row; another item it does not touch.
ItemWritable(n) == n \in reviewing => checklist[n] # "pending_approval"

\* review_task_node_acceptance, decision "accepted": the outcome opens next.
Accept(n, next) ==
    /\ status[n] = "submitted"
    /\ MayAccept(n, checklist[n], GateOpen)
    /\ next \in (IF Succ[n] = {} THEN {NoNode} ELSE Succ[n])
    /\ ItemWritable(n)
    /\ DecideAttempt(n, "accepted")
    /\ AcceptNode(n, next, checklist[n])
    /\ CompleteWhenFinished(GateOpen)
    /\ UNCHANGED <<work, papers, rollback, debt>>

\* review_task_node_acceptance, decision "rework_required", by the Director
\* or by flush_node_review_batch for a rejected document.
Rework(n) ==
    /\ status[n] = "submitted"
    /\ ItemWritable(n)
    /\ DecideAttempt(n, "rework_required")
    /\ status' = [status EXCEPT ![n] = "rework_required"]
    /\ checklist' = [checklist EXCEPT ![n] =
                        IF @ = "pending_approval" THEN "failed" ELSE @]
    /\ UNCHANGED <<inst, work, papers, rollback, debt>>

\* review_checklist_evidence, decision "failed": the step is sent back
\* whatever its status is.
FailChecklist(n) ==
    /\ n \in ChecklistNodes \ reviewing
    /\ checklist[n] = "pending_approval"
    /\ checklist' = [checklist EXCEPT ![n] = "failed"]
    /\ status' = [status EXCEPT ![n] = "rework_required"]
    /\ acceptances' = [acceptances EXCEPT ![n] = ClosePending(n, "rework_required")]
    /\ UNCHANGED <<inst, work, papers, rollback, debt>>

(***************************************************************************)
(* review_checklist_evidence, decision "approved".  A pending attempt whose *)
(* outcome needs no choice is accepted in a savepoint; without one the step *)
(* is auto-finalized in a savepoint; when either is refused only the item   *)
(* is approved.  The pay of the step may refuse too: its month is locked.  *)
(***************************************************************************)
ApproveAccepts(n) ==
    /\ HasPending(n)
    /\ ~Branching(n)
    /\ status[n] = "submitted"
    /\ MayAccept(n, "approved", GateOpen)

ApproveFinalizes(n) ==
    /\ ~HasPending(n)
    /\ AutoSubmittable(n, "approved", GateOpen)
    /\ ~AutoRefused(n, "approved", GateOpen)

ApproveChecklist(n) ==
    /\ n \in ChecklistNodes \ reviewing
    /\ checklist[n] = "pending_approval"
    /\ \/ /\ ApproveAccepts(n)
          /\ DecideAttempt(n, "accepted")
          /\ AcceptNode(n, DefaultNext[n], "approved")
          /\ CompleteWhenFinished(GateOpen)
       \/ /\ ApproveFinalizes(n)
          /\ CanAttempt(n)
          /\ AutoSubmit(n, "approved") \/ AutoAccept(n, "approved", GateOpen)
          /\ CompleteWhenFinished(GateOpen)
       \/ /\ n \in PayNodes \/ ~(ApproveAccepts(n) \/ ApproveFinalizes(n))
          /\ checklist' = [checklist EXCEPT ![n] = "approved"]
          /\ UNCHANGED <<inst, status, acceptances>>
    /\ UNCHANGED <<work, papers, rollback, debt>>

(***************************************************************************)
(* The debt gate of the contract.  A receipt that is approved and a waiver  *)
(* that is granted auto-finalize the handover step being worked on, in the  *)
(* same transaction: if its acceptance is refused they fail with it.        *)
(***************************************************************************)
AutoFinalizeHandover(g) ==
    IF HandoverNode \in Nodes /\ AutoSubmittable(HandoverNode, checklist[HandoverNode], g)
    THEN /\ CanAttempt(HandoverNode)
         /\ \/ AutoSubmit(HandoverNode, checklist[HandoverNode])
            \/ AutoAccept(HandoverNode, checklist[HandoverNode], g)
    ELSE UNCHANGED <<status, checklist, acceptances>>

\* approve_cashflow of a receipt that covers the rest of the debt or only part
\* of it.  A settled contract also completes an instance that was waiting for
\* nothing but the money (_finalize_contract_after_full_payment).
ApproveReceipt(all) ==
    /\ settled' = (settled \/ all)
    /\ AutoFinalizeHandover(settled' \/ waiver = "approved")
    /\ inst' = IF /\ inst = "running" /\ Finished'
                  /\ settled' \/ status' # status
               THEN "completed" ELSE inst
    /\ UNCHANGED <<work, papers, rollback, waiver>>

\* void_cashflow of an approved receipt: the debt is back.
VoidReceipt ==
    /\ settled
    /\ settled' = FALSE
    /\ UNCHANGED <<inst, status, work, evidence, acceptances, rollback, waiver>>

\* create_debt_request
RequestWaiver ==
    /\ HandoverNode \in Nodes
    /\ status[HandoverNode] \in Active
    /\ staff[HandoverNode] # {}
    /\ ~GateOpen
    /\ waiver = "none"
    /\ waiver' = "pending"
    /\ UNCHANGED <<inst, status, work, evidence, acceptances, rollback, settled>>

\* review_debt_request, whatever has become of the step since.
RejectWaiver ==
    /\ waiver = "pending"
    /\ waiver' = "none"
    /\ UNCHANGED <<inst, status, work, evidence, acceptances, rollback, settled>>

\* Broken: the waiver that ends the last step leaves the instance running.
ApproveWaiverLeavesRunning ==
    /\ waiver = "pending"
    /\ waiver' = "approved"
    /\ AutoFinalizeHandover(TRUE)
    /\ UNCHANGED <<inst, work, papers, rollback, settled>>

\* Nothing but the acceptance the waiver triggers completes the instance.
ApproveWaiver ==
    /\ waiver = "pending"
    /\ waiver' = "approved"
    /\ AutoFinalizeHandover(TRUE)
    /\ inst' = IF inst = "running" /\ Finished' /\ status' # status
               THEN "completed" ELSE inst
    /\ UNCHANGED <<work, papers, rollback, settled>>

----------------------------------------------------------------------------
(***************************************************************************)
(* Going back, and giving up.                                              *)
(***************************************************************************)
\* Broken: only the target goes back.
AffectedTarget(t) == {t}

\* _rollback_affected_nodes: the walk along the transitions, or, when that
\* finds no step but the target, the steps whose code is not smaller.
Affected(t) ==
    {m \in Nodes :
        /\ status[m] # "cancelled"
        /\ IF Downstream[t] # {t} THEN m \in Downstream[t] ELSE Code[m] >= Code[t]}

ResetBy(t) == {m \in Affected(t) : status[m] \in Resettable}

\* request_workflow_rollback: one pending request per instance, any target.
RequestRollback(t) ==
    /\ request = NoNode
    /\ requests < MaxRequests
    /\ request' = t
    /\ requests' = requests + 1
    /\ UNCHANGED <<inst, status, work, evidence, acceptances, debt>>

\* review_workflow_rollback, decision "rejected"
RejectRollback ==
    /\ request # NoNode
    /\ request' = NoNode
    /\ UNCHANGED <<inst, status, work, evidence, acceptances, requests, debt>>

\* review_workflow_rollback, decision "approved": cascade_rollback, whatever
\* the status of the instance is.  It takes back every item it resets, and so
\* waits for the verdicts that hold them.
ApproveRollback ==
    /\ request # NoNode
    /\ LET reset == ResetBy(request)
           Reset(f, v) == [m \in Nodes |-> IF m \in reset THEN v ELSE f[m]]
       IN  /\ reset # {}
           /\ reset \cap reviewing = {}
           /\ status' = [m \in Nodes |->
                            IF m \notin reset THEN status[m]
                            ELSE IF m = request THEN "rework_required" ELSE "pending"]
           /\ paused' = Reset(paused, FALSE)
           /\ fieldStarted' = Reset(fieldStarted, FALSE)
           /\ checklist' = Reset(checklist, "pending")
           /\ verdict' = [m \in Nodes |-> IF m \in reset /\ verdict[m] # "none"
                                          THEN "pending_review" ELSE verdict[m]]
           /\ late' = late \ reset
           /\ acceptances' = [m \in Nodes |-> IF m \in reset
                                              THEN ClosePending(m, "rejected")
                                              ELSE acceptances[m]]
    /\ request' = NoNode
    /\ UNCHANGED <<inst, staff, reviewing, uploading, requests, debt>>

\* reopen_survey_work: a legal dossier paused because of the drawing sends the
\* survey step back without a rollback request.  The dossier may be one of
\* another service line of the contract, so no step of this instance guards it;
\* the survey record exists once the step has been opened.
Opened(n) ==
    \/ n = StartNode
    \/ \E m \in Nodes : n \in Succ[m] /\ \E i \in DOMAIN acceptances[m] :
                                             acceptances[m][i] = "accepted"

ReopenSurvey ==
    /\ SurveyNode \in Nodes
    /\ Opened(SurveyNode)
    /\ status[SurveyNode] # "cancelled"
    /\ status' = [status EXCEPT ![SurveyNode] = "rework_required"]
    /\ UNCHANGED <<inst, work, evidence, acceptances, rollback, debt>>

\* cancel_workflow: accepted steps and every piece of evidence are kept; only
\* items nobody handed anything in for are marked not applicable.
Cancel ==
    /\ inst = "running"
    /\ inst' = "cancelled"
    /\ LET open == {m \in Nodes : status[m] \in Unfinished}
       IN  /\ status' = [m \in Nodes |-> IF m \in open THEN "cancelled" ELSE status[m]]
           /\ staff' = [m \in Nodes |-> IF m \in open THEN {} ELSE staff[m]]
           /\ checklist' = [m \in Nodes |->
                               IF m \in open \cap ChecklistNodes /\ checklist[m] = "pending"
                               THEN "not_applicable" ELSE checklist[m]]
           /\ acceptances' = [m \in Nodes |-> IF m \in open
                                              THEN ClosePending(m, "rejected")
                                              ELSE acceptances[m]]
    /\ UNCHANGED <<paused, fieldStarted, papers, rollback, debt>>

----------------------------------------------------------------------------
Next ==
    \/ \E n \in Nodes :
        \/ \E d \in Depts, role \in Roles, startNow \in BOOLEAN : Claim(n, d, role, startNow)
        \/ \E roles \in SUBSET Roles : Reassign(n, roles)
        \/ StartTask(n)
        \/ MarkFieldWorkStarted(n)
        \/ PauseNode(n)
        \/ ResumeNode(n)
        \/ SubmitEvidence(n)
        \/ AuthorizeUpload(n)
        \/ UploadDocument(n)
        \/ Submit(n)
        \/ SubmitHandover(n)
        \/ ReadForVerdict(n)
        \/ \E v \in {"approved", "rejected"} : ReviewDocument(n, v)
        \/ AbandonPaper(n)
        \/ \E next \in Nodes \cup {NoNode} : Accept(n, next)
        \/ Rework(n)
        \/ FailChecklist(n)
        \/ ApproveChecklist(n)
        \/ RequestRollback(n)
        \/ \E role \in Roles : HandOver(n, role)
    \/ \E all \in BOOLEAN : ApproveReceipt(all)
    \/ VoidReceipt
    \/ RequestWaiver
    \/ RejectWaiver
    \/ ApproveWaiver
    \/ ReopenSurvey
    \/ RejectRollback
    \/ ApproveRollback
    \/ Cancel

Spec == Init /\ [][Next]_vars

----------------------------------------------------------------------------
(***************************************************************************)
(* Properties.                                                             *)
(***************************************************************************)
InstStatus    == {"running", "completed", "cancelled"}
StepStatus    == {"pending", "ready", "in_progress", "submitted", "accepted",
                  "rework_required", "cancelled"}
ItemStatus    == {"pending", "pending_approval", "approved", "failed", "not_applicable"}
LinkStatus    == {"none", "pending_review", "approved", "rejected"}
AttemptStatus == {"pending", "accepted", "rework_required", "rejected"}

\* Every row holds values of its column's check constraint.
TypeOK ==
    /\ inst \in InstStatus
    /\ status \in [Nodes -> StepStatus]
    /\ paused \in [Nodes -> BOOLEAN]
    /\ fieldStarted \in [Nodes -> BOOLEAN]
    /\ staff \in [Nodes -> SUBSET Roles]
    /\ checklist \in [Nodes -> ItemStatus]
    /\ verdict \in [Nodes -> LinkStatus]
    /\ reviewing \subseteq Nodes /\ uploading \subseteq Nodes /\ late \subseteq Nodes
    /\ acceptances \in [Nodes -> Seq(AttemptStatus)]
    /\ request \in Nodes \cup {NoNode}
    /\ requests \in Nat
    /\ settled \in BOOLEAN
    /\ waiver \in {"none", "pending", "approved"}

(***************************************************************************)
(* A step waits for a decision exactly when its latest attempt is pending,  *)
(* and every earlier attempt is decided: submit, rework, rollback, cancel   *)
(* and the two automatic paths leave no attempt behind.                    *)
(***************************************************************************)
LatestPending(attempts, s) ==
    /\ s = "submitted" => Len(attempts) > 0
    /\ \A i \in DOMAIN attempts :
          (attempts[i] = "pending") <=> (i = Len(attempts) /\ s = "submitted")

OnePendingAttempt == \A n \in Nodes : LatestPending(acceptances[n], status[n])

(***************************************************************************)
(* An accepted step has only accepted steps before it, on every path, after *)
(* any series of rollbacks, checklist refusals and cancellations.  Needs    *)
(* CodesFollowFlow (below).                                                *)
(***************************************************************************)
AcceptedInOrder ==
    \A n \in Nodes : status[n] = "accepted" => PredecessorsAccepted(n)

(***************************************************************************)
(* While the instance is not cancelled, a step that is ready, worked on or  *)
(* handed in has only accepted steps before it.  Needs a graph without      *)
(* joins: the claim of a pool step looks at no predecessor, so this rests   *)
(* on when steps are unlocked and on what a rollback resets.               *)
(***************************************************************************)
WorkInOrder ==
    inst # "cancelled" =>
        \A n \in Nodes : status[n] \notin {"pending", "accepted"} => PredecessorsAccepted(n)

(***************************************************************************)
(* A running instance always has a step somebody can act on, unless every   *)
(* step is accepted: no series of handlers leaves only pending steps that   *)
(* nothing will unlock.  Needs a chain and CodesFollowFlow.                *)
(***************************************************************************)
NoDeadEnd ==
    inst = "running" =>
        \/ \E n \in Nodes : /\ status[n] \in Active \cup {"ready", "submitted"}
                            /\ PredecessorsAccepted(n)
        \/ \A n \in Nodes : status[n] = "accepted"

(***************************************************************************)
(* A step that is being worked on or waits for a decision has somebody on   *)
(* it: reassignment, claims and rollbacks never leave it in no one's hands. *)
(***************************************************************************)
WorkIsStaffed ==
    \A n \in Nodes : status[n] \in {"in_progress", "submitted"} => staff[n] # {}

(***************************************************************************)
(* What is accepted was judged: its checklist item is settled, and its      *)
(* current document is not waiting for, or refused by, the Director ("đóng  *)
(* bước khi còn tờ 'pending_review' là chốt hồ sơ với giấy chưa ai đọc").   *)
(* The one way around it: the document or the verdict was read for before   *)
(* the acceptance and written after it.                                    *)
(***************************************************************************)
ItemSettled(n) ==
    status[n] = "accepted" => ChecklistIn(n, {"approved", "not_applicable"}, checklist[n])

DocumentRead(n) ==
    status[n] = "accepted" /\ n \notin late => verdict[n] \notin {"pending_review", "rejected"}

AcceptedIsReviewed == \A n \in Nodes : ItemSettled(n) /\ DocumentRead(n)

(***************************************************************************)
(* A decided acceptance attempt is never changed or dropped: the history    *)
(* that pay and KPI are computed from is append-only.                      *)
(***************************************************************************)
Continues(a, b) ==
    \A i \in DOMAIN a : i \in DOMAIN b /\ (a[i] # "pending" => b[i] = a[i])

HistoryGrows == \A n \in Nodes : Continues(acceptances[n], acceptances'[n])

HistoryKept == [][HistoryGrows]_vars

(***************************************************************************)
(* Only an approved rollback takes an acceptance back, and only of its      *)
(* target and the steps behind it ("không ai được tự lùi bước", "các bước   *)
(* TRƯỚC điểm quay lại đã nghiệm thu thì giữ nguyên 100%").                *)
(***************************************************************************)
UndoneByRollback ==
    \A n \in Nodes : status[n] = "accepted" /\ status'[n] # "accepted" =>
        /\ request # NoNode /\ request' = NoNode
        /\ n \in Downstream[request]

OnlyRollbackUndoes == [][UndoneByRollback]_vars

(***************************************************************************)
(* "Terminally cancel one workflow": once cancelled, no step is worked on   *)
(* or waits for a decision again.                                          *)
(***************************************************************************)
CancelIsTerminal ==
    inst = "cancelled" => \A n \in Nodes : status[n] \in {"accepted", "cancelled"}

(***************************************************************************)
(* A paused step is not closed: the pause guards the way to acceptance      *)
(* (node_pause_block).                                                     *)
(***************************************************************************)
PausedIsNotClosed ==
    \A n \in Nodes : paused[n] => status[n] \notin {"submitted", "accepted"}

(***************************************************************************)
(* A document the Director refused can be replaced while the step is in     *)
(* rework: the message of submit tells the employee to upload it again.    *)
(***************************************************************************)
RefusedCanBeReplaced ==
    \A n \in DocNodes :
        status[n] = "rework_required" /\ verdict[n] = "rejected" /\ staff[n] # {}
            => checklist[n] # "approved"

(***************************************************************************)
(* An instance all of whose steps are accepted does not stay running once   *)
(* the debt gate is open, whichever of the Director's four signatures came  *)
(* last: the acceptance, the checklist, the receipt or the waiver.  Needs   *)
(* the handover to be the last step: on MCFork a receipt voided between     *)
(* the two acceptances leaves the completion to a waiver that skips it.     *)
(***************************************************************************)
AllAcceptedCompletes ==
    GateOpen /\ (\A n \in Nodes : status[n] = "accepted") => inst # "running"

(***************************************************************************)
(* The handover step is accepted and the instance completes only while the *)
(* debt gate is open, on each of the paths that accept or complete: the     *)
(* Director's, the checklist's, the receipt's and the waiver's.            *)
(***************************************************************************)
MoneyBeforeClose ==
    [][\/ /\ HandoverNode \in Nodes
          /\ status[HandoverNode] # "accepted" /\ status'[HandoverNode] = "accepted"
       \/ HandoverNode \in Nodes /\ inst = "running" /\ inst' = "completed"
       => GateOpen']_vars

(***************************************************************************)
(* The accepted steps behave as StepOrder says: the contract of the engine *)
(* with everything built on it.  Needs CodesFollowFlow and no survey step   *)
(* that a legal dossier reopens.                                           *)
(***************************************************************************)
Order == INSTANCE StepOrder
            WITH Steps <- Nodes, Before <- Ancestors,
                 done <- {n \in Nodes : status[n] = "accepted"}

ImplementsStepOrder == Order!Spec

----------------------------------------------------------------------------
(***************************************************************************)
(* Graphs under which the properties above are claimed.                    *)
(***************************************************************************)
\* The codes grow along the flow ("mã bước CHÍNH LÀ thứ tự chạy").
CodesFollowFlow == \A n \in Nodes : \A m \in Ancestors[n] : Code[m] < Code[n]

\* A step nothing follows has the greatest code, so that the rollback to it,
\* which goes by the codes, reaches no other step.
EndIsLast ==
    \A t \in Nodes : Downstream[t] = {t} => \A m \in Nodes \ {t} : Code[m] < Code[t]

\* The catalogue without a survey step, which reopen_survey_work finds none for.
NoReopening == SurveyNode = NoNode

\* No step has two ways in and none leads back to the start.
NoJoins ==
    /\ \A n \in Nodes : StartNode \notin Succ[n]
    /\ \A m, n \in Nodes : m # n => Succ[m] \cap Succ[n] = {}

\* At most one way out, and every step is reached from the start.
Linear ==
    /\ NoJoins
    /\ \A n \in Nodes : Succ[n] = {} \/ Succ[n] = {DefaultNext[n]}
    /\ Downstream[StartNode] = Nodes

\* The handover step, when the graph has one, comes after every other step.
HandoverIsLast ==
    HandoverNode \in Nodes => Nodes \ {HandoverNode} \subseteq Ancestors[HandoverNode]
=============================================================================
