----------------------- MODULE WorkflowRuntime_proofs -----------------------
(***************************************************************************)
(* Theorems of WorkflowRuntime for every graph, catalogue and bound.       *)
(***************************************************************************)
EXTENDS WorkflowRuntime, SequenceTheorems, TLAPS

----------------------------------------------------------------------------
(***************************************************************************)
(* The graph.                                                              *)
(***************************************************************************)
\* A walk that starts at n passes n.
LEMMA DownstreamReflexive == \A n \in Nodes : n \in Downstream[n]
  BY DEF Downstream

\* A walk that passes m goes on to every target of m.
LEMMA DownstreamClosed == \A n \in Nodes : Closed(Downstream[n])
<1> SUFFICES ASSUME NEW n \in Nodes, NEW m \in Downstream[n], NEW k \in Succ[m]
             PROVE  k \in Downstream[n]
  BY DEF Closed
<1>1. m \in Nodes /\ k \in Nodes
  BY GraphAssumption DEF Downstream
<1>2. ASSUME NEW S \in SUBSET Nodes, n \in S, Closed(S) PROVE k \in S
  BY <1>2, <1>1 DEF Downstream, Closed
<1> QED
  BY <1>1, <1>2 DEF Downstream

\* A set of steps that no transition leads out of holds, with a step, every
\* step it is an ancestor of.
LEMMA ClosedHoldsDescendants ==
  ASSUME NEW S \in SUBSET Nodes, Closed(S), NEW m \in S, NEW n \in Nodes, m \in Ancestors[n]
  PROVE  n \in S
<1>1. PICK s \in Succ[m] : n \in Downstream[s]
  BY DEF Ancestors
<1>2. s \in S /\ s \in Nodes
  BY GraphAssumption DEF Closed
<1> QED
  BY <1>1, <1>2 DEF Downstream

\* The ancestors of a step are steps of the graph.
LEMMA AncestorsType == \A n \in Nodes : Ancestors[n] \subseteq Nodes
  BY DEF Ancestors

\* What a rollback to t reaches is closed, by the walk or by the codes.
LEMMA AffectedHoldsDescendants ==
  ASSUME CodesFollowFlow, NEW t \in Nodes, NEW m \in Affected(t), NEW n \in Nodes,
         m \in Ancestors[n], status[n] # "cancelled"
  PROVE  n \in Affected(t)
<1>1. CASE Downstream[t] # {t}
  <2>1. Downstream[t] \in SUBSET Nodes /\ Closed(Downstream[t]) /\ m \in Downstream[t]
    BY <1>1, DownstreamClosed DEF Affected, Downstream
  <2>2. n \in Downstream[t]
    BY <2>1, ClosedHoldsDescendants
  <2> QED
    BY <1>1, <2>2 DEF Affected
<1>2. CASE Downstream[t] = {t}
  <2>1. Code[m] >= Code[t] /\ m \in Nodes
    BY <1>2 DEF Affected
  <2>2. Code[m] < Code[n]
    BY DEF CodesFollowFlow
  <2>3. Code[n] >= Code[t]
    BY <2>1, <2>2, GraphAssumption
  <2> QED
    BY <1>2, <2>3 DEF Affected
<1> QED
  BY <1>1, <1>2

----------------------------------------------------------------------------
(***************************************************************************)
(* The acceptance attempts of one step.                                    *)
(***************************************************************************)
\* Closing the pending attempts keeps their number and their statuses legal.
LEMMA ClosePendingType ==
  ASSUME NEW n \in Nodes, acceptances[n] \in Seq(AttemptStatus), NEW s \in AttemptStatus
  PROVE  /\ ClosePending(n, s) \in Seq(AttemptStatus)
         /\ Len(ClosePending(n, s)) = Len(acceptances[n])
         /\ DOMAIN ClosePending(n, s) = DOMAIN acceptances[n]
<1> DEFINE L == Len(acceptances[n])
           e(i) == IF acceptances[n][i] = "pending" THEN s ELSE acceptances[n][i]
<1>1. L \in Nat /\ DOMAIN acceptances[n] = 1..L
  BY LenProperties
<1>2. ClosePending(n, s) = [i \in 1..L |-> e(i)]
  BY <1>1 DEF ClosePending
<1>3. \A i \in 1..L : e(i) \in AttemptStatus
  BY <1>1, ElementOfSeq
<1> HIDE DEF e
<1>4. [i \in 1..L |-> e(i)] \in Seq(AttemptStatus)
  BY <1>1, <1>3, IsASeq
<1>5. Len([i \in 1..L |-> e(i)]) = L
  BY <1>1, <1>4, LenProperties
<1> QED
  BY <1>1, <1>2, <1>4, <1>5

\* Closing the pending attempts leaves none, so the step may be in any state
\* but "submitted".
LEMMA ClosePendingNone ==
  ASSUME NEW n \in Nodes, acceptances[n] \in Seq(AttemptStatus),
         NEW d \in AttemptStatus \ {"pending"}, NEW s, s # "submitted"
  PROVE  LatestPending(ClosePending(n, d), s)
  BY ClosePendingType DEF LatestPending, ClosePending

\* Deciding the pending attempt of a submitted step leaves none.
LEMMA DecideNone ==
  ASSUME TypeOK, OnePendingAttempt, NEW n \in Nodes, NEW i \in DOMAIN acceptances[n],
         acceptances[n][i] = "pending", NEW d \in AttemptStatus \ {"pending"},
         NEW s, s # "submitted"
  PROVE  /\ [acceptances[n] EXCEPT ![i] = d] \in Seq(AttemptStatus)
         /\ LatestPending([acceptances[n] EXCEPT ![i] = d], s)
<1> DEFINE a == acceptances[n]
           b == [a EXCEPT ![i] = d]
<1>1. a \in Seq(AttemptStatus) /\ DOMAIN a = 1..Len(a) /\ Len(a) \in Nat
  BY LenProperties DEF TypeOK
<1>2. b \in Seq(AttemptStatus) /\ Len(b) = Len(a)
  BY <1>1, ExceptSeq
<1>3. \A j \in DOMAIN b : b[j] # "pending"
  <2> SUFFICES ASSUME NEW j \in DOMAIN b PROVE b[j] # "pending"
    OBVIOUS
  <2>1. j \in DOMAIN a /\ (j # i => b[j] = a[j]) /\ (j = i => b[j] = d)
    OBVIOUS
  <2>2. i = Len(a)
    BY DEF OnePendingAttempt, LatestPending
  <2>3. j # i => a[j] # "pending"
    BY <2>1, <2>2 DEF OnePendingAttempt, LatestPending
  <2> QED
    BY <2>1, <2>3
<1> QED
  BY <1>2, <1>3 DEF LatestPending

\* A new attempt of a step that waits for nothing is the only open one.
LEMMA AppendLatest ==
  ASSUME TypeOK, OnePendingAttempt, NEW n \in Nodes, status[n] # "submitted",
         NEW d \in AttemptStatus, NEW s, s = "submitted" <=> d = "pending"
  PROVE  /\ Append(acceptances[n], d) \in Seq(AttemptStatus)
         /\ LatestPending(Append(acceptances[n], d), s)
<1> DEFINE a == acceptances[n]
           b == Append(a, d)
<1>1. a \in Seq(AttemptStatus) /\ DOMAIN a = 1..Len(a) /\ Len(a) \in Nat
  BY LenProperties DEF TypeOK
<1>2. /\ b \in Seq(AttemptStatus) /\ Len(b) = Len(a) + 1 /\ DOMAIN b = 1..(Len(a) + 1)
      /\ \A j \in 1..Len(a) : b[j] = a[j]
      /\ b[Len(a) + 1] = d
  BY <1>1, AppendProperties, LenProperties
<1>3. \A j \in 1..Len(a) : a[j] # "pending"
  BY <1>1 DEF OnePendingAttempt, LatestPending
<1> QED
  BY <1>1, <1>2, <1>3 DEF LatestPending

\* A step that neither was nor is submitted may change its status freely.
LEMMA StatusMoves ==
  ASSUME NEW a, NEW s, NEW t, LatestPending(a, s), s # "submitted", t # "submitted"
  PROVE  LatestPending(a, t)
  BY DEF LatestPending

----------------------------------------------------------------------------
\* The steps of an upload and of a verdict that write nothing anybody reads.
PaperUnderWay(n) == AuthorizeUpload(n) \/ ReadForVerdict(n) \/ AbandonPaper(n)

----------------------------------------------------------------------------
(***************************************************************************)
(* Type correctness.                                                       *)
(***************************************************************************)
USE DEF work, evidence, papers, rollback, debt, WritePaper, PaperUnderWay, ItemSettled,
        DocumentRead, InstStatus, StepStatus, ItemStatus, LinkStatus, AttemptStatus

\* A new attempt keeps the attempts of a step a sequence of legal statuses.
LEMMA AppendType ==
  ASSUME TypeOK, NEW n \in Nodes, NEW d \in AttemptStatus
  PROVE  Append(acceptances[n], d) \in Seq(AttemptStatus)
  BY AppendProperties DEF TypeOK

\* The three ways to write status, checklist and acceptances at once.
LEMMA FinalizeType ==
  ASSUME TypeOK, NEW n \in Nodes, NEW next, NEW c \in ItemStatus, NEW g,
         \/ /\ AutoSubmit(n, c) \/ AutoAccept(n, c, g)
         \/ DecideAttempt(n, "accepted") /\ AcceptNode(n, next, c)
  PROVE  /\ status' \in [Nodes -> StepStatus]
         /\ checklist' \in [Nodes -> ItemStatus]
         /\ acceptances' \in [Nodes -> Seq(AttemptStatus)]
<1>1. CASE AutoSubmit(n, c)
  BY <1>1, AppendType DEF TypeOK, AutoSubmit
<1>2. CASE AutoAccept(n, c, g)
  BY <1>2, AppendType DEF TypeOK, AutoAccept, AcceptNode, AfterAcceptance
<1>3. CASE DecideAttempt(n, "accepted") /\ AcceptNode(n, next, c)
  <2>1. acceptances' \in [Nodes -> Seq(AttemptStatus)]
    BY <1>3, ExceptSeq DEF TypeOK, DecideAttempt
  <2> QED
    BY <1>3, <2>1 DEF TypeOK, AcceptNode, AfterAcceptance
<1> QED
  BY <1>1, <1>2, <1>3

\* The auto-finalization of the handover step keeps the three columns typed.
LEMMA AutoFinalizeType ==
  ASSUME TypeOK, NEW g, AutoFinalizeHandover(g)
  PROVE  /\ status' \in [Nodes -> StepStatus]
         /\ checklist' \in [Nodes -> ItemStatus]
         /\ acceptances' \in [Nodes -> Seq(AttemptStatus)]
<1>1. CASE HandoverNode \in Nodes /\ AutoSubmittable(HandoverNode, checklist[HandoverNode], g)
  <2>1. checklist[HandoverNode] \in ItemStatus
    BY <1>1 DEF TypeOK
  <2>2. \/ AutoSubmit(HandoverNode, checklist[HandoverNode])
        \/ AutoAccept(HandoverNode, checklist[HandoverNode], g)
    BY <1>1 DEF AutoFinalizeHandover
  <2> QED
    BY <1>1, <2>1, <2>2, FinalizeType
<1>2. CASE ~(/\ HandoverNode \in Nodes
             /\ AutoSubmittable(HandoverNode, checklist[HandoverNode], g))
  BY <1>2 DEF AutoFinalizeHandover, TypeOK
<1> QED
  BY <1>1, <1>2

\* Every reachable state has the types of the columns.
THEOREM TypeCorrect == Spec => []TypeOK
<1>1. Init => TypeOK
  BY GraphAssumption, CatalogAssumption DEF Init, TypeOK, Roles
<1>2. TypeOK /\ [Next]_vars => TypeOK'
  <2> SUFFICES ASSUME TypeOK, [Next]_vars PROVE TypeOK'
    OBVIOUS
  <2>0. CASE UNCHANGED vars
    BY <2>0 DEF TypeOK, vars
  <2> USE DEF TypeOK
  <2>1. ASSUME NEW n \in Nodes, NEW d \in Depts, NEW role \in Roles, NEW startNow \in BOOLEAN,
               Claim(n, d, role, startNow)
        PROVE  TypeOK'
    BY <2>1 DEF Claim, Roles
  <2>2. ASSUME NEW n \in Nodes, NEW roles \in SUBSET Roles, Reassign(n, roles) PROVE TypeOK'
    BY <2>2 DEF Reassign
  <2>3. ASSUME NEW n \in Nodes, NEW role \in Roles, HandOver(n, role) PROVE TypeOK'
    BY <2>3 DEF HandOver
  <2>4. ASSUME NEW n \in Nodes,
               \/ StartTask(n) \/ MarkFieldWorkStarted(n) \/ PauseNode(n) \/ ResumeNode(n)
               \/ SubmitEvidence(n) \/ UploadDocument(n) \/ PaperUnderWay(n)
        PROVE  TypeOK'
    BY <2>4 DEF StartTask, MarkFieldWorkStarted, PauseNode, ResumeNode, SubmitEvidence,
                UploadDocument, AuthorizeUpload, ReadForVerdict, AbandonPaper
  <2>5. ASSUME NEW n \in Nodes, Submit(n) \/ SubmitHandover(n) PROVE TypeOK'
    <3>1. acceptances' = [acceptances EXCEPT ![n] = Append(@, "pending")]
      BY <2>5 DEF Submit, SubmitHandover
    <3>2. acceptances' \in [Nodes -> Seq(AttemptStatus)]
      BY <3>1, AppendType
    <3> QED
      BY <2>5, <3>2 DEF Submit, SubmitHandover
  <2>6. ASSUME NEW n \in Nodes, NEW v \in {"approved", "rejected"}, ReviewDocument(n, v)
        PROVE  TypeOK'
    BY <2>6 DEF ReviewDocument
  <2>7. ASSUME NEW n \in Nodes, NEW next \in Nodes \cup {NoNode}, Accept(n, next)
        PROVE  TypeOK'
    <3>1. checklist[n] \in ItemStatus
      OBVIOUS
    <3> QED
      BY <2>7, <3>1, FinalizeType DEF Accept, CompleteWhenFinished
  <2>8. ASSUME NEW n \in Nodes, Rework(n) PROVE TypeOK'
    <3>1. acceptances' \in [Nodes -> Seq(AttemptStatus)]
      BY <2>8, ExceptSeq DEF Rework, DecideAttempt
    <3> QED
      BY <2>8, <3>1 DEF Rework
  <2>9. ASSUME NEW n \in Nodes, FailChecklist(n) PROVE TypeOK'
    BY <2>9, ClosePendingType DEF FailChecklist
  <2>10. ASSUME NEW n \in Nodes, ApproveChecklist(n) PROVE TypeOK'
    <3>1. /\ status' \in [Nodes -> StepStatus]
          /\ checklist' \in [Nodes -> ItemStatus]
          /\ acceptances' \in [Nodes -> Seq(AttemptStatus)]
      <4>1. CASE checklist' = [checklist EXCEPT ![n] = "approved"]
                 /\ UNCHANGED <<inst, status, acceptances>>
        BY <4>1
      <4>2. CASE \/ AutoSubmit(n, "approved") \/ AutoAccept(n, "approved", GateOpen)
                 \/ DecideAttempt(n, "accepted") /\ AcceptNode(n, DefaultNext[n], "approved")
        BY <4>2, FinalizeType
      <4> QED
        BY <2>10, <4>1, <4>2 DEF ApproveChecklist
    <3> QED
      BY <2>10, <3>1 DEF ApproveChecklist, CompleteWhenFinished
  <2>11. ASSUME NEW all \in BOOLEAN, ApproveReceipt(all) PROVE TypeOK'
    BY <2>11, AutoFinalizeType DEF ApproveReceipt
  <2>12. CASE ApproveWaiver
    BY <2>12, AutoFinalizeType DEF ApproveWaiver
  <2>13. CASE VoidReceipt \/ RequestWaiver \/ RejectWaiver \/ ReopenSurvey \/ RejectRollback
    BY <2>13 DEF VoidReceipt, RequestWaiver, RejectWaiver, ReopenSurvey, RejectRollback
  <2>14. ASSUME NEW n \in Nodes, RequestRollback(n) PROVE TypeOK'
    BY <2>14 DEF RequestRollback
  <2>15. CASE ApproveRollback
    BY <2>15, ClosePendingType DEF ApproveRollback
  <2>16. CASE Cancel
    BY <2>16, ClosePendingType DEF Cancel
  <2> QED
    BY <2>0, <2>1, <2>2, <2>3, <2>4, <2>5, <2>6, <2>7, <2>8, <2>9, <2>10, <2>11, <2>12,
       <2>13, <2>14, <2>15, <2>16 DEF Next
<1> QED
  BY <1>1, <1>2, PTL DEF Spec

----------------------------------------------------------------------------
(***************************************************************************)
(* Acceptance attempts.                                                    *)
(***************************************************************************)
\* The step n takes a new attempt or a decision and no other step takes part,
\* but that the next step may open.
LEMMA FinalizeAttempts ==
  ASSUME TypeOK, OnePendingAttempt, NEW n \in Nodes, NEW next, NEW c, NEW g,
         \/ status[n] # "submitted" /\ (AutoSubmit(n, c) \/ AutoAccept(n, c, g))
         \/ DecideAttempt(n, "accepted") /\ AcceptNode(n, next, c)
  PROVE  OnePendingAttempt'
<1> SUFFICES ASSUME NEW m \in Nodes PROVE LatestPending(acceptances'[m], status'[m])
  BY DEF OnePendingAttempt
<1>0. LatestPending(acceptances[m], status[m])
  BY DEF OnePendingAttempt
<1>1. CASE status[n] # "submitted" /\ AutoSubmit(n, c)
  <2>1. LatestPending(Append(acceptances[n], "pending"), "submitted")
    BY <1>1, AppendLatest
  <2> QED
    BY <1>0, <1>1, <2>1 DEF AutoSubmit, TypeOK
<1>2. CASE status[n] # "submitted" /\ AutoAccept(n, c, g)
  <2>1. LatestPending(Append(acceptances[n], "accepted"), "accepted")
    BY <1>2, AppendLatest
  <2>2. acceptances' = [acceptances EXCEPT ![n] = Append(@, "accepted")]
        /\ status' = AfterAcceptance(n, DefaultNext[n])
    BY <1>2 DEF AutoAccept, AcceptNode
  <2>3. CASE m = n
    BY <2>1, <2>2, <2>3 DEF AfterAcceptance, TypeOK
  <2>4. CASE m # n
    <3>1. /\ acceptances'[m] = acceptances[m]
          /\ \/ status'[m] = status[m]
             \/ status[m] = "pending" /\ status'[m] = "ready"
      BY <2>2, <2>4 DEF AfterAcceptance, TypeOK
    <3> QED
      BY <1>0, <3>1 DEF LatestPending
  <2> QED
    BY <2>3, <2>4
<1>3. CASE DecideAttempt(n, "accepted") /\ AcceptNode(n, next, c)
  <2>1. PICK i \in DOMAIN acceptances[n] :
             /\ acceptances[n][i] = "pending"
             /\ acceptances' = [acceptances EXCEPT ![n][i] = "accepted"]
    BY <1>3 DEF DecideAttempt
  <2>2. LatestPending([acceptances[n] EXCEPT ![i] = "accepted"], "accepted")
    BY <2>1, DecideNone
  <2>3. status' = AfterAcceptance(n, next)
    BY <1>3 DEF AcceptNode
  <2>4. CASE m = n
    <3>1. acceptances'[m] = [acceptances[n] EXCEPT ![i] = "accepted"] /\ status'[m] = "accepted"
      BY <2>1, <2>3, <2>4 DEF AfterAcceptance, TypeOK
    <3> QED
      BY <2>2, <3>1
  <2>5. CASE m # n
    <3>1. /\ acceptances'[m] = acceptances[m]
          /\ \/ status'[m] = status[m]
             \/ status[m] = "pending" /\ status'[m] = "ready"
      BY <2>1, <2>3, <2>5 DEF AfterAcceptance, TypeOK
    <3> QED
      BY <1>0, <3>1 DEF LatestPending
  <2> QED
    BY <2>4, <2>5
<1> QED
  BY <1>1, <1>2, <1>3

\* The auto-finalization of the handover step leaves at most one open attempt.
LEMMA AutoFinalizeAttempts ==
  ASSUME TypeOK, OnePendingAttempt, NEW g, AutoFinalizeHandover(g)
  PROVE  OnePendingAttempt'
<1>1. CASE HandoverNode \in Nodes /\ AutoSubmittable(HandoverNode, checklist[HandoverNode], g)
  <2>1. /\ status[HandoverNode] # "submitted"
        /\ \/ AutoSubmit(HandoverNode, checklist[HandoverNode])
           \/ AutoAccept(HandoverNode, checklist[HandoverNode], g)
    BY <1>1 DEF AutoFinalizeHandover, AutoSubmittable
  <2> QED
    BY <1>1, <2>1, FinalizeAttempts
<1>2. CASE ~(/\ HandoverNode \in Nodes
             /\ AutoSubmittable(HandoverNode, checklist[HandoverNode], g))
  BY <1>2 DEF AutoFinalizeHandover, OnePendingAttempt
<1> QED
  BY <1>1, <1>2

\* One open attempt at most, the latest, and exactly while the step is
\* submitted: on every graph, as long as no legal dossier reopens the survey.
THEOREM OnePendingHolds ==
  ASSUME NoReopening
  PROVE  Spec => []OnePendingAttempt
<1>1. Init => OnePendingAttempt
  BY DEF Init, OnePendingAttempt, LatestPending
<1>2. TypeOK /\ OnePendingAttempt /\ [Next]_vars => OnePendingAttempt'
  <2> SUFFICES ASSUME TypeOK, OnePendingAttempt, [Next]_vars PROVE OnePendingAttempt'
    OBVIOUS
  <2> DEFINE Same(m) == /\ acceptances'[m] = acceptances[m]
                        /\ \/ status'[m] = status[m]
                           \/ status[m] # "submitted" /\ status'[m] # "submitted"
  <2>0. ASSUME \A m \in Nodes : Same(m) \/ LatestPending(acceptances'[m], status'[m])
        PROVE  OnePendingAttempt'
    BY <2>0, StatusMoves DEF OnePendingAttempt
  <2>1. CASE UNCHANGED vars
    BY <2>0, <2>1 DEF vars
  <2>2. ASSUME NEW n \in Nodes, NEW d \in Depts, NEW role \in Roles, NEW startNow \in BOOLEAN,
               Claim(n, d, role, startNow)
        PROVE  OnePendingAttempt'
    BY <2>0, <2>2 DEF Claim, TypeOK
  <2>3. ASSUME NEW n \in Nodes, NEW roles \in SUBSET Roles, Reassign(n, roles)
        PROVE  OnePendingAttempt'
    BY <2>0, <2>3 DEF Reassign
  <2>4. ASSUME NEW n \in Nodes, NEW role \in Roles, HandOver(n, role)
        PROVE  OnePendingAttempt'
    BY <2>0, <2>4 DEF HandOver, TypeOK
  <2>5. ASSUME NEW n \in Nodes,
               \/ StartTask(n) \/ MarkFieldWorkStarted(n) \/ PauseNode(n) \/ ResumeNode(n)
               \/ SubmitEvidence(n) \/ UploadDocument(n) \/ PaperUnderWay(n)
        PROVE  OnePendingAttempt'
    BY <2>0, <2>5 DEF StartTask, MarkFieldWorkStarted, PauseNode, ResumeNode, SubmitEvidence,
                      UploadDocument,
                      AuthorizeUpload, ReadForVerdict, AbandonPaper, Active, TypeOK
  <2>6. ASSUME NEW n \in Nodes, Submit(n) \/ SubmitHandover(n) PROVE OnePendingAttempt'
    <3>1. LatestPending(Append(acceptances[n], "pending"), "submitted")
      BY <2>6, AppendLatest DEF Submit, SubmitHandover, Active
    <3> QED
      BY <2>0, <2>6, <3>1 DEF Submit, SubmitHandover, TypeOK
  <2>7. ASSUME NEW n \in Nodes, NEW v \in {"approved", "rejected"}, ReviewDocument(n, v)
        PROVE  OnePendingAttempt'
    BY <2>0, <2>7 DEF ReviewDocument
  <2>8. ASSUME NEW n \in Nodes, NEW next \in Nodes \cup {NoNode}, Accept(n, next)
        PROVE  OnePendingAttempt'
    BY <2>8, FinalizeAttempts DEF Accept
  <2>9. ASSUME NEW n \in Nodes, Rework(n) PROVE OnePendingAttempt'
    <3>1. PICK i \in DOMAIN acceptances[n] :
               /\ acceptances[n][i] = "pending"
               /\ acceptances' = [acceptances EXCEPT ![n][i] = "rework_required"]
      BY <2>9 DEF Rework, DecideAttempt
    <3>2. LatestPending([acceptances[n] EXCEPT ![i] = "rework_required"], "rework_required")
      BY <3>1, DecideNone
    <3>3. /\ acceptances'[n] = [acceptances[n] EXCEPT ![i] = "rework_required"]
          /\ status'[n] = "rework_required"
      BY <2>9, <3>1 DEF Rework, TypeOK
    <3>4. \A m \in Nodes \ {n} : Same(m)
      BY <2>9, <3>1 DEF Rework, TypeOK
    <3> QED
      BY <2>0, <3>2, <3>3, <3>4
  <2>10. ASSUME NEW n \in Nodes, FailChecklist(n) PROVE OnePendingAttempt'
    <3>1. LatestPending(ClosePending(n, "rework_required"), "rework_required")
      BY ClosePendingNone DEF TypeOK
    <3> QED
      BY <2>0, <2>10, <3>1 DEF FailChecklist, TypeOK
  <2>11. ASSUME NEW n \in Nodes, ApproveChecklist(n) PROVE OnePendingAttempt'
    <3>1. CASE UNCHANGED <<status, acceptances>>
      BY <2>0, <3>1
    <3>2. CASE \/ /\ status[n] # "submitted"
                  /\ AutoSubmit(n, "approved") \/ AutoAccept(n, "approved", GateOpen)
               \/ DecideAttempt(n, "accepted") /\ AcceptNode(n, DefaultNext[n], "approved")
      BY <3>2, FinalizeAttempts
    <3> QED
      BY <2>11, <3>1, <3>2 DEF ApproveChecklist, ApproveFinalizes, AutoSubmittable
  <2>12. ASSUME NEW all \in BOOLEAN, ApproveReceipt(all) PROVE OnePendingAttempt'
    BY <2>12, AutoFinalizeAttempts DEF ApproveReceipt
  <2>13. CASE ApproveWaiver
    BY <2>13, AutoFinalizeAttempts DEF ApproveWaiver
  <2>14. CASE VoidReceipt \/ RequestWaiver \/ RejectWaiver \/ RejectRollback
    BY <2>0, <2>14 DEF VoidReceipt, RequestWaiver, RejectWaiver, RejectRollback
  <2>15. ~ReopenSurvey
    BY GraphAssumption DEF NoReopening, ReopenSurvey
  <2>16. ASSUME NEW n \in Nodes, RequestRollback(n) PROVE OnePendingAttempt'
    BY <2>0, <2>16 DEF RequestRollback
  <2>17. CASE ApproveRollback
    <3>1. \A m \in Nodes : /\ LatestPending(ClosePending(m, "rejected"), "pending")
                           /\ LatestPending(ClosePending(m, "rejected"), "rework_required")
      BY ClosePendingNone DEF TypeOK
    <3> QED
      BY <2>0, <2>17, <3>1 DEF ApproveRollback
  <2>18. CASE Cancel
    <3>1. \A m \in Nodes : LatestPending(ClosePending(m, "rejected"), "cancelled")
      BY ClosePendingNone DEF TypeOK
    <3> QED
      BY <2>0, <2>18, <3>1 DEF Cancel
  <2> QED
    BY <2>1, <2>2, <2>3, <2>4, <2>5, <2>6, <2>7, <2>8, <2>9, <2>10, <2>11, <2>12, <2>13,
       <2>14, <2>15, <2>16, <2>17, <2>18 DEF Next
<1> QED
  BY <1>1, <1>2, TypeCorrect, PTL DEF Spec

----------------------------------------------------------------------------
(***************************************************************************)
(* Evidence.                                                               *)
(***************************************************************************)
\* Whoever accepts a step has asked for its evidence, and settles its item.
LEMMA AcceptReviewed ==
  ASSUME TypeOK, AcceptedIsReviewed, NEW n \in Nodes, NEW next, NEW c, NEW g,
         MayAccept(n, c, g), AcceptNode(n, next, c), UNCHANGED papers
  PROVE  AcceptedIsReviewed'
<1> SUFFICES ASSUME NEW m \in Nodes, status'[m] = "accepted"
             PROVE  /\ m \in ChecklistNodes => checklist'[m] \in {"approved", "not_applicable"}
                    /\ m \notin late => verdict[m] \notin {"pending_review", "rejected"}
  BY DEF AcceptedIsReviewed, ChecklistIn
<1>1. CASE m = n
  BY <1>1 DEF AcceptNode, MayAccept, ChecklistIn, Submitted, TypeOK
<1>2. CASE m # n
  BY <1>2 DEF AcceptNode, AfterAcceptance, AcceptedIsReviewed, ChecklistIn, TypeOK
<1> QED
  BY <1>1, <1>2

\* The auto-finalization of the handover step accepts nothing unjudged.
LEMMA AutoFinalizeReviewed ==
  ASSUME TypeOK, AcceptedIsReviewed, NEW g, AutoFinalizeHandover(g), UNCHANGED papers
  PROVE  AcceptedIsReviewed'
<1>1. CASE HandoverNode \in Nodes /\ AutoSubmittable(HandoverNode, checklist[HandoverNode], g)
  <2> DEFINE c == checklist[HandoverNode]
  <2>1. CASE AutoSubmit(HandoverNode, c)
    BY <1>1, <2>1 DEF AutoSubmit, AcceptedIsReviewed, TypeOK
  <2>2. CASE AutoAccept(HandoverNode, c, g)
    BY <1>1, <2>2, AcceptReviewed DEF AutoAccept
  <2> QED
    BY <1>1, <2>1, <2>2 DEF AutoFinalizeHandover
<1>2. CASE ~(/\ HandoverNode \in Nodes
             /\ AutoSubmittable(HandoverNode, checklist[HandoverNode], g))
  BY <1>2 DEF AutoFinalizeHandover, AcceptedIsReviewed
<1> QED
  BY <1>1, <1>2

\* The only writer of the item of an accepted step is a rollback, which takes
\* the acceptance back with it.
LEMMA ReviewedStep ==
  ASSUME TypeOK, AcceptedIsReviewed, [Next]_vars
  PROVE  AcceptedIsReviewed'
<1> DEFINE Kept(m) == /\ status[m] = "accepted" /\ checklist'[m] = checklist[m]
                      /\ m \in late' \/ (verdict'[m] = verdict[m] /\ m \notin late)
<1>0. ASSUME \A m \in Nodes : status'[m] # "accepted" \/ Kept(m)
      PROVE  AcceptedIsReviewed'
  BY <1>0 DEF AcceptedIsReviewed, ChecklistIn
<1>1. CASE UNCHANGED vars
  BY <1>0, <1>1 DEF vars
<1>2. ASSUME NEW n \in Nodes, NEW d \in Depts, NEW role \in Roles, NEW startNow \in BOOLEAN,
             Claim(n, d, role, startNow)
      PROVE  AcceptedIsReviewed'
  BY <1>0, <1>2 DEF Claim, TypeOK
<1>3. ASSUME NEW n \in Nodes, NEW roles \in SUBSET Roles, Reassign(n, roles)
      PROVE  AcceptedIsReviewed'
  BY <1>0, <1>3 DEF Reassign
<1>4. ASSUME NEW n \in Nodes, NEW role \in Roles, HandOver(n, role)
      PROVE  AcceptedIsReviewed'
  BY <1>0, <1>4 DEF HandOver, TypeOK
<1>5. ASSUME NEW n \in Nodes,
             \/ StartTask(n) \/ MarkFieldWorkStarted(n) \/ PauseNode(n) \/ ResumeNode(n)
             \/ SubmitEvidence(n) \/ UploadDocument(n)
             \/ PaperUnderWay(n) \/ Submit(n) \/ SubmitHandover(n)
      PROVE  AcceptedIsReviewed'
  BY <1>0, <1>5 DEF StartTask, MarkFieldWorkStarted, PauseNode, ResumeNode, SubmitEvidence,
                    UploadDocument,
                    AuthorizeUpload, ReadForVerdict, AbandonPaper, Submit, SubmitHandover,
                    MaySubmitEvidence, Active, TypeOK
<1>6. ASSUME NEW n \in Nodes, NEW v \in {"approved", "rejected"}, ReviewDocument(n, v)
      PROVE  AcceptedIsReviewed'
  BY <1>0, <1>6 DEF ReviewDocument, TypeOK
<1>7. ASSUME NEW n \in Nodes, NEW next \in Nodes \cup {NoNode}, Accept(n, next)
      PROVE  AcceptedIsReviewed'
  BY <1>7, AcceptReviewed DEF Accept
<1>8. ASSUME NEW n \in Nodes, Rework(n) \/ FailChecklist(n) PROVE AcceptedIsReviewed'
  BY <1>0, <1>8 DEF Rework, FailChecklist, TypeOK
<1>9. ASSUME NEW n \in Nodes, ApproveChecklist(n) PROVE AcceptedIsReviewed'
  <2>1. CASE ApproveAccepts(n) /\ AcceptNode(n, DefaultNext[n], "approved") /\ UNCHANGED papers
    BY <2>1, AcceptReviewed DEF ApproveAccepts
  <2>2. CASE AutoAccept(n, "approved", GateOpen) /\ UNCHANGED papers
    BY <2>2, AcceptReviewed DEF AutoAccept
  <2>3. CASE AutoSubmit(n, "approved") /\ UNCHANGED papers
    BY <1>0, <2>3 DEF AutoSubmit, TypeOK
  <2>4. CASE checklist' = [checklist EXCEPT ![n] = "approved"] /\ UNCHANGED <<status, papers>>
    BY <2>4 DEF AcceptedIsReviewed, ChecklistIn, TypeOK
  <2> QED
    BY <1>9, <2>1, <2>2, <2>3, <2>4 DEF ApproveChecklist
<1>10. ASSUME NEW all \in BOOLEAN, ApproveReceipt(all) PROVE AcceptedIsReviewed'
  BY <1>10, AutoFinalizeReviewed DEF ApproveReceipt
<1>11. CASE ApproveWaiver
  BY <1>11, AutoFinalizeReviewed DEF ApproveWaiver
<1>12. CASE VoidReceipt \/ RequestWaiver \/ RejectWaiver \/ ReopenSurvey \/ RejectRollback
  BY <1>0, <1>12
     DEF VoidReceipt, RequestWaiver, RejectWaiver, ReopenSurvey, RejectRollback, TypeOK
<1>13. ASSUME NEW n \in Nodes, RequestRollback(n) PROVE AcceptedIsReviewed'
  BY <1>0, <1>13 DEF RequestRollback
<1>14. CASE ApproveRollback
  BY <1>0, <1>14 DEF ApproveRollback
<1>15. CASE Cancel
  BY <1>0, <1>15 DEF Cancel, Unfinished
<1> QED
  BY <1>1, <1>2, <1>3, <1>4, <1>5, <1>6, <1>7, <1>8, <1>9, <1>10, <1>11, <1>12, <1>13,
     <1>14, <1>15 DEF Next

\* No step is ever accepted with an item to be judged or a refused document.
THEOREM AcceptedIsReviewedHolds == Spec => []AcceptedIsReviewed
<1>1. Init => AcceptedIsReviewed
  BY DEF Init, AcceptedIsReviewed
<1> QED
  BY <1>1, ReviewedStep, TypeCorrect, PTL DEF Spec

----------------------------------------------------------------------------
(***************************************************************************)
(* Staff.                                                                  *)
(***************************************************************************)
\* AutoSubmit and AutoAccept start from a step in progress, DecideAttempt from
\* a submitted one; the step that opens is ready.
LEMMA FinalizeStaffed ==
  ASSUME TypeOK, WorkIsStaffed, NEW n \in Nodes, NEW next, NEW c, NEW g,
         status[n] \in {"in_progress", "submitted"}, UNCHANGED staff,
         AutoSubmit(n, c) \/ AutoAccept(n, c, g) \/ AcceptNode(n, next, c)
  PROVE  WorkIsStaffed'
<1>1. \A m \in Nodes : status'[m] \in {"in_progress", "submitted"} =>
                          m = n \/ status'[m] = status[m]
  <2>1. CASE AutoSubmit(n, c)
    BY <2>1 DEF AutoSubmit, TypeOK
  <2>2. CASE \E k \in {next, DefaultNext[n]} : status' = AfterAcceptance(n, k)
    BY <2>2 DEF AfterAcceptance
  <2> QED
    BY <2>1, <2>2 DEF AutoAccept, AcceptNode
<1> QED
  BY <1>1 DEF WorkIsStaffed

\* The auto-finalization of the handover step moves no step out of its hands.
LEMMA AutoFinalizeStaffed ==
  ASSUME TypeOK, WorkIsStaffed, NEW g, AutoFinalizeHandover(g), UNCHANGED staff
  PROVE  WorkIsStaffed'
<1>1. CASE HandoverNode \in Nodes /\ AutoSubmittable(HandoverNode, checklist[HandoverNode], g)
  <2>1. /\ status[HandoverNode] = "in_progress"
        /\ \/ AutoSubmit(HandoverNode, checklist[HandoverNode])
           \/ AutoAccept(HandoverNode, checklist[HandoverNode], g)
    BY <1>1 DEF AutoFinalizeHandover, AutoSubmittable
  <2> QED
    BY <1>1, <2>1, FinalizeStaffed
<1>2. CASE ~(/\ HandoverNode \in Nodes
             /\ AutoSubmittable(HandoverNode, checklist[HandoverNode], g))
  BY <1>2 DEF AutoFinalizeHandover, WorkIsStaffed
<1> QED
  BY <1>1, <1>2

\* Nobody's hands are left empty: claims, reassignments, departures, rollbacks
\* and the cancellation included.
THEOREM WorkIsStaffedHolds == Spec => []WorkIsStaffed
<1>1. Init => WorkIsStaffed
  BY DEF Init, WorkIsStaffed
<1>2. TypeOK /\ WorkIsStaffed /\ [Next]_vars => WorkIsStaffed'
  <2> SUFFICES ASSUME TypeOK, WorkIsStaffed, [Next]_vars PROVE WorkIsStaffed'
    OBVIOUS
  <2> USE DEF WorkIsStaffed
  <2>1. CASE UNCHANGED vars
    BY <2>1 DEF vars
  <2>2. ASSUME NEW n \in Nodes, NEW d \in Depts, NEW role \in Roles, NEW startNow \in BOOLEAN,
               Claim(n, d, role, startNow)
        PROVE  WorkIsStaffed'
    BY <2>2 DEF Claim, TypeOK
  <2>3. ASSUME NEW n \in Nodes, NEW roles \in SUBSET Roles, Reassign(n, roles)
        PROVE  WorkIsStaffed'
    BY <2>3 DEF Reassign, Active, TypeOK
  <2>4. ASSUME NEW n \in Nodes, NEW role \in Roles, HandOver(n, role)
        PROVE  WorkIsStaffed'
    BY <2>4 DEF HandOver, TypeOK
  <2>5. ASSUME NEW n \in Nodes,
               \/ StartTask(n) \/ MarkFieldWorkStarted(n) \/ PauseNode(n) \/ ResumeNode(n)
               \/ SubmitEvidence(n) \/ UploadDocument(n)
               \/ PaperUnderWay(n) \/ Submit(n) \/ SubmitHandover(n)
        PROVE  WorkIsStaffed'
    BY <2>5 DEF StartTask, MarkFieldWorkStarted, PauseNode, ResumeNode, SubmitEvidence,
                UploadDocument,
                AuthorizeUpload, ReadForVerdict, AbandonPaper, Submit, SubmitHandover, TypeOK
  <2>6. ASSUME NEW n \in Nodes, NEW v \in {"approved", "rejected"}, ReviewDocument(n, v)
        PROVE  WorkIsStaffed'
    BY <2>6 DEF ReviewDocument
  <2>7. ASSUME NEW n \in Nodes, NEW next \in Nodes \cup {NoNode}, Accept(n, next)
        PROVE  WorkIsStaffed'
    BY <2>7, FinalizeStaffed DEF Accept
  <2>8. ASSUME NEW n \in Nodes, Rework(n) \/ FailChecklist(n) PROVE WorkIsStaffed'
    BY <2>8 DEF Rework, FailChecklist, TypeOK
  <2>9. ASSUME NEW n \in Nodes, ApproveChecklist(n) PROVE WorkIsStaffed'
    <3>1. CASE /\ status[n] \in {"in_progress", "submitted"}
               /\ \/ AutoSubmit(n, "approved") \/ AutoAccept(n, "approved", GateOpen)
                  \/ AcceptNode(n, DefaultNext[n], "approved")
               /\ UNCHANGED staff
      BY <3>1, FinalizeStaffed
    <3>2. CASE UNCHANGED <<status, staff>>
      BY <3>2
    <3> QED
      BY <2>9, <3>1, <3>2
         DEF ApproveChecklist, ApproveAccepts, ApproveFinalizes, AutoSubmittable
  <2>10. ASSUME NEW all \in BOOLEAN, ApproveReceipt(all) PROVE WorkIsStaffed'
    BY <2>10, AutoFinalizeStaffed DEF ApproveReceipt
  <2>11. CASE ApproveWaiver
    BY <2>11, AutoFinalizeStaffed DEF ApproveWaiver
  <2>12. CASE VoidReceipt \/ RequestWaiver \/ RejectWaiver \/ ReopenSurvey \/ RejectRollback
    BY <2>12
       DEF VoidReceipt, RequestWaiver, RejectWaiver, ReopenSurvey, RejectRollback, TypeOK
  <2>13. ASSUME NEW n \in Nodes, RequestRollback(n) PROVE WorkIsStaffed'
    BY <2>13 DEF RequestRollback
  <2>14. CASE ApproveRollback
    BY <2>14 DEF ApproveRollback
  <2>15. CASE Cancel
    BY <2>15 DEF Cancel
  <2> QED
    BY <2>1, <2>2, <2>3, <2>4, <2>5, <2>6, <2>7, <2>8, <2>9, <2>10, <2>11, <2>12, <2>13,
       <2>14, <2>15 DEF Next
<1> QED
  BY <1>1, <1>2, TypeCorrect, PTL DEF Spec

----------------------------------------------------------------------------
(***************************************************************************)
(* Order: the accepted steps of the engine move as StepOrder says.         *)
(***************************************************************************)
Accepted == {n \in Nodes : status[n] = "accepted"}

\* An acceptance whose predecessors are accepted is a Finish of StepOrder.
LEMMA FinishStep ==
  ASSUME TypeOK, NEW n \in Nodes, status[n] # "accepted", PredecessorsAccepted(n),
         NEW next, NEW c, AcceptNode(n, next, c)
  PROVE  Order!Finish(n)
<1>1. Ancestors[n] \subseteq Accepted
  BY AncestorsType DEF PredecessorsAccepted, Accepted
<1>2. Accepted' = Accepted \cup {n}
  BY DEF AcceptNode, AfterAcceptance, TypeOK, Accepted
<1> QED
  BY <1>1, <1>2 DEF Order!Finish, Accepted

\* The auto-finalization of the handover step is a Finish of StepOrder or none.
LEMMA AutoFinalizeOrder ==
  ASSUME TypeOK, NEW g, AutoFinalizeHandover(g)
  PROVE  UNCHANGED Accepted \/ \E n \in Nodes : Order!Finish(n)
<1>1. CASE HandoverNode \in Nodes /\ AutoSubmittable(HandoverNode, checklist[HandoverNode], g)
  <2> DEFINE c == checklist[HandoverNode]
  <2>1. status[HandoverNode] = "in_progress"
    BY <1>1 DEF AutoSubmittable
  <2>2. CASE AutoSubmit(HandoverNode, c)
    BY <1>1, <2>1, <2>2 DEF AutoSubmit, Accepted, TypeOK
  <2>3. CASE AutoAccept(HandoverNode, c, g)
    BY <1>1, <2>1, <2>3, FinishStep DEF AutoAccept, MayAccept
  <2> QED
    BY <1>1, <2>2, <2>3 DEF AutoFinalizeHandover
<1>2. CASE ~(/\ HandoverNode \in Nodes
             /\ AutoSubmittable(HandoverNode, checklist[HandoverNode], g))
  BY <1>2 DEF AutoFinalizeHandover, Accepted
<1> QED
  BY <1>1, <1>2

\* A rollback takes back exactly the accepted steps it reaches.
LEMMA RollbackStep ==
  ASSUME TypeOK, ApproveRollback
  PROVE  /\ request \in Nodes
         /\ Accepted' = Accepted \ Affected(request)
<1>1. request \in Nodes
  BY DEF TypeOK, ApproveRollback
<1>2. \A m \in Nodes : status'[m] = "accepted" <=> status[m] = "accepted" /\ m \notin Affected(request)
  BY DEF ApproveRollback, ResetBy, Resettable, Affected
<1> QED
  BY <1>1, <1>2 DEF Accepted

\* But for a rollback and the survey reopened, a step of the engine accepts one
\* step whose predecessors are accepted, or accepts and undoes nothing.
LEMMA ForwardStep ==
  ASSUME TypeOK, AcceptedIsReviewed, [Next]_vars, ~ApproveRollback, ~ReopenSurvey
  PROVE  UNCHANGED Accepted \/ \E n \in Nodes : Order!Finish(n)
<1> DEFINE Forward == UNCHANGED Accepted \/ \E n \in Nodes : Order!Finish(n)
           Keeps(m) == status'[m] = status[m] \/ {status[m], status'[m]} \cap {"accepted"} = {}
<1>0. ASSUME \A m \in Nodes : Keeps(m) PROVE UNCHANGED Accepted
  BY <1>0 DEF Accepted
<1>1. CASE UNCHANGED vars
  BY <1>1 DEF vars, Accepted
<1>2. ASSUME NEW n \in Nodes, NEW d \in Depts, NEW role \in Roles, NEW startNow \in BOOLEAN,
             Claim(n, d, role, startNow)
      PROVE  Forward
  BY <1>0, <1>2 DEF Claim, TypeOK
<1>3. ASSUME NEW n \in Nodes, NEW roles \in SUBSET Roles, Reassign(n, roles) PROVE Forward
  BY <1>0, <1>3 DEF Reassign
<1>4. ASSUME NEW n \in Nodes, NEW role \in Roles, HandOver(n, role) PROVE Forward
  BY <1>0, <1>4 DEF HandOver, TypeOK
<1>5. ASSUME NEW n \in Nodes,
             \/ StartTask(n) \/ MarkFieldWorkStarted(n) \/ PauseNode(n) \/ ResumeNode(n)
             \/ SubmitEvidence(n) \/ UploadDocument(n)
             \/ PaperUnderWay(n) \/ Submit(n) \/ SubmitHandover(n)
      PROVE  Forward
  BY <1>0, <1>5 DEF StartTask, MarkFieldWorkStarted, PauseNode, ResumeNode, SubmitEvidence,
                    UploadDocument,
                    AuthorizeUpload, ReadForVerdict, AbandonPaper, Submit, SubmitHandover,
                    Active, TypeOK
<1>6. ASSUME NEW n \in Nodes, NEW v \in {"approved", "rejected"}, ReviewDocument(n, v)
      PROVE  Forward
  BY <1>0, <1>6 DEF ReviewDocument
<1>7. ASSUME NEW n \in Nodes, NEW next \in Nodes \cup {NoNode}, Accept(n, next)
      PROVE  Forward
  BY <1>7, FinishStep DEF Accept, MayAccept
<1>8. ASSUME NEW n \in Nodes, Rework(n) PROVE Forward
  BY <1>0, <1>8 DEF Rework, TypeOK
<1>9. ASSUME NEW n \in Nodes, FailChecklist(n) PROVE Forward
  <2>1. status[n] # "accepted"
    BY <1>9 DEF FailChecklist, AcceptedIsReviewed, ChecklistIn
  <2> QED
    BY <1>0, <1>9, <2>1 DEF FailChecklist, TypeOK
<1>10. ASSUME NEW n \in Nodes, ApproveChecklist(n) PROVE Forward
  <2>1. CASE ApproveAccepts(n) /\ AcceptNode(n, DefaultNext[n], "approved")
    BY <2>1, FinishStep DEF ApproveAccepts, MayAccept
  <2>2. CASE ApproveFinalizes(n) /\ AutoAccept(n, "approved", GateOpen)
    BY <2>2, FinishStep DEF ApproveFinalizes, AutoSubmittable, AutoAccept, MayAccept
  <2>3. CASE ApproveFinalizes(n) /\ AutoSubmit(n, "approved")
    BY <1>0, <2>3 DEF ApproveFinalizes, AutoSubmittable, AutoSubmit, TypeOK
  <2>4. CASE UNCHANGED status
    BY <1>0, <2>4
  <2> QED
    BY <1>10, <2>1, <2>2, <2>3, <2>4 DEF ApproveChecklist
<1>11. ASSUME NEW all \in BOOLEAN, ApproveReceipt(all) PROVE Forward
  BY <1>11, AutoFinalizeOrder DEF ApproveReceipt
<1>12. CASE ApproveWaiver
  BY <1>12, AutoFinalizeOrder DEF ApproveWaiver
<1>13. CASE VoidReceipt \/ RequestWaiver \/ RejectWaiver \/ RejectRollback
  BY <1>0, <1>13 DEF VoidReceipt, RequestWaiver, RejectWaiver, RejectRollback
<1>14. ASSUME NEW n \in Nodes, RequestRollback(n) PROVE Forward
  BY <1>0, <1>14 DEF RequestRollback
<1>15. CASE Cancel
  BY <1>0, <1>15 DEF Cancel, Unfinished
<1> QED
  BY <1>1, <1>2, <1>3, <1>4, <1>5, <1>6, <1>7, <1>8, <1>9, <1>10, <1>11, <1>12, <1>13,
     <1>14, <1>15 DEF Next

\* A graph without a survey step has nothing to reopen.
LEMMA NothingReopens == ASSUME NoReopening PROVE ~ReopenSurvey
  BY GraphAssumption DEF NoReopening, ReopenSurvey

\* The survey reopened takes back its own acceptance and no other.
LEMMA ReopenStep == ASSUME TypeOK, ReopenSurvey PROVE Accepted' = Accepted \ {SurveyNode}
  BY DEF ReopenSurvey, TypeOK, Accepted

\* On every graph a step is accepted only when everything before it is.
LEMMA AcceptsBehindAccepted ==
  ASSUME TypeOK, AcceptedIsReviewed, [Next]_vars,
         NEW n \in Nodes, status[n] # "accepted", status'[n] = "accepted"
  PROVE  PredecessorsAccepted(n)
<1>1. n \notin Accepted /\ n \in Accepted'
  BY DEF Accepted
<1>2. ~ApproveRollback /\ ~ReopenSurvey
  BY <1>1, RollbackStep, ReopenStep
<1>3. PICK m \in Nodes : Order!Finish(m)
  BY <1>1, <1>2, ForwardStep
<1>4. m = n
  BY <1>1, <1>3 DEF Order!Finish, Accepted
<1> QED
  BY <1>3, <1>4 DEF Order!Finish, PredecessorsAccepted

\* The engine implements StepOrder on every graph whose codes follow the flow:
\* joins, branches and several ends included.
THEOREM StepOrderImplemented ==
  ASSUME CodesFollowFlow, NoReopening
  PROVE  Spec => ImplementsStepOrder
<1>1. Init => Order!Init
  BY DEF Init, Order!Init
<1>2. TypeOK /\ AcceptedIsReviewed /\ [Next]_vars => [Order!Next]_Accepted
  <2> SUFFICES ASSUME TypeOK, AcceptedIsReviewed, [Next]_vars PROVE [Order!Next]_Accepted
    OBVIOUS
  <2>1. CASE ApproveRollback
    <3>1. PICK back \in SUBSET Nodes : back = Accepted \cap Affected(request)
      BY DEF Accepted
    <3>2. Accepted' = Accepted \ back /\ back \subseteq Accepted
      BY <2>1, <3>1, RollbackStep
    <3>3. CASE back = {}
      BY <3>2, <3>3
    <3>4. CASE back # {}
      <4>1. ASSUME NEW n \in Accepted, Ancestors[n] \cap back # {} PROVE n \in back
        <5>1. PICK m \in Affected(request) : m \in Ancestors[n]
          BY <3>1, <4>1
        <5>2. n \in Nodes /\ status[n] # "cancelled" /\ request \in Nodes
          BY <2>1, RollbackStep DEF Accepted
        <5> QED
          BY <3>1, <5>1, <5>2, AffectedHoldsDescendants
      <4> QED
        BY <3>2, <3>4, <4>1 DEF Order!GoBack, Order!Next, Accepted
    <3> QED
      BY <3>3, <3>4
  <2>2. CASE ~ApproveRollback
    BY <2>2, ForwardStep, NothingReopens DEF Order!Next
  <2> QED
    BY <2>1, <2>2
<1>3. Spec => [](TypeOK /\ AcceptedIsReviewed)
  BY TypeCorrect, AcceptedIsReviewedHolds, PTL
<1> QED
  BY <1>1, <1>2, <1>3, PTL DEF Spec, ImplementsStepOrder, Order!Spec, Accepted

\* Whatever makes only the two moves of StepOrder keeps everything done behind
\* what is done for ever.
THEOREM InOrderHolds == Order!Spec => []Order!InOrder
<1>1. Order!Init => Order!InOrder
  BY DEF Order!Init, Order!InOrder
<1>2. Order!InOrder /\ [Order!Next]_Accepted => Order!InOrder'
  <2> SUFFICES ASSUME Order!InOrder, [Order!Next]_Accepted PROVE Order!InOrder'
    OBVIOUS
  <2>1. ASSUME NEW n \in Nodes, Order!Finish(n) PROVE Order!InOrder'
    BY <2>1 DEF Order!Finish, Order!InOrder
  <2>2. ASSUME NEW back \in SUBSET Accepted, Order!GoBack(back) PROVE Order!InOrder'
    BY <2>2 DEF Order!GoBack, Order!InOrder
  <2>3. CASE UNCHANGED Accepted
    BY <2>3 DEF Order!InOrder, Accepted
  <2> QED
    BY <2>1, <2>2, <2>3 DEF Order!Next, Accepted
<1> QED
  BY <1>1, <1>2, PTL DEF Order!Spec, Accepted

\* Hence an accepted step has only accepted steps before it.
THEOREM AcceptedInOrderHolds ==
  ASSUME CodesFollowFlow, NoReopening
  PROVE  Spec => []AcceptedInOrder
<1>1. Order!InOrder => AcceptedInOrder
  BY DEF Order!InOrder, AcceptedInOrder, PredecessorsAccepted
<1> QED
  BY <1>1, InOrderHolds, StepOrderImplemented, PTL DEF ImplementsStepOrder

\* What an engine whose survey may be reopened undoes but by a rollback: the
\* acceptance of the survey.
UndoneButSurvey ==
    \A n \in Nodes \ {SurveyNode} : status[n] = "accepted" /\ status'[n] # "accepted" =>
        /\ request # NoNode /\ request' = NoNode
        /\ n \in Downstream[request]

\* With the survey reopened too, nothing but an approved rollback takes another
\* acceptance back, and it takes back none before its target.
THEOREM OnlyRollbackUndoesOthers ==
  ASSUME EndIsLast
  PROVE  Spec => [][UndoneButSurvey]_vars
<1>1. TypeOK /\ AcceptedIsReviewed /\ [Next]_vars => [UndoneButSurvey]_vars
  <2> SUFFICES ASSUME TypeOK, AcceptedIsReviewed, [Next]_vars, NEW n \in Nodes \ {SurveyNode},
                      status[n] = "accepted", status'[n] # "accepted"
               PROVE  request # NoNode /\ request' = NoNode /\ n \in Downstream[request]
    BY DEF UndoneButSurvey
  <2>1. CASE ApproveRollback
    <3>1. n \in Affected(request) /\ request \in Nodes
      BY <2>1, RollbackStep DEF Accepted
    <3>2. n \in Downstream[request]
      BY <3>1, GraphAssumption, DownstreamReflexive DEF Affected, EndIsLast
    <3> QED
      BY <2>1, <3>2 DEF ApproveRollback
  <2>2. ~ReopenSurvey
    BY ReopenStep DEF Accepted
  <2>3. CASE ~ApproveRollback
    BY <2>2, <2>3, ForwardStep DEF Order!Finish, Accepted
  <2> QED
    BY <2>1, <2>3
<1>2. Spec => [](TypeOK /\ AcceptedIsReviewed)
  BY TypeCorrect, AcceptedIsReviewedHolds, PTL
<1> QED
  BY <1>1, <1>2, PTL DEF Spec

\* Without a survey step nothing but an approved rollback takes an acceptance
\* back at all.
THEOREM OnlyRollbackUndoesHolds ==
  ASSUME EndIsLast, NoReopening
  PROVE  Spec => OnlyRollbackUndoes
<1>1. SurveyNode \notin Nodes
  BY GraphAssumption DEF NoReopening
<1>2. UndoneButSurvey => UndoneByRollback
  BY <1>1 DEF UndoneButSurvey, UndoneByRollback
<1> QED
  BY <1>2, OnlyRollbackUndoesOthers, PTL DEF OnlyRollbackUndoes

\* With the survey reopened, an accepted step has only accepted steps before it
\* but for the survey itself: nothing behind the survey is taken back with it.
OrderButSurvey ==
    \A n \in Nodes : status[n] = "accepted" =>
        \A m \in Ancestors[n] \ {SurveyNode} : status[m] = "accepted"

\* On every graph whose codes follow the flow, a legal dossier may leave no
\* other step than the survey unaccepted before an accepted one
\* (reopen_survey_work against unaccepted_predecessors).
THEOREM OrderButSurveyHolds ==
  ASSUME CodesFollowFlow
  PROVE  Spec => []OrderButSurvey
<1> DEFINE Behind(D) == \A n \in D : Ancestors[n] \ {SurveyNode} \subseteq D
<1>1. Init => OrderButSurvey
  BY DEF Init, OrderButSurvey
<1>2. TypeOK /\ AcceptedIsReviewed /\ OrderButSurvey /\ [Next]_vars => OrderButSurvey'
  <2> SUFFICES ASSUME TypeOK, AcceptedIsReviewed, OrderButSurvey, [Next]_vars
               PROVE  Behind(Accepted')
    BY DEF OrderButSurvey, Accepted
  <2>1. Behind(Accepted)
    BY AncestorsType DEF OrderButSurvey, Accepted
  <2>2. CASE ApproveRollback
    <3>1. request \in Nodes /\ Accepted' = Accepted \ Affected(request)
      BY <2>2, RollbackStep
    <3>2. SUFFICES ASSUME NEW n \in Accepted, NEW m \in Ancestors[n], m \in Affected(request)
                   PROVE  n \in Affected(request)
      BY <2>1, <3>1
    <3> QED
      BY <3>1, <3>2, AffectedHoldsDescendants DEF Accepted
  <2>3. CASE ReopenSurvey
    BY <2>1, <2>3, ReopenStep
  <2>4. CASE ~ApproveRollback /\ ~ReopenSurvey
    BY <2>1, <2>4, ForwardStep DEF Order!Finish, Accepted
  <2> QED
    BY <2>2, <2>3, <2>4
<1>3. Spec => [](TypeOK /\ AcceptedIsReviewed)
  BY TypeCorrect, AcceptedIsReviewedHolds, PTL
<1> QED
  BY <1>1, <1>2, <1>3, PTL DEF Spec

----------------------------------------------------------------------------
(***************************************************************************)
(* History.                                                                *)
(***************************************************************************)
\* A new attempt continues the history of a step.
LEMMA AppendContinues ==
  ASSUME NEW n \in Nodes, TypeOK, NEW d \in AttemptStatus
  PROVE  Continues(acceptances[n], Append(acceptances[n], d))
<1>1. acceptances[n] \in Seq(AttemptStatus)
  BY DEF TypeOK
<1> QED
  BY <1>1, AppendProperties, LenProperties, AppendType DEF Continues

\* Closing the pending attempts changes no decided one.
LEMMA CloseContinues ==
  ASSUME NEW n \in Nodes, NEW d
  PROVE  Continues(acceptances[n], ClosePending(n, d))
  BY DEF Continues, ClosePending

\* Deciding a pending attempt changes no decided one.
LEMMA DecideContinues ==
  ASSUME TypeOK, NEW n \in Nodes, NEW d, DecideAttempt(n, d)
  PROVE  \A m \in Nodes : Continues(acceptances[m], acceptances'[m])
  BY DEF DecideAttempt, Continues, TypeOK

\* Both ends of auto_finalize_node_if_ready continue the history of the step.
LEMMA AutoContinues ==
  ASSUME TypeOK, NEW n \in Nodes, NEW c, NEW g, AutoSubmit(n, c) \/ AutoAccept(n, c, g)
  PROVE  \A m \in Nodes : Continues(acceptances[m], acceptances'[m])
<1>1. PICK d \in AttemptStatus : acceptances' = [acceptances EXCEPT ![n] = Append(@, d)]
  BY DEF AutoSubmit, AutoAccept
<1>2. Continues(acceptances[n], Append(acceptances[n], d))
  BY AppendContinues
<1> QED
  BY <1>1, <1>2 DEF TypeOK, Continues

\* The auto-finalization of the handover step continues every history.
LEMMA AutoFinalizeContinues ==
  ASSUME TypeOK, NEW g, AutoFinalizeHandover(g)
  PROVE  \A m \in Nodes : Continues(acceptances[m], acceptances'[m])
<1>1. CASE HandoverNode \in Nodes /\ AutoSubmittable(HandoverNode, checklist[HandoverNode], g)
  BY <1>1, AutoContinues DEF AutoFinalizeHandover
<1>2. CASE ~(/\ HandoverNode \in Nodes
             /\ AutoSubmittable(HandoverNode, checklist[HandoverNode], g))
  BY <1>2 DEF AutoFinalizeHandover, Continues
<1> QED
  BY <1>1, <1>2

\* The attempts of every step are append-only, whatever the graph and whoever
\* reopens what.
THEOREM HistoryKeptHolds == Spec => HistoryKept
<1>1. TypeOK /\ [Next]_vars => [HistoryGrows]_vars
  <2> SUFFICES ASSUME TypeOK, Next PROVE HistoryGrows
    OBVIOUS
  <2> USE DEF HistoryGrows
  <2>1. CASE UNCHANGED acceptances
    BY <2>1 DEF Continues
  <2>2. ASSUME NEW n \in Nodes, Submit(n) \/ SubmitHandover(n) PROVE HistoryGrows
    <3>1. Continues(acceptances[n], Append(acceptances[n], "pending"))
      BY AppendContinues
    <3> QED
      BY <2>2, <3>1 DEF Submit, SubmitHandover, TypeOK, Continues
  <2>3. ASSUME NEW n \in Nodes, NEW d, DecideAttempt(n, d) PROVE HistoryGrows
    BY <2>3, DecideContinues
  <2>4. ASSUME NEW n \in Nodes, FailChecklist(n) PROVE HistoryGrows
    BY <2>4, CloseContinues DEF FailChecklist, TypeOK, Continues
  <2>5. ASSUME NEW n \in Nodes, ApproveChecklist(n) PROVE HistoryGrows
    BY <2>1, <2>5, DecideContinues, AutoContinues DEF ApproveChecklist
  <2>6. CASE \/ ApproveWaiver
             \/ \E all \in BOOLEAN : ApproveReceipt(all)
    BY <2>6, AutoFinalizeContinues DEF ApproveReceipt, ApproveWaiver
  <2>7. CASE ApproveRollback \/ Cancel
    <3>1. \A m \in Nodes : acceptances'[m] \in {acceptances[m], ClosePending(m, "rejected")}
      BY <2>7 DEF ApproveRollback, Cancel
    <3>2. \A m \in Nodes : Continues(acceptances[m], acceptances[m])
      BY DEF Continues
    <3> QED
      BY <3>1, <3>2, CloseContinues
  <2>8. ASSUME NEW n \in Nodes, NEW d \in Depts, NEW role \in Roles, NEW startNow \in BOOLEAN,
               Claim(n, d, role, startNow)
        PROVE  HistoryGrows
    BY <2>1, <2>8 DEF Claim
  <2>9. ASSUME NEW n \in Nodes,
               \/ \E roles \in SUBSET Roles : Reassign(n, roles)
               \/ \E role \in Roles : HandOver(n, role)
               \/ StartTask(n) \/ MarkFieldWorkStarted(n) \/ PauseNode(n) \/ ResumeNode(n)
               \/ SubmitEvidence(n) \/ UploadDocument(n)
               \/ PaperUnderWay(n) \/ RequestRollback(n)
               \/ \E v \in {"approved", "rejected"} : ReviewDocument(n, v)
        PROVE  HistoryGrows
    BY <2>1, <2>9
       DEF Reassign, HandOver, StartTask, MarkFieldWorkStarted, PauseNode, ResumeNode,
           SubmitEvidence, UploadDocument,
           AuthorizeUpload, ReadForVerdict, AbandonPaper, RequestRollback, ReviewDocument
  <2>10. CASE VoidReceipt \/ RequestWaiver \/ RejectWaiver \/ ReopenSurvey \/ RejectRollback
    BY <2>1, <2>10
       DEF VoidReceipt, RequestWaiver, RejectWaiver, ReopenSurvey, RejectRollback
  <2>11. ASSUME NEW n \in Nodes, Rework(n) \/ \E next \in Nodes \cup {NoNode} : Accept(n, next)
         PROVE  HistoryGrows
    BY <2>3, <2>11 DEF Rework, Accept
  <2> QED
    BY <2>2, <2>4, <2>5, <2>6, <2>7, <2>8, <2>9, <2>10, <2>11 DEF Next
<1> QED
  BY <1>1, TypeCorrect, PTL DEF Spec, HistoryKept

----------------------------------------------------------------------------
(***************************************************************************)
(* Work in order.  The invariant is not inductive by itself: a refused     *)
(* checklist item sends its step to rework whatever its status is, so it    *)
(* rests on items waiting for the Director only where there is work.       *)
(***************************************************************************)
Working == Active \cup {"submitted"}

ItemsInWork ==
    \A n \in ChecklistNodes : checklist[n] = "pending_approval" => status[n] \in Working

\* On every graph: a step is cancelled only with its instance, and an item waits
\* for the Director only where there is work.
Uncancelled ==
    inst # "cancelled" => ItemsInWork /\ \A n \in Nodes : status[n] # "cancelled"

OrderInv ==
    inst # "cancelled" =>
        /\ \A n \in Nodes : status[n] # "cancelled"
        /\ ItemsInWork
        /\ \A n \in Nodes : status[n] \notin {"pending", "accepted"} => PredecessorsAccepted(n)

\* Without joins there is one way to a step: through the step it follows.
LEMMA AncestorsOfTarget ==
  ASSUME NoJoins, NEW n \in Nodes, NEW k \in Succ[n], NEW m \in Ancestors[k], m # n
  PROVE  m \in Ancestors[n]
<1>1. PICK s \in Succ[m] : k \in Downstream[s]
  BY GraphAssumption DEF Ancestors
<1>2. m \in Nodes /\ s \in Nodes /\ k \in Nodes /\ s # k
  BY <1>1, GraphAssumption DEF NoJoins, Ancestors
<1>3. SUFFICES ASSUME n \notin Downstream[s] PROVE FALSE
  BY <1>1, <1>2 DEF Ancestors
<1> DEFINE S == Downstream[s] \ {k}
<1>4. s \in S /\ S \in SUBSET Nodes
  BY <1>2, DownstreamReflexive DEF Downstream
<1>5. Closed(S)
  <2> SUFFICES ASSUME NEW x \in S, NEW y \in Succ[x] PROVE y \in S
    BY DEF Closed
  <2>1. y \in Downstream[s]
    BY <1>2, DownstreamClosed DEF Closed
  <2>2. x \in Nodes /\ x # n
    BY <1>3, <1>4
  <2>3. y # k
    BY <2>2 DEF NoJoins
  <2> QED
    BY <2>1, <2>3
<1> QED
  BY <1>1, <1>2, <1>4, <1>5 DEF Downstream

\* Without joins nothing leads to the start step.
LEMMA StartHasNoAncestors ==
  ASSUME NoJoins
  PROVE  Ancestors[StartNode] = {}
<1> SUFFICES ASSUME NEW m \in Ancestors[StartNode] PROVE FALSE
  OBVIOUS
<1>1. PICK s \in Succ[m] : StartNode \in Downstream[s]
  BY GraphAssumption DEF Ancestors
<1>2. m \in Nodes /\ s \in Nodes /\ s # StartNode
  BY <1>1, GraphAssumption DEF NoJoins, Ancestors
<1> DEFINE S == Nodes \ {StartNode}
<1>3. Closed(S) /\ s \in S
  BY <1>2, GraphAssumption DEF Closed, NoJoins
<1> QED
  BY <1>1, <1>2, <1>3 DEF Downstream

\* What is accepted stays accepted: the guard of a step is not lost.
LEMMA GuardKept ==
  ASSUME NEW n \in Nodes, PredecessorsAccepted(n), Accepted \subseteq Accepted'
  PROVE  PredecessorsAccepted(n)'
  BY AncestorsType DEF PredecessorsAccepted, Accepted

\* A step of the workflow that neither opens anything nor leaves an item to be
\* judged behind.
Settles(m) ==
    /\ status'[m] # "cancelled"
    /\ status[m] \in {"pending", "accepted"} => status'[m] \in {"pending", "accepted"}
    /\ m \in ChecklistNodes /\ checklist'[m] = "pending_approval" => status'[m] \in Working

\* A move that opens no step behind an open one keeps the order of the work.
LEMMA SettledStep ==
  ASSUME TypeOK, OrderInv, inst' = "cancelled" <=> inst = "cancelled",
         Accepted \subseteq Accepted',
         inst # "cancelled" => \A m \in Nodes : Settles(m)
  PROVE  OrderInv'
<1> SUFFICES ASSUME inst # "cancelled" PROVE OrderInv'
  BY DEF OrderInv
<1>1. /\ \A n \in Nodes : status'[n] # "cancelled"
      /\ ItemsInWork'
  BY CatalogAssumption DEF Settles, ItemsInWork
<1>2. ASSUME NEW n \in Nodes, status'[n] \notin {"pending", "accepted"}
      PROVE  PredecessorsAccepted(n)'
  <2>1. status[n] \notin {"pending", "accepted"}
    BY <1>2 DEF Settles
  <2> QED
    BY <2>1, GuardKept DEF OrderInv
<1> QED
  BY <1>1, <1>2 DEF OrderInv

\* An acceptance opens the step it leads to, whose ancestors are the accepted
\* step and its ancestors.
LEMMA AcceptInOrder ==
  ASSUME NoJoins, TypeOK, OrderInv, inst' = "cancelled" <=> inst = "cancelled",
         NEW n \in Nodes, NEW next \in Succ[n] \cup {NoNode}, NEW c \in ItemStatus, NEW g,
         MayAccept(n, c, g), AcceptNode(n, next, c)
  PROVE  OrderInv'
<1> SUFFICES ASSUME inst # "cancelled" PROVE OrderInv'
  BY DEF OrderInv
<1>1. status' = AfterAcceptance(n, next)
  BY DEF AcceptNode
<1>2. Accepted \subseteq Accepted' /\ n \in Accepted'
  BY <1>1 DEF AfterAcceptance, TypeOK, Accepted
<1>3. \A m \in Nodes : status'[m] # "cancelled"
  BY <1>1 DEF AfterAcceptance, OrderInv
<1>4. ItemsInWork'
  <2> SUFFICES ASSUME NEW m \in ChecklistNodes, checklist'[m] = "pending_approval"
               PROVE  status'[m] \in Working
    BY DEF ItemsInWork
  <2>1. m \in Nodes /\ m # n /\ checklist[m] = "pending_approval"
    BY CatalogAssumption DEF AcceptNode, TypeOK
  <2>2. status[m] \in Working
    BY <2>1 DEF OrderInv, ItemsInWork
  <2> QED
    BY <1>1, <2>1, <2>2 DEF AfterAcceptance, Working, Active
<1>5. ASSUME NEW m \in Nodes, status'[m] \notin {"pending", "accepted"}
      PROVE  PredecessorsAccepted(m)'
  <2>1. CASE status[m] \notin {"pending", "accepted"}
    BY <1>2, <2>1, GuardKept DEF OrderInv
  <2>2. CASE status[m] \in {"pending", "accepted"}
    <3>1. m = next /\ m # n
      BY <1>1, <1>5, <2>2 DEF AfterAcceptance
    <3>2. m \in Succ[n]
      BY <3>1, GraphAssumption
    <3>3. Ancestors[n] \subseteq Accepted
      BY AncestorsType DEF MayAccept, PredecessorsAccepted, Accepted
    <3>4. Ancestors[m] \subseteq Accepted'
      BY <1>2, <3>2, <3>3, AncestorsOfTarget
    <3> QED
      BY <3>4 DEF PredecessorsAccepted, Accepted
  <2> QED
    BY <2>1, <2>2
<1> QED
  BY <1>3, <1>4, <1>5 DEF OrderInv

\* Handing a step in keeps the order of the work.
LEMMA SubmitInOrder ==
  ASSUME TypeOK, OrderInv, inst' = "cancelled" <=> inst = "cancelled",
         NEW n \in Nodes, NEW c, AutoSubmit(n, c), status[n] = "in_progress"
  PROVE  OrderInv'
<1>1. Accepted \subseteq Accepted'
  BY DEF AutoSubmit, Accepted, TypeOK
<1>2. inst # "cancelled" => \A m \in Nodes : Settles(m)
  BY CatalogAssumption DEF AutoSubmit, Settles, OrderInv, ItemsInWork, Working, TypeOK
<1> QED
  BY <1>1, <1>2, SettledStep

\* The auto-finalization of the handover step keeps the order of the work.
LEMMA AutoFinalizeInOrder ==
  ASSUME NoJoins, TypeOK, OrderInv, inst' = "cancelled" <=> inst = "cancelled",
         NEW g, AutoFinalizeHandover(g)
  PROVE  OrderInv'
<1>1. CASE HandoverNode \in Nodes /\ AutoSubmittable(HandoverNode, checklist[HandoverNode], g)
  <2> DEFINE c == checklist[HandoverNode]
  <2>1. c \in ItemStatus /\ DefaultNext[HandoverNode] \in Succ[HandoverNode] \cup {NoNode}
    BY <1>1, GraphAssumption DEF TypeOK
  <2>2. CASE AutoSubmit(HandoverNode, c)
    BY <1>1, <2>2, SubmitInOrder DEF AutoSubmittable
  <2>3. CASE AutoAccept(HandoverNode, c, g)
    BY <1>1, <2>1, <2>3, AcceptInOrder DEF AutoAccept
  <2> QED
    BY <1>1, <2>2, <2>3 DEF AutoFinalizeHandover
<1>2. CASE ~(/\ HandoverNode \in Nodes
             /\ AutoSubmittable(HandoverNode, checklist[HandoverNode], g))
  BY <1>2 DEF AutoFinalizeHandover, OrderInv, ItemsInWork, PredecessorsAccepted
<1> QED
  BY <1>1, <1>2

\* A rollback reaches no ancestor of its target.
LEMMA AncestorsKept ==
  ASSUME CodesFollowFlow, NEW t \in Nodes, NEW p \in Ancestors[t]
  PROVE  p \notin Affected(t)
<1> DEFINE S == {x \in Nodes : Code[x] >= Code[t]}
<1>1. Code[p] < Code[t] /\ p \in Nodes
  BY AncestorsType DEF CodesFollowFlow
<1>2. Closed(S)
  <2> SUFFICES ASSUME NEW x \in S, NEW y \in Succ[x] PROVE y \in S
    BY DEF Closed
  <2>1. y \in Nodes /\ y \in Downstream[y]
    BY GraphAssumption, DownstreamReflexive
  <2>2. Code[x] < Code[y]
    BY <2>1 DEF CodesFollowFlow, Ancestors
  <2> QED
    BY <2>1, <2>2, GraphAssumption
<1>3. Downstream[t] \subseteq S
  BY <1>2, GraphAssumption DEF Downstream
<1>4. ~(Code[p] >= Code[t])
  BY <1>1, GraphAssumption
<1> QED
  BY <1>3, <1>4 DEF Affected

\* A rollback keeps the order of the work: all it resets lies behind its target.
LEMMA RollbackInOrder ==
  ASSUME CodesFollowFlow, TypeOK, AcceptedInOrder, OrderInv, ApproveRollback
  PROVE  OrderInv'
<1> SUFFICES ASSUME inst # "cancelled" PROVE OrderInv'
  BY DEF OrderInv, ApproveRollback
<1>1. request \in Nodes /\ Accepted' = Accepted \ Affected(request)
  BY RollbackStep
<1>2. /\ \A m \in Nodes : status'[m] # "cancelled"
      /\ ItemsInWork'
  BY CatalogAssumption DEF ApproveRollback, OrderInv, ItemsInWork
<1>3. ASSUME NEW n \in Nodes, status'[n] \notin {"pending", "accepted"}
      PROVE  PredecessorsAccepted(n)'
  <2>1. Ancestors[n] \cap Affected(request) = {}
    <3>1. CASE n = request
      BY <1>1, <3>1, AncestorsKept
    <3>2. CASE n # request
      <4>1. status[n] \notin {"pending", "cancelled"} /\ n \notin ResetBy(request)
        BY <1>3, <3>2 DEF ApproveRollback, OrderInv
      <4>2. n \notin Affected(request)
        BY <4>1 DEF ResetBy, Resettable, TypeOK
      <4> QED
        BY <1>1, <4>1, <4>2, AffectedHoldsDescendants
    <3> QED
      BY <3>1, <3>2
  <2>2. Ancestors[n] \subseteq Accepted
    <3>1. status[n] # "pending"
      BY <1>3 DEF ApproveRollback, ResetBy, Resettable
    <3>2. PredecessorsAccepted(n)
      BY <3>1 DEF OrderInv, AcceptedInOrder
    <3> QED
      BY <3>2, AncestorsType DEF PredecessorsAccepted, Accepted
  <2> QED
    BY <1>1, <2>1, <2>2 DEF PredecessorsAccepted, Accepted
<1> QED
  BY <1>2, <1>3 DEF OrderInv

\* The decisions, and what sends steps back or cancels them, leave room for no
\* other step that opens something or leaves an item to be judged behind.
LEMMA QuietStep ==
  ASSUME TypeOK, Uncancelled, [Next]_vars,
         ~ \E n \in Nodes : ApproveChecklist(n) \/ \E next \in Nodes \cup {NoNode} : Accept(n, next),
         ~ \E all \in BOOLEAN : ApproveReceipt(all), ~ApproveWaiver,
         ~ApproveRollback, ~ReopenSurvey, ~Cancel
  PROVE  inst' = inst /\ (inst # "cancelled" => \A m \in Nodes : Settles(m))
<1> DEFINE Quiet == inst' = inst /\ (inst # "cancelled" => \A m \in Nodes : Settles(m))
<1> USE CatalogAssumption DEF Working, Active
<1>1. CASE UNCHANGED <<inst, status, checklist>>
  BY <1>1 DEF Uncancelled, ItemsInWork, Settles
<1>2. ASSUME NEW n \in Nodes, NEW d \in Depts, NEW role \in Roles, NEW startNow \in BOOLEAN,
             Claim(n, d, role, startNow)
      PROVE  Quiet
  BY <1>2 DEF Claim, TypeOK, Uncancelled, ItemsInWork, Settles
<1>3. ASSUME NEW n \in Nodes,
             \/ \E roles \in SUBSET Roles : Reassign(n, roles)
             \/ \E role \in Roles : HandOver(n, role)
             \/ PauseNode(n) \/ ResumeNode(n) \/ UploadDocument(n)
             \/ PaperUnderWay(n) \/ RequestRollback(n)
             \/ \E v \in {"approved", "rejected"} : ReviewDocument(n, v)
      PROVE  Quiet
  BY <1>1, <1>3 DEF Reassign, HandOver, PauseNode, ResumeNode, UploadDocument,
                    AuthorizeUpload, ReadForVerdict, AbandonPaper,
                    RequestRollback, ReviewDocument
<1>4. ASSUME NEW n \in Nodes,
             StartTask(n) \/ MarkFieldWorkStarted(n) \/ SubmitEvidence(n) \/ Submit(n)
                 \/ SubmitHandover(n)
      PROVE  Quiet
  <2> SUFFICES ASSUME inst # "cancelled", NEW m \in Nodes PROVE inst' = inst /\ Settles(m)
    BY <1>4 DEF StartTask, MarkFieldWorkStarted, SubmitEvidence, Submit, SubmitHandover
  <2>1. CASE StartTask(n) \/ MarkFieldWorkStarted(n)
    BY <2>1 DEF StartTask, MarkFieldWorkStarted, TypeOK, Uncancelled, ItemsInWork, Settles
  <2>2. CASE SubmitEvidence(n)
    BY <2>2 DEF SubmitEvidence, MaySubmitEvidence, TypeOK, Uncancelled, ItemsInWork, Settles
  <2>3. CASE Submit(n) \/ SubmitHandover(n)
    BY <2>3 DEF Submit, SubmitHandover, TypeOK, Uncancelled, ItemsInWork, Settles
  <2> QED
    BY <1>4, <2>1, <2>2, <2>3
<1>5. ASSUME NEW n \in Nodes, Rework(n) \/ FailChecklist(n) PROVE Quiet
  BY <1>5 DEF Rework, FailChecklist, TypeOK, Uncancelled, ItemsInWork, Settles
<1>6. CASE VoidReceipt \/ RequestWaiver \/ RejectWaiver \/ RejectRollback \/ UNCHANGED vars
  BY <1>1, <1>6 DEF VoidReceipt, RequestWaiver, RejectWaiver, RejectRollback, vars
<1> QED
  BY <1>2, <1>3, <1>4, <1>5, <1>6 DEF Next

\* Every step of the engine keeps the order of the work.
LEMMA WorkStep ==
  ASSUME CodesFollowFlow, NoJoins, NoReopening,
         TypeOK, AcceptedIsReviewed, AcceptedInOrder, OrderInv, [Next]_vars
  PROVE  OrderInv'
<1> DEFINE SameEnd == inst' = "cancelled" <=> inst = "cancelled"
<1>1. ASSUME NEW n \in Nodes, NEW next \in Nodes \cup {NoNode}, Accept(n, next)
      PROVE  OrderInv'
  <2>1. next \in Succ[n] \cup {NoNode} /\ checklist[n] \in ItemStatus
    BY <1>1 DEF Accept, TypeOK
  <2>2. SameEnd
    BY <1>1 DEF Accept, CompleteWhenFinished
  <2> QED
    BY <1>1, <2>1, <2>2, AcceptInOrder DEF Accept
<1>2. ASSUME NEW n \in Nodes, ApproveChecklist(n) PROVE OrderInv'
  <2>1. SameEnd
    BY <1>2 DEF ApproveChecklist, CompleteWhenFinished
  <2>2. DefaultNext[n] \in Succ[n] \cup {NoNode} /\ "approved" \in ItemStatus
    BY GraphAssumption DEF ItemStatus
  <2>3. CASE ApproveAccepts(n) /\ AcceptNode(n, DefaultNext[n], "approved")
    BY <2>1, <2>2, <2>3, AcceptInOrder DEF ApproveAccepts
  <2>4. CASE AutoAccept(n, "approved", GateOpen)
    BY <2>1, <2>2, <2>4, AcceptInOrder DEF AutoAccept
  <2>5. CASE ApproveFinalizes(n) /\ AutoSubmit(n, "approved")
    BY <2>1, <2>5, SubmitInOrder DEF ApproveFinalizes, AutoSubmittable
  <2>6. CASE checklist' = [checklist EXCEPT ![n] = "approved"] /\ UNCHANGED <<inst, status>>
    BY <2>6, CatalogAssumption DEF TypeOK, OrderInv, ItemsInWork, PredecessorsAccepted
  <2> QED
    BY <1>2, <2>3, <2>4, <2>5, <2>6 DEF ApproveChecklist
<1>3. ASSUME NEW all \in BOOLEAN, ApproveReceipt(all) PROVE OrderInv'
  BY <1>3, AutoFinalizeInOrder DEF ApproveReceipt
<1>4. CASE ApproveWaiver
  BY <1>4, AutoFinalizeInOrder DEF ApproveWaiver
<1>5. CASE ApproveRollback
  BY <1>5, RollbackInOrder
<1>6. CASE Cancel
  BY <1>6 DEF Cancel, OrderInv
<1>7. CASE inst' = inst /\ (inst # "cancelled" => \A m \in Nodes : Settles(m))
  <2>1. CASE ApproveRollback
    BY <2>1, <1>5
  <2>2. CASE ~ApproveRollback
    <3>1. Accepted \subseteq Accepted'
      BY <2>2, ForwardStep, NothingReopens DEF Order!Finish, Accepted
    <3> QED
      BY <1>7, <3>1, SettledStep
  <2> QED
    BY <2>1, <2>2
<1>8. Uncancelled
  BY DEF OrderInv, Uncancelled
<1> QED
  BY <1>1, <1>2, <1>3, <1>4, <1>5, <1>6, <1>7, <1>8, QuietStep, NothingReopens

\* While the instance is not cancelled, whatever is open or worked on has only
\* accepted steps before it: for every graph without joins, branches included.
THEOREM WorkInOrderHolds ==
  ASSUME CodesFollowFlow, NoJoins, NoReopening
  PROVE  Spec => []WorkInOrder
<1>1. Init => OrderInv
  BY StartHasNoAncestors, CatalogAssumption
     DEF Init, OrderInv, ItemsInWork, PredecessorsAccepted
<1>2. OrderInv => WorkInOrder
  BY DEF OrderInv, WorkInOrder
<1>3. Spec => [](TypeOK /\ AcceptedIsReviewed /\ AcceptedInOrder)
  BY TypeCorrect, AcceptedIsReviewedHolds, AcceptedInOrderHolds, PTL
<1> QED
  BY <1>1, <1>2, <1>3, WorkStep, PTL DEF Spec

----------------------------------------------------------------------------
(***************************************************************************)
(* Money.                                                                  *)
(***************************************************************************)
\* A step of the engine that accepts nothing and completes nothing.
Idle == /\ inst' = "completed" => inst = "completed"
        /\ \A m \in Nodes : status'[m] = "accepted" => status[m] = "accepted"

\* No step falls back to where it was before it was opened.
StaysOpen == \A m \in Nodes : status'[m] = "pending" => status[m] = "pending"

\* Every action but the four that decide, the handlers of the Director's
\* acceptance, checklist, receipt and waiver, accepts and completes nothing; and
\* but for a rollback it sends no step back to "pending".
LEMMA OnlyDecisionsClose ==
  ASSUME TypeOK, [Next]_vars,
         ~ \E n \in Nodes : ApproveChecklist(n) \/ \E next \in Nodes \cup {NoNode} : Accept(n, next),
         ~ \E all \in BOOLEAN : ApproveReceipt(all), ~ApproveWaiver
  PROVE  Idle /\ (~ApproveRollback => StaysOpen)
<1> USE DEF Idle, StaysOpen
<1>1. CASE UNCHANGED <<inst, status>>
  BY <1>1
<1>2. ASSUME NEW n \in Nodes, NEW d \in Depts, NEW role \in Roles, NEW startNow \in BOOLEAN,
             Claim(n, d, role, startNow)
      PROVE  Idle /\ StaysOpen
  BY <1>2 DEF Claim, TypeOK
<1>3. ASSUME NEW n \in Nodes,
             \/ \E roles \in SUBSET Roles : Reassign(n, roles)
             \/ \E role \in Roles : HandOver(n, role)
             \/ PauseNode(n) \/ ResumeNode(n) \/ SubmitEvidence(n) \/ UploadDocument(n)
             \/ PaperUnderWay(n)
             \/ RequestRollback(n) \/ \E v \in {"approved", "rejected"} : ReviewDocument(n, v)
      PROVE  Idle /\ StaysOpen
  BY <1>1, <1>3 DEF Reassign, HandOver, PauseNode, ResumeNode, SubmitEvidence, UploadDocument,
                    AuthorizeUpload, ReadForVerdict, AbandonPaper,
                    RequestRollback, ReviewDocument
<1>4. ASSUME NEW n \in Nodes,
             \/ StartTask(n) \/ MarkFieldWorkStarted(n) \/ Submit(n) \/ SubmitHandover(n)
             \/ Rework(n) \/ FailChecklist(n)
      PROVE  Idle /\ StaysOpen
  BY <1>4 DEF StartTask, MarkFieldWorkStarted, Submit, SubmitHandover, Rework, FailChecklist,
              TypeOK
<1>5. CASE VoidReceipt \/ RequestWaiver \/ RejectWaiver \/ RejectRollback
  BY <1>1, <1>5 DEF VoidReceipt, RequestWaiver, RejectWaiver, RejectRollback
<1>6. ASSUME ReopenSurvey \/ Cancel PROVE Idle /\ StaysOpen
  BY <1>6 DEF ReopenSurvey, Cancel, Unfinished, TypeOK
<1>7. CASE ApproveRollback
  BY <1>7 DEF ApproveRollback, TypeOK
<1> QED
  BY <1>1, <1>2, <1>3, <1>4, <1>5, <1>6, <1>7 DEF Next, vars

\* An acceptance accepts its own step and no other.
LEMMA AcceptsItself ==
  ASSUME TypeOK, NEW n, NEW next, NEW c, AcceptNode(n, next, c)
  PROVE  \A m \in Nodes \ {n} : status'[m] = "accepted" => status[m] = "accepted"
  BY DEF AcceptNode, AfterAcceptance, TypeOK

\* The handover step is accepted and the instance completes only while the
\* money is paid or waived: on every graph, with the survey reopened or not.
THEOREM MoneyBeforeCloseHolds == Spec => MoneyBeforeClose
<1> DEFINE Accepts == HandoverNode \in Nodes /\ status[HandoverNode] # "accepted"
                      /\ status'[HandoverNode] = "accepted"
           Completes == HandoverNode \in Nodes /\ inst = "running" /\ inst' = "completed"
           Guarded == Accepts \/ Completes => GateOpen'
<1>1. TypeOK /\ [Next]_vars => [Guarded]_vars
  <2> SUFFICES ASSUME TypeOK, Next, HandoverNode \in Nodes, Accepts \/ Completes PROVE GateOpen'
    OBVIOUS
  <2>1. ASSUME NEW n \in Nodes, NEW next \in Nodes \cup {NoNode}, Accept(n, next)
        PROVE  GateOpen'
    <3>1. GateOpen' = GateOpen
      BY <2>1 DEF Accept, GateOpen
    <3>2. CASE Completes
      BY <2>1, <3>1, <3>2 DEF Accept, CompleteWhenFinished, CompletionGate
    <3>3. CASE Accepts
      <4>1. HandoverNode = n
        BY <2>1, <3>3, AcceptsItself DEF Accept
      <4> QED
        BY <2>1, <3>1, <4>1 DEF Accept, MayAccept
    <3> QED
      BY <3>2, <3>3
  <2>2. ASSUME NEW n \in Nodes, ApproveChecklist(n) PROVE GateOpen'
    <3>1. GateOpen' = GateOpen
      BY <2>2 DEF ApproveChecklist, GateOpen
    <3>2. CASE Completes
      BY <2>2, <3>1, <3>2 DEF ApproveChecklist, CompleteWhenFinished, CompletionGate
    <3>3. CASE Accepts
      <4>1. CASE ApproveAccepts(n) /\ AcceptNode(n, DefaultNext[n], "approved")
        BY <3>1, <3>3, <4>1, AcceptsItself DEF ApproveAccepts, MayAccept
      <4>2. CASE AutoSubmit(n, "approved")
        BY <3>3, <4>2 DEF AutoSubmit, TypeOK
      <4>3. CASE AutoAccept(n, "approved", GateOpen)
        BY <3>1, <3>3, <4>3, AcceptsItself DEF AutoAccept, MayAccept
      <4>4. CASE UNCHANGED status
        BY <3>3, <4>4
      <4> QED
        BY <2>2, <4>1, <4>2, <4>3, <4>4 DEF ApproveChecklist
    <3> QED
      BY <3>2, <3>3
  <2>3. ASSUME NEW g, AutoFinalizeHandover(g), status' # status PROVE g
    BY <2>3 DEF AutoFinalizeHandover, AutoSubmittable
  <2>4. ASSUME NEW all \in BOOLEAN, ApproveReceipt(all) PROVE GateOpen'
    <3>1. GateOpen' = (settled' \/ waiver = "approved")
      BY <2>4 DEF ApproveReceipt, GateOpen
    <3>2. settled' \/ status' # status
      BY <2>4 DEF ApproveReceipt
    <3> QED
      BY <2>3, <2>4, <3>1, <3>2 DEF ApproveReceipt
  <2>5. CASE ApproveWaiver
    BY <2>5 DEF ApproveWaiver, GateOpen
  <2>6. ~Idle
    BY DEF Idle
  <2> QED
    BY <2>1, <2>2, <2>4, <2>5, <2>6, OnlyDecisionsClose
<1> QED
  BY <1>1, TypeCorrect, PTL DEF Spec, MoneyBeforeClose

----------------------------------------------------------------------------
(***************************************************************************)
(* Completion.                                                             *)
(***************************************************************************)
AllAccepted == \A n \in Nodes : status[n] = "accepted"

\* A running instance has a step that is not accepted.
Unended == inst = "running" => ~AllAccepted

\* An instance that does not run never runs again.
LEMMA NeverRunsAgain ==
  ASSUME [Next]_vars
  PROVE  /\ inst' \in {inst, "completed", "cancelled"}
         /\ inst' # inst => inst = "running"
<1>1. ASSUME NEW n \in Nodes, NEW d \in Depts, NEW role \in Roles, NEW startNow \in BOOLEAN,
             Claim(n, d, role, startNow)
      PROVE  inst' = inst
  BY <1>1 DEF Claim
<1>2. ASSUME NEW n \in Nodes,
             \/ \E roles \in SUBSET Roles : Reassign(n, roles)
             \/ \E role \in Roles : HandOver(n, role)
             \/ StartTask(n) \/ MarkFieldWorkStarted(n) \/ PauseNode(n) \/ ResumeNode(n)
             \/ SubmitEvidence(n) \/ UploadDocument(n)
             \/ PaperUnderWay(n) \/ Submit(n) \/ SubmitHandover(n)
             \/ Rework(n) \/ FailChecklist(n) \/ RequestRollback(n)
             \/ \E v \in {"approved", "rejected"} : ReviewDocument(n, v)
      PROVE  inst' = inst
  BY <1>2 DEF Reassign, HandOver, StartTask, MarkFieldWorkStarted, PauseNode, ResumeNode,
              SubmitEvidence, UploadDocument,
              AuthorizeUpload, ReadForVerdict, AbandonPaper, Submit, SubmitHandover, Rework,
              FailChecklist,
              RequestRollback, ReviewDocument
<1>3. ASSUME NEW n \in Nodes,
             ApproveChecklist(n) \/ \E next \in Nodes \cup {NoNode} : Accept(n, next)
      PROVE  inst' = inst \/ (inst = "running" /\ inst' = "completed")
  <2>1. inst' = inst \/ CompleteWhenFinished(GateOpen)
    BY <1>3 DEF ApproveChecklist, Accept
  <2> QED
    BY <2>1, Zenon DEF CompleteWhenFinished
<1>4. CASE (\E all \in BOOLEAN : ApproveReceipt(all)) \/ ApproveWaiver
  BY <1>4 DEF ApproveReceipt, ApproveWaiver
<1>5. CASE \/ VoidReceipt \/ RequestWaiver \/ RejectWaiver \/ ReopenSurvey \/ RejectRollback
           \/ ApproveRollback \/ Cancel
  BY <1>5 DEF VoidReceipt, RequestWaiver, RejectWaiver, ReopenSurvey, RejectRollback,
              ApproveRollback, Cancel
<1>6. CASE UNCHANGED vars
  BY <1>6 DEF vars
<1> QED
  BY <1>1, <1>2, <1>3, <1>4, <1>5, <1>6 DEF Next

\* The acceptance that makes every step accepted completes the instance: with a
\* handover step it is the handover's own, for which the gate is open.
LEMMA LastAcceptanceCompletes ==
  ASSUME HandoverIsLast, TypeOK, AcceptedInOrder, NEW n \in Nodes, status[n] # "accepted",
         NEW next, NEW c, NEW d, NEW g \in BOOLEAN,
         MayAccept(n, d, g), AcceptNode(n, next, c), CompleteWhenFinished(g)
  PROVE  Unended'
<1> SUFFICES ASSUME AllAccepted', inst' = "running" PROVE FALSE
  BY DEF Unended
<1>1. Finished'
  BY DEF Finished, AllAccepted
<1>2. inst = "running" /\ ~CompletionGate(g)
  BY <1>1 DEF CompleteWhenFinished
<1>3. HandoverNode \in Nodes /\ ~g
  BY <1>2 DEF CompletionGate
<1>4. n # HandoverNode
  BY <1>3 DEF MayAccept
<1>5. status[HandoverNode] = "accepted"
  BY <1>3, <1>4, AcceptsItself DEF AllAccepted
<1>6. n \in Ancestors[HandoverNode]
  BY <1>3, <1>4 DEF HandoverIsLast
<1> QED
  BY <1>3, <1>5, <1>6 DEF AcceptedInOrder, PredecessorsAccepted

\* No step of the engine leaves a running instance with every step accepted.
LEMMA UnendedStep ==
  ASSUME HandoverIsLast, TypeOK, AcceptedInOrder, Unended, [Next]_vars
  PROVE  Unended'
<1> USE DEF GateOpen
<1>0. CASE Idle
  <2> SUFFICES ASSUME inst' = "running", AllAccepted' PROVE FALSE
    BY DEF Unended
  <2>1. AllAccepted
    BY <1>0 DEF Idle, AllAccepted
  <2>2. inst # "running"
    BY <2>1 DEF Unended
  <2>3. inst' \in {inst, "completed", "cancelled"}
    BY NeverRunsAgain
  <2> QED
    BY <2>2, <2>3
<1>1. ASSUME UNCHANGED status, inst' \in {inst, "completed"} PROVE Unended'
  BY <1>1 DEF Unended, AllAccepted
<1>2. ASSUME NEW n \in Nodes, NEW next \in Nodes \cup {NoNode}, Accept(n, next) PROVE Unended'
  <2>1. GateOpen \in BOOLEAN
    BY DEF TypeOK
  <2> QED
    BY <1>2, <2>1, LastAcceptanceCompletes DEF Accept
<1>3. ASSUME NEW n \in Nodes, ApproveChecklist(n) PROVE Unended'
  <2>1. GateOpen \in BOOLEAN
    BY DEF TypeOK
  <2>2. CASE /\ ApproveAccepts(n) /\ AcceptNode(n, DefaultNext[n], "approved")
             /\ CompleteWhenFinished(GateOpen)
    BY <2>1, <2>2, LastAcceptanceCompletes DEF ApproveAccepts
  <2>3. CASE /\ ApproveFinalizes(n) /\ AutoAccept(n, "approved", GateOpen)
             /\ CompleteWhenFinished(GateOpen)
    BY <2>1, <2>3, LastAcceptanceCompletes DEF ApproveFinalizes, AutoSubmittable, AutoAccept
  <2>4. CASE AutoSubmit(n, "approved")
    <3>1. ~AllAccepted'
      BY <2>4 DEF AutoSubmit, TypeOK, AllAccepted
    <3> QED
      BY <3>1 DEF Unended
  <2>5. CASE UNCHANGED <<inst, status>>
    BY <1>1, <2>5
  <2> QED
    BY <1>3, <2>2, <2>3, <2>4, <2>5 DEF ApproveChecklist
<1>4. ASSUME NEW all \in BOOLEAN, ApproveReceipt(all) PROVE Unended'
  <2>1. inst' \in {inst, "completed"} /\ (inst' = "running" /\ Finished' => status' = status)
    BY <1>4 DEF ApproveReceipt
  <2> QED
    BY <1>1, <2>1 DEF Unended, AllAccepted, Finished
<1>5. CASE ApproveWaiver
  <2>1. inst' \in {inst, "completed"} /\ (inst' = "running" /\ Finished' => status' = status)
    BY <1>5 DEF ApproveWaiver
  <2> QED
    BY <1>1, <2>1 DEF Unended, AllAccepted, Finished
<1> QED
  BY <1>0, <1>2, <1>3, <1>4, <1>5, OnlyDecisionsClose

\* An instance all of whose steps are accepted does not stay running; with the
\* handover last the gate need not even be open any more.
THEOREM AllAcceptedCompletesHolds ==
  ASSUME CodesFollowFlow, NoReopening, HandoverIsLast
  PROVE  Spec => []AllAcceptedCompletes
<1>1. Init => Unended
  BY GraphAssumption DEF Init, Unended, AllAccepted
<1>2. Unended => AllAcceptedCompletes
  BY DEF Unended, AllAccepted, AllAcceptedCompletes
<1>3. Spec => [](TypeOK /\ AcceptedInOrder)
  BY TypeCorrect, AcceptedInOrderHolds, PTL
<1> QED
  BY <1>1, <1>2, <1>3, UnendedStep, PTL DEF Spec

----------------------------------------------------------------------------
(***************************************************************************)
(* Progress.  On a chain no series of handlers leaves only steps that       *)
(* nothing will open: the step after an accepted one is never "pending",    *)
(* and with an ordered workflow that is all it takes.                      *)
(***************************************************************************)
Frontier ==
    /\ status[StartNode] # "pending"
    /\ \A n \in Nodes : status[n] = "accepted" => \A k \in Succ[n] : status[k] # "pending"

FrontierInv == inst = "running" => Frontier

\* A walk from t to another step leads there by a transition of t.
LEMMA BehindIsDescendant ==
  ASSUME NEW t \in Nodes, NEW m \in Downstream[t], m # t
  PROVE  t \in Ancestors[m]
<1> DEFINE S == {t} \cup {x \in Nodes : t \in Ancestors[x]}
<1>1. S \in SUBSET Nodes /\ t \in S
  OBVIOUS
<1>2. Closed(S)
  <2> SUFFICES ASSUME NEW x \in S, NEW y \in Succ[x] PROVE t \in Ancestors[y] /\ y \in Nodes
    BY DEF Closed
  <2>1. x \in Nodes /\ y \in Nodes
    BY GraphAssumption
  <2>2. CASE x = t
    BY <2>1, <2>2, DownstreamReflexive DEF Ancestors
  <2>3. CASE t \in Ancestors[x]
    <3>1. PICK s \in Succ[t] : x \in Downstream[s]
      BY <2>1, <2>3 DEF Ancestors
    <3>2. s \in Nodes /\ y \in Downstream[s]
      BY <3>1, GraphAssumption, DownstreamClosed DEF Closed
    <3> QED
      BY <2>1, <3>1, <3>2 DEF Ancestors
  <2> QED
    BY <2>1, <2>2, <2>3
<1> QED
  BY <1>1, <1>2 DEF Downstream

\* On a chain the step nothing follows comes after every other step, so that its
\* code is the greatest.
LEMMA ChainEndIsLast ==
  ASSUME Linear, CodesFollowFlow
  PROVE  EndIsLast
<1> SUFFICES ASSUME NEW t \in Nodes, Downstream[t] = {t}, NEW m \in Nodes \ {t}
             PROVE  Code[m] < Code[t]
  BY DEF EndIsLast
<1> DEFINE S == {x \in Nodes : t \in Downstream[x]}
<1>1. Succ[t] = {}
  <2> SUFFICES ASSUME NEW y \in Succ[t] PROVE FALSE
    OBVIOUS
  <2>1. y = t
    BY DownstreamClosed, DownstreamReflexive DEF Closed
  <2>2. t \in Ancestors[t]
    BY <2>1 DEF Ancestors
  <2> QED
    BY <2>2, GraphAssumption DEF CodesFollowFlow
<1>2. Closed(S)
  <2> SUFFICES ASSUME NEW x \in S, NEW y \in Succ[x] PROVE y \in S
    BY DEF Closed
  <2>1. x # t /\ y \in Nodes /\ Succ[x] = {y}
    BY <1>1, GraphAssumption DEF Linear
  <2>2. PICK s \in Succ[x] : t \in Downstream[s]
    BY <2>1, BehindIsDescendant DEF Ancestors
  <2> QED
    BY <2>1, <2>2
<1>3. StartNode \in S
  BY GraphAssumption DEF Linear
<1>4. m \in S
  BY <1>2, <1>3, GraphAssumption DEF Linear, Downstream
<1> QED
  BY <1>4, BehindIsDescendant DEF CodesFollowFlow

\* What a rollback reaches beside its target lies behind the target.
LEMMA AffectedIsBehind ==
  ASSUME EndIsLast, NEW t \in Nodes, NEW m \in Affected(t), m # t
  PROVE  t \in Ancestors[m]
<1>1. CASE Downstream[t] # {t}
  BY <1>1, BehindIsDescendant DEF Affected
<1>2. CASE Downstream[t] = {t}
  <2>1. m \in Nodes /\ Code[m] >= Code[t] /\ Code[m] < Code[t]
    BY <1>2 DEF Affected, EndIsLast
  <2> QED
    BY <2>1, GraphAssumption
<1> QED
  BY <1>1, <1>2

\* A rollback leaves its target to be worked on, and no step behind an accepted
\* one but that.
LEMMA RollbackFrontier ==
  ASSUME Linear, CodesFollowFlow, TypeOK, AcceptedInOrder, OrderInv, inst = "running",
         Frontier, ApproveRollback
  PROVE  Frontier'
<1> DEFINE t == request
<1>1. t \in Nodes /\ EndIsLast /\ NoJoins
  BY RollbackStep, ChainEndIsLast DEF Linear
<1>2. ASSUME NEW m \in ResetBy(t) PROVE m \in Nodes /\ status[m] # "pending" /\ PredecessorsAccepted(m)
  BY <1>2 DEF ResetBy, Resettable, Affected, OrderInv, AcceptedInOrder
<1>3. status[t] # "pending"
  <2>1. PICK m \in ResetBy(t) : TRUE
    BY DEF ApproveRollback
  <2>2. CASE m = t
    BY <1>2, <2>2
  <2>3. CASE m # t
    <3>1. t \in Ancestors[m]
      BY <1>1, <2>1, <2>3, AffectedIsBehind DEF ResetBy
    <3> QED
      BY <1>2, <3>1 DEF PredecessorsAccepted
  <2> QED
    BY <2>2, <2>3
<1>4. status'[t] = "rework_required"
  <2>1. t \in Affected(t)
    BY <1>1, DownstreamReflexive, GraphAssumption DEF Affected, OrderInv
  <2>2. t \in ResetBy(t)
    BY <1>1, <1>3, <2>1 DEF ResetBy, Resettable, TypeOK, OrderInv
  <2> QED
    BY <1>1, <2>2 DEF ApproveRollback
<1>5. ASSUME NEW k \in Nodes, status[k] # "pending", status'[k] = "pending"
      PROVE  k \in Affected(t) /\ t \in Ancestors[k]
  <2>1. k \in Affected(t) /\ k # t
    BY <1>4, <1>5 DEF ApproveRollback, ResetBy
  <2> QED
    BY <1>1, <2>1, AffectedIsBehind
<1>6. status'[StartNode] # "pending"
  <2>1. Ancestors[StartNode] = {}
    BY <1>1, StartHasNoAncestors
  <2> QED
    BY <1>5, <2>1, GraphAssumption DEF Frontier
<1>7. ASSUME NEW n \in Nodes, status'[n] = "accepted", NEW k \in Succ[n], status'[k] = "pending"
      PROVE  FALSE
  <2>1. status[n] = "accepted" /\ n \notin Affected(t)
    BY <1>7, RollbackStep DEF Accepted
  <2>2. k \in Nodes /\ status[k] # "pending"
    BY <2>1, GraphAssumption DEF Frontier
  <2>3. k \in Affected(t) /\ t \in Ancestors[k]
    BY <1>5, <1>7, <2>2
  <2>4. t \in Affected(t)
    BY <1>1, DownstreamReflexive, GraphAssumption DEF Affected, OrderInv
  <2>5. t \in Ancestors[n]
    BY <1>1, <2>1, <2>3, <2>4, AncestorsOfTarget
  <2>6. n \in Affected(t)
    BY <1>1, <2>1, <2>4, <2>5, AffectedHoldsDescendants
  <2> QED
    BY <2>1, <2>6
<1> QED
  BY <1>6, <1>7 DEF Frontier

\* An acceptance opens the step it leads to, and on a chain there is no other.
LEMMA AcceptFrontier ==
  ASSUME TypeOK, Frontier, NEW n \in Nodes, NEW next, NEW c, \A k \in Succ[n] : k = next,
         AcceptNode(n, next, c)
  PROVE  Frontier'
<1>1. status' = AfterAcceptance(n, next)
  BY DEF AcceptNode
<1>2. \A m \in Nodes : /\ status'[m] = "pending" => status[m] = "pending" /\ m # n /\ m # next
                       /\ status'[m] = "accepted" => m = n \/ status[m] = "accepted"
  BY <1>1 DEF AfterAcceptance
<1> QED
  BY <1>2, GraphAssumption DEF Frontier

\* A step that opens no acceptance and sends nothing back keeps the frontier.
LEMMA StillFrontier ==
  ASSUME Frontier, \A m \in Nodes : status'[m] = "accepted" => status[m] = "accepted", StaysOpen
  PROVE  Frontier'
  BY GraphAssumption DEF Frontier, StaysOpen

\* Every step of a running engine keeps the frontier.
LEMMA FrontierStep ==
  ASSUME Linear, CodesFollowFlow, TypeOK, AcceptedInOrder, OrderInv, FrontierInv, [Next]_vars
  PROVE  FrontierInv'
<1> SUFFICES ASSUME inst' = "running" PROVE Frontier'
  BY DEF FrontierInv
<1>1. inst = "running" /\ Frontier
  BY NeverRunsAgain DEF FrontierInv
<1>2. \A n \in Nodes : \A k \in Succ[n] : k = DefaultNext[n]
  BY DEF Linear
<1>3. ASSUME NEW n \in Nodes, NEW c, AutoSubmit(n, c) PROVE Frontier'
  BY <1>1, <1>3, StillFrontier DEF AutoSubmit, TypeOK, StaysOpen
<1>4. ASSUME NEW n \in Nodes, NEW c, AcceptNode(n, DefaultNext[n], c) PROVE Frontier'
  BY <1>1, <1>2, <1>4, AcceptFrontier
<1>5. CASE UNCHANGED status
  BY <1>1, <1>5, StillFrontier DEF StaysOpen
<1>6. ASSUME NEW n \in Nodes, NEW next \in Nodes \cup {NoNode}, Accept(n, next) PROVE Frontier'
  <2>1. \A k \in Succ[n] : k = next
    BY <1>2, <1>6 DEF Accept
  <2> QED
    BY <1>1, <1>6, <2>1, AcceptFrontier DEF Accept
<1>7. ASSUME NEW n \in Nodes, ApproveChecklist(n) PROVE Frontier'
  BY <1>3, <1>4, <1>5, <1>7 DEF ApproveChecklist, AutoAccept
<1>8. ASSUME NEW g, AutoFinalizeHandover(g) PROVE Frontier'
  BY <1>3, <1>4, <1>5, <1>8 DEF AutoFinalizeHandover, AutoAccept
<1>9. CASE (\E all \in BOOLEAN : ApproveReceipt(all)) \/ ApproveWaiver
  BY <1>8, <1>9 DEF ApproveReceipt, ApproveWaiver
<1>10. CASE ApproveRollback
  BY <1>1, <1>10, RollbackFrontier
<1>11. CASE Idle /\ StaysOpen
  BY <1>1, <1>11, StillFrontier DEF Idle
<1> QED
  BY <1>6, <1>7, <1>9, <1>10, <1>11, OnlyDecisionsClose

\* On every chain whose codes follow the flow, a running instance has a step
\* somebody can act on, or all its steps are accepted.
THEOREM NoDeadEndHolds ==
  ASSUME Linear, CodesFollowFlow, NoReopening
  PROVE  Spec => []NoDeadEnd
<1>1. Init => OrderInv /\ FrontierInv
  BY GraphAssumption, StartHasNoAncestors, CatalogAssumption
     DEF Init, OrderInv, ItemsInWork, PredecessorsAccepted, FrontierInv, Frontier, Linear
<1>2. ASSUME TypeOK, OrderInv, FrontierInv PROVE NoDeadEnd
  <2> SUFFICES ASSUME inst = "running",
                      \A n \in Nodes : status[n] \in Active \cup {"ready", "submitted"}
                                           => ~PredecessorsAccepted(n)
               PROVE  Nodes \subseteq Accepted
    BY DEF NoDeadEnd, Accepted
  <2>1. \A n \in Nodes : status[n] \in {"pending", "accepted"}
    BY <1>2 DEF OrderInv, TypeOK, Active
  <2>2. Closed(Accepted) /\ StartNode \in Accepted
    BY <1>2, <2>1, GraphAssumption DEF FrontierInv, Frontier, Closed, Accepted
  <2>3. Accepted \in SUBSET Nodes
    BY DEF Accepted
  <2> QED
    BY <2>2, <2>3, GraphAssumption DEF Linear, Downstream
<1>3. Spec => [](TypeOK /\ AcceptedIsReviewed /\ AcceptedInOrder)
  BY TypeCorrect, AcceptedIsReviewedHolds, AcceptedInOrderHolds, PTL
<1>4. Linear => NoJoins
  BY DEF Linear
<1>5. /\ TypeOK /\ AcceptedIsReviewed /\ AcceptedInOrder /\ OrderInv /\ FrontierInv
      /\ [Next]_vars
      => OrderInv' /\ FrontierInv'
  BY <1>4, WorkStep, FrontierStep
<1> QED
  BY <1>1, <1>2, <1>3, <1>5, PTL DEF Spec

----------------------------------------------------------------------------
(***************************************************************************)
(* Where a graph stops.  An instance completes only with every step         *)
(* accepted; so it never does when a step stands on a cycle, or behind or   *)
(* on both ways of a fork the Director has to choose between.              *)
(***************************************************************************)
\* What a decision may do to the steps: accept one and open one it leads to, hand
\* one in, or leave every step where it is.
Accepts(n, next, c) ==
    /\ status[n] \in {"submitted", "in_progress"}
    /\ PredecessorsAccepted(n)
    /\ AcceptNode(n, next, c)

HandsIn(n, c) == status[n] = "in_progress" /\ AutoSubmit(n, c)

OnlyJudges ==
    /\ UNCHANGED status
    /\ \A m \in Nodes : checklist'[m] \in {checklist[m], "approved"}

\* The handlers of the Director's acceptance, checklist, receipt and waiver do one
\* of the three, and accept only behind accepted steps.
LEMMA DecisionShape ==
  ASSUME TypeOK,
         \/ \E n \in Nodes : \/ ApproveChecklist(n)
                             \/ \E next \in Nodes \cup {NoNode} : Accept(n, next)
         \/ \E all \in BOOLEAN : ApproveReceipt(all)
         \/ ApproveWaiver
  PROVE  \/ \E n \in Nodes : \E next \in Succ[n] \cup {NoNode} : \E c \in ItemStatus :
                Accepts(n, next, c)
         \/ \E n \in Nodes : \E c \in ItemStatus : HandsIn(n, c)
         \/ OnlyJudges
<1> DEFINE Shape == \/ \E n \in Nodes : \E next \in Succ[n] \cup {NoNode} : \E c \in ItemStatus :
                          Accepts(n, next, c)
                    \/ \E n \in Nodes : \E c \in ItemStatus : HandsIn(n, c)
                    \/ OnlyJudges
<1>1. ASSUME NEW n \in Nodes, NEW next \in Nodes \cup {NoNode}, Accept(n, next) PROVE Shape
  <2>1. next \in Succ[n] \cup {NoNode} /\ checklist[n] \in ItemStatus
    BY <1>1 DEF Accept, TypeOK
  <2> QED
    BY <1>1, <2>1 DEF Accept, MayAccept, Accepts
<1>2. ASSUME NEW n \in Nodes, NEW c \in ItemStatus, NEW g,
             AutoSubmittable(n, c, g), AutoSubmit(n, c) \/ AutoAccept(n, c, g)
      PROVE  Shape
  <2>1. DefaultNext[n] \in Succ[n] \cup {NoNode} /\ status[n] = "in_progress"
    BY <1>2, GraphAssumption DEF AutoSubmittable
  <2>2. CASE AutoSubmit(n, c)
    BY <2>1, <2>2 DEF HandsIn
  <2>3. CASE AutoAccept(n, c, g)
    BY <2>1, <2>3 DEF AutoAccept, MayAccept, Accepts
  <2> QED
    BY <1>2, <2>2, <2>3
<1>3. ASSUME NEW n \in Nodes, ApproveChecklist(n) PROVE Shape
  <2>1. DefaultNext[n] \in Succ[n] \cup {NoNode} /\ "approved" \in ItemStatus
    BY GraphAssumption DEF ItemStatus
  <2>2. CASE ApproveAccepts(n) /\ AcceptNode(n, DefaultNext[n], "approved")
    BY <2>1, <2>2 DEF ApproveAccepts, MayAccept, Accepts
  <2>3. CASE /\ ApproveFinalizes(n)
             /\ AutoSubmit(n, "approved") \/ AutoAccept(n, "approved", GateOpen)
    BY <1>2, <2>1, <2>3 DEF ApproveFinalizes
  <2>4. CASE checklist' = [checklist EXCEPT ![n] = "approved"] /\ UNCHANGED status
    BY <2>4 DEF OnlyJudges, TypeOK
  <2> QED
    BY <1>3, <2>2, <2>3, <2>4 DEF ApproveChecklist
<1>4. ASSUME NEW g, AutoFinalizeHandover(g) PROVE Shape
  <2>1. CASE HandoverNode \in Nodes /\ AutoSubmittable(HandoverNode, checklist[HandoverNode], g)
    <3>1. checklist[HandoverNode] \in ItemStatus
      BY <2>1 DEF TypeOK
    <3> QED
      BY <1>2, <1>4, <2>1, <3>1 DEF AutoFinalizeHandover
  <2>2. CASE UNCHANGED <<status, checklist>>
    BY <2>2 DEF OnlyJudges
  <2> QED
    BY <1>4, <2>1, <2>2 DEF AutoFinalizeHandover
<1>5. CASE (\E all \in BOOLEAN : ApproveReceipt(all)) \/ ApproveWaiver
  BY <1>4, <1>5 DEF ApproveReceipt, ApproveWaiver
<1> QED
  BY <1>1, <1>3, <1>5


\* On every graph, the survey reopened or not, no step is cancelled before its
\* instance is, and no item waits for the Director on a step nobody works on.
LEMMA UncancelledStep ==
  ASSUME TypeOK, Uncancelled, [Next]_vars
  PROVE  Uncancelled'
<1> SUFFICES ASSUME inst' # "cancelled"
             PROVE  ItemsInWork' /\ \A n \in Nodes : status'[n] # "cancelled"
  BY DEF Uncancelled
<1> USE CatalogAssumption
<1>1. inst # "cancelled" /\ ItemsInWork /\ \A n \in Nodes : status[n] # "cancelled"
  BY NeverRunsAgain DEF Uncancelled
<1>2. ASSUME NEW n \in Nodes, NEW next, NEW c \in ItemStatus, Accepts(n, next, c)
      PROVE  ItemsInWork' /\ \A m \in Nodes : status'[m] # "cancelled"
  <2>1. status' = AfterAcceptance(n, next) /\ checklist'[n] # "pending_approval"
    BY <1>2 DEF Accepts, AcceptNode, TypeOK
  <2>2. \A m \in Nodes \ {n} : checklist'[m] = checklist[m]
    BY <1>2 DEF Accepts, AcceptNode, TypeOK
  <2>3. \A m \in Nodes \ {n} : status[m] # "pending" => status'[m] = status[m]
    BY <2>1 DEF AfterAcceptance
  <2>4. \A m \in Nodes : status'[m] # "cancelled"
    BY <1>1, <2>1 DEF AfterAcceptance
  <2>5. ASSUME NEW m \in ChecklistNodes, checklist'[m] = "pending_approval"
        PROVE  status'[m] \in Working
    <3>1. m \in Nodes \ {n} /\ status[m] \in Working
      BY <1>1, <2>1, <2>2, <2>5 DEF ItemsInWork
    <3> QED
      BY <2>3, <3>1 DEF Working, Active
  <2> QED
    BY <2>4, <2>5 DEF ItemsInWork
<1>3. ASSUME NEW n \in Nodes, NEW c, HandsIn(n, c)
      PROVE  ItemsInWork' /\ \A m \in Nodes : status'[m] # "cancelled"
  BY <1>1, <1>3 DEF HandsIn, AutoSubmit, TypeOK, ItemsInWork, Working
<1>4. CASE OnlyJudges
  BY <1>1, <1>4 DEF OnlyJudges, ItemsInWork
<1>5. CASE ApproveRollback
  BY <1>1, <1>5 DEF ApproveRollback, ItemsInWork
<1>6. CASE ReopenSurvey
  BY <1>1, <1>6 DEF ReopenSurvey, TypeOK, ItemsInWork, Working, Active
<1>7. ~Cancel
  BY DEF Cancel
<1>8. CASE \A m \in Nodes : Settles(m)
  BY <1>8 DEF Settles, ItemsInWork
<1> QED
  BY <1>1, <1>2, <1>3, <1>4, <1>5, <1>6, <1>7, <1>8, DecisionShape, QuietStep

\* So it is in every state of the engine.
LEMMA UncancelledHolds == Spec => []Uncancelled
<1>1. Init => Uncancelled
  BY CatalogAssumption DEF Init, Uncancelled, ItemsInWork
<1> QED
  BY <1>1, UncancelledStep, TypeCorrect, PTL DEF Spec

\* A completion leaves no step that is not accepted.
CompletesAccepted == inst # "completed" /\ inst' = "completed" => AllAccepted'

\* On every graph, with the survey reopened or not, an instance completes only
\* with every step of it accepted, on each of the four paths that complete it
\* (the Director's acceptance, the checklist's, the receipt's, the waiver's).
THEOREM CompletesAcceptedHolds == Spec => [][CompletesAccepted]_vars
<1>1. TypeOK /\ Uncancelled /\ [Next]_vars => [CompletesAccepted]_vars
  <2> SUFFICES ASSUME TypeOK, Uncancelled, Next, inst # "completed", inst' = "completed"
               PROVE  AllAccepted'
    BY DEF CompletesAccepted
  <2>1. Finished'
    <3>1. ASSUME NEW g, CompleteWhenFinished(g) PROVE Finished'
      BY <3>1 DEF CompleteWhenFinished
    <3>2. ASSUME NEW n \in Nodes,
                 ApproveChecklist(n) \/ \E next \in Nodes \cup {NoNode} : Accept(n, next)
          PROVE  Finished'
      BY <3>1, <3>2 DEF ApproveChecklist, Accept
    <3>3. CASE (\E all \in BOOLEAN : ApproveReceipt(all)) \/ ApproveWaiver
      BY <3>3 DEF ApproveReceipt, ApproveWaiver
    <3>4. ~Idle
      BY DEF Idle
    <3> QED
      BY <3>2, <3>3, <3>4, OnlyDecisionsClose
  <2>2. \A n \in Nodes : status'[n] # "cancelled"
    BY UncancelledStep DEF Uncancelled
  <2> QED
    BY <2>1, <2>2 DEF Finished, AllAccepted
<1> QED
  BY <1>1, TypeCorrect, UncancelledHolds, PTL DEF Spec

\* A step that holds its instance up.
Stuck(n) == status[n] # "accepted" /\ inst # "completed"

\* A step that is not accepted keeps its instance from completing.
LEMMA StuckStep ==
  ASSUME NEW n \in Nodes, Stuck(n), status'[n] # "accepted", [CompletesAccepted]_vars
  PROVE  Stuck(n)'
  BY DEF Stuck, CompletesAccepted, AllAccepted, vars

\* A step on a cycle waits for itself: on every graph it is never accepted, and
\* the instance never completes (unaccepted_predecessors follows the transitions
\* backwards, round the cycle too).
THEOREM CycleNeverCompletes ==
  ASSUME NEW n \in Nodes, n \in Ancestors[n]
  PROVE  Spec => []Stuck(n)
<1>1. Init => Stuck(n)
  BY DEF Init, Stuck
<1>2. TypeOK /\ AcceptedIsReviewed /\ Stuck(n) /\ [Next]_vars /\ [CompletesAccepted]_vars
      => Stuck(n)'
  <2> SUFFICES ASSUME TypeOK, AcceptedIsReviewed, Stuck(n), [Next]_vars,
                      [CompletesAccepted]_vars
               PROVE  Stuck(n)'
    OBVIOUS
  <2>1. status'[n] # "accepted"
    BY AcceptsBehindAccepted DEF PredecessorsAccepted, Stuck
  <2> QED
    BY <2>1, StuckStep
<1>3. Spec => [](TypeOK /\ AcceptedIsReviewed)
  BY TypeCorrect, AcceptedIsReviewedHolds, PTL
<1> QED
  BY <1>1, <1>2, <1>3, CompletesAcceptedHolds, PTL DEF Spec

\* A fork: two steps to which no transition leads but n's, and none of the three
\* the survey that a legal dossier reopens.
Fork(n, a, b) ==
    /\ n \in Nodes /\ a \in Succ[n] /\ b \in Succ[n] /\ a # b
    /\ \A m \in Nodes \ {n} : Succ[m] \cap {a, b} = {}
    /\ StartNode \notin {a, b}
    /\ SurveyNode \notin {n, a, b}

\* Before a cancellation one way of the fork at least is not opened, and neither
\* is without the acceptance of n; a cancellation buries that way for good.
OneChosen(n, a, b) ==
    /\ "pending" \in {status[a], status[b]}
    /\ \A x \in {a, b} : status[x] # "pending" => status[n] = "accepted"

Buried(x) ==
    /\ status[x] = "cancelled"
    /\ x \in ChecklistNodes => checklist[x] # "pending_approval"

ForkInv(n, a, b) ==
    IF inst = "cancelled" THEN Buried(a) \/ Buried(b) ELSE OneChosen(n, a, b)

\* A cancelled step with nothing left to judge is never opened again, whatever
\* is still done on its instance.
LEMMA StaysBuried ==
  ASSUME TypeOK, [Next]_vars, NEW x \in Nodes, Buried(x)
  PROVE  Buried(x)'
<1> USE DEF Buried
<1>1. CASE UNCHANGED <<status, checklist>>
  BY <1>1
<1>2. ASSUME NEW n \in Nodes, NEW next, NEW c, Accepts(n, next, c) PROVE Buried(x)'
  BY <1>2 DEF Accepts, AcceptNode, AfterAcceptance, TypeOK
<1>3. ASSUME NEW n \in Nodes, NEW c, HandsIn(n, c) PROVE Buried(x)'
  BY <1>3 DEF HandsIn, AutoSubmit, TypeOK
<1>4. CASE OnlyJudges
  BY <1>4 DEF OnlyJudges
<1>5. ASSUME NEW n \in Nodes, NEW d \in Depts, NEW role \in Roles, NEW startNow \in BOOLEAN,
             Claim(n, d, role, startNow)
      PROVE  Buried(x)'
  BY <1>5 DEF Claim, TypeOK
<1>6. ASSUME NEW n \in Nodes,
             \/ \E roles \in SUBSET Roles : Reassign(n, roles)
             \/ \E role \in Roles : HandOver(n, role)
             \/ PauseNode(n) \/ ResumeNode(n) \/ UploadDocument(n)
             \/ PaperUnderWay(n) \/ RequestRollback(n)
             \/ \E v \in {"approved", "rejected"} : ReviewDocument(n, v)
      PROVE  Buried(x)'
  BY <1>1, <1>6 DEF Reassign, HandOver, PauseNode, ResumeNode, UploadDocument,
                    AuthorizeUpload, ReadForVerdict, AbandonPaper,
                    RequestRollback, ReviewDocument
<1>7. ASSUME NEW n \in Nodes, StartTask(n) \/ MarkFieldWorkStarted(n) \/ SubmitEvidence(n)
      PROVE  Buried(x)'
  BY <1>7 DEF StartTask, MarkFieldWorkStarted, SubmitEvidence, MaySubmitEvidence, Active, TypeOK
<1>8. ASSUME NEW n \in Nodes, Submit(n) \/ SubmitHandover(n) PROVE Buried(x)'
  BY <1>8 DEF Submit, SubmitHandover, Active, TypeOK
<1>9. ASSUME NEW n \in Nodes, Rework(n) \/ FailChecklist(n) PROVE Buried(x)'
  BY <1>9 DEF Rework, FailChecklist, TypeOK
<1>10. CASE VoidReceipt \/ RequestWaiver \/ RejectWaiver \/ RejectRollback
  BY <1>1, <1>10 DEF VoidReceipt, RequestWaiver, RejectWaiver, RejectRollback
<1>11. CASE ApproveRollback
  BY <1>11 DEF ApproveRollback, ResetBy, Affected, Resettable
<1>12. CASE ReopenSurvey \/ Cancel
  BY <1>12 DEF ReopenSurvey, Cancel, Unfinished, TypeOK
<1> QED
  BY <1>1, <1>2, <1>3, <1>4, <1>5, <1>6, <1>7, <1>8, <1>9, <1>10, <1>11, <1>12,
     DecisionShape DEF Next, vars

\* A rollback that takes n back takes back what n opened.
LEMMA RollbackChosen ==
  ASSUME CodesFollowFlow, TypeOK, NEW n, NEW a, NEW b, Fork(n, a, b), OneChosen(n, a, b),
         \A m \in Nodes : status[m] # "cancelled", ApproveRollback
  PROVE  OneChosen(n, a, b)'
<1>1. {a, b} \subseteq Nodes /\ n \in Nodes
  BY GraphAssumption DEF Fork
<1>2. request \in Nodes /\ Accepted' = Accepted \ Affected(request)
  BY RollbackStep
<1>3. ASSUME NEW x \in {a, b}, status[x] = "pending" PROVE status'[x] = "pending"
  BY <1>1, <1>3 DEF ApproveRollback, ResetBy, Resettable
<1>4. ASSUME NEW x \in {a, b}, status'[x] # "pending" PROVE status'[n] = "accepted"
  <2>1. x \in Nodes /\ status[x] # "pending" /\ n \in Accepted
    BY <1>1, <1>3, <1>4 DEF OneChosen, Accepted
  <2>2. n \in Ancestors[x]
    BY <1>1, <2>1, DownstreamReflexive DEF Fork, Ancestors
  <2>3. n \notin Affected(request)
    <3>1. CASE x = request
      BY <1>2, <2>2, <3>1, AncestorsKept
    <3>2. CASE x # request
      <4>1. x \notin ResetBy(request)
        BY <1>4, <2>1, <3>2 DEF ApproveRollback
      <4>2. x \notin Affected(request)
        BY <2>1, <4>1 DEF ResetBy, Resettable, TypeOK
      <4> QED
        BY <1>2, <2>1, <2>2, <4>2, AffectedHoldsDescendants
    <3> QED
      BY <3>1, <3>2
  <2> QED
    BY <1>2, <2>1, <2>3 DEF Accepted
<1> QED
  BY <1>3, <1>4 DEF OneChosen

\* Every step of the engine keeps one way of a fork closed.
LEMMA ForkStep ==
  ASSUME CodesFollowFlow, TypeOK, AcceptedIsReviewed, Uncancelled,
         NEW n, NEW a, NEW b, Fork(n, a, b), ForkInv(n, a, b), [Next]_vars
  PROVE  ForkInv(n, a, b)'
<1>1. {a, b} \subseteq Nodes /\ n \in Nodes /\ a # n /\ b # n
  <2>1. {a, b} \subseteq Nodes /\ n \in Nodes
    BY GraphAssumption DEF Fork
  <2>2. n \in Ancestors[a] /\ n \in Ancestors[b]
    BY <2>1, DownstreamReflexive DEF Fork, Ancestors
  <2>3. n \notin Ancestors[n]
    BY <2>1, GraphAssumption DEF CodesFollowFlow
  <2> QED
    BY <2>1, <2>2, <2>3
<1>2. CASE inst = "cancelled"
  <2>1. inst' = "cancelled"
    BY <1>2, NeverRunsAgain
  <2> QED
    BY <1>1, <1>2, <2>1, StaysBuried DEF ForkInv
<1>3. CASE inst # "cancelled" /\ inst' = "cancelled"
  <2>1. Cancel
    <3>1. ASSUME NEW g, CompleteWhenFinished(g) PROVE inst' # "cancelled"
      BY <1>3, <3>1 DEF CompleteWhenFinished
    <3>2. ASSUME NEW m \in Nodes,
                 ApproveChecklist(m) \/ \E next \in Nodes \cup {NoNode} : Accept(m, next)
          PROVE  inst' # "cancelled"
      BY <1>3, <3>1, <3>2 DEF ApproveChecklist, Accept
    <3>3. CASE (\E all \in BOOLEAN : ApproveReceipt(all)) \/ ApproveWaiver
      BY <1>3, <3>3 DEF ApproveReceipt, ApproveWaiver
    <3>4. CASE ApproveRollback \/ ReopenSurvey
      BY <1>3, <3>4 DEF ApproveRollback, ReopenSurvey
    <3> QED
      BY <1>3, <3>2, <3>3, <3>4, QuietStep
  <2>2. PICK x \in {a, b} : status[x] = "pending"
    BY <1>3 DEF ForkInv, OneChosen
  <2>3. Buried(x)'
    BY <1>1, <1>3, <2>1, <2>2, CatalogAssumption
       DEF Cancel, Unfinished, Uncancelled, ItemsInWork, Working, Active, Buried, TypeOK
  <2> QED
    BY <1>3, <2>2, <2>3 DEF ForkInv
<1>4. CASE inst # "cancelled" /\ inst' # "cancelled"
  <2> SUFFICES OneChosen(n, a, b)'
    BY <1>4 DEF ForkInv
  <2>1. OneChosen(n, a, b) /\ \A m \in Nodes : status[m] # "cancelled"
    BY <1>4 DEF ForkInv, Uncancelled
  <2>2. ASSUME NEW m \in Nodes, NEW next \in Succ[m] \cup {NoNode}, NEW c, Accepts(m, next, c)
        PROVE  OneChosen(n, a, b)'
    <3>1. status' = AfterAcceptance(m, next) /\ status[m] \notin {"pending", "accepted"}
      BY <2>2 DEF Accepts, AcceptNode
    <3>2. CASE m = n
      <4>1. \A x \in {a, b} : status[x] = "pending"
        BY <2>1, <3>1, <3>2 DEF OneChosen
      <4>2. status'[n] = "accepted"
        BY <1>1, <3>1, <3>2 DEF AfterAcceptance
      <4>3. \E x \in {a, b} : x # next
        BY DEF Fork
      <4>4. \A x \in {a, b} : x # next => status'[x] = "pending"
        BY <1>1, <3>1, <3>2, <4>1 DEF AfterAcceptance
      <4> QED
        BY <4>2, <4>3, <4>4 DEF OneChosen
    <3>3. CASE m # n
      <4>1. next \notin {a, b}
        BY <1>1, <3>3, GraphAssumption DEF Fork
      <4>2. \A x \in {a, b} : status'[x] = "pending" <=> status[x] = "pending"
        BY <1>1, <3>1, <4>1 DEF AfterAcceptance
      <4>3. status[n] = "accepted" => status'[n] = "accepted"
        BY <1>1, <3>1, <3>3 DEF AfterAcceptance
      <4> QED
        BY <2>1, <4>2, <4>3 DEF OneChosen
    <3> QED
      BY <3>2, <3>3
  <2>3. ASSUME NEW m \in Nodes, NEW c, HandsIn(m, c) PROVE OneChosen(n, a, b)'
    <3>1. status' = [status EXCEPT ![m] = "submitted"] /\ status[m] = "in_progress"
      BY <2>3 DEF HandsIn, AutoSubmit
    <3>2. \A x \in {a, b} : status'[x] = "pending" <=> status[x] = "pending"
      BY <1>1, <3>1 DEF TypeOK
    <3>3. status[n] = "accepted" => status'[n] = "accepted"
      BY <1>1, <3>1 DEF TypeOK
    <3> QED
      BY <2>1, <3>2, <3>3 DEF OneChosen
  <2>4. CASE UNCHANGED status
    BY <2>1, <2>4 DEF OneChosen
  <2>5. CASE ApproveRollback
    BY <2>1, <2>5, RollbackChosen
  <2>6. CASE ReopenSurvey
    BY <1>1, <2>1, <2>6 DEF ReopenSurvey, Fork, OneChosen, TypeOK
  <2>7. ASSUME ~ApproveRollback, ~ReopenSurvey, Idle, StaysOpen,
               \A m \in Nodes : Settles(m)
        PROVE  OneChosen(n, a, b)'
    <3>1. \A x \in {a, b} : status'[x] = "pending" <=> status[x] = "pending"
      BY <1>1, <2>7 DEF Idle, StaysOpen, Settles
    <3>2. status[n] = "accepted" => status'[n] = "accepted"
      BY <1>1, <2>7, ForwardStep DEF Order!Finish, Accepted
    <3> QED
      BY <2>1, <3>1, <3>2 DEF OneChosen
  <2>8. ~Cancel
    BY <1>4 DEF Cancel
  <2>9. CASE \/ \E m \in Nodes : \/ ApproveChecklist(m)
                                 \/ \E next \in Nodes \cup {NoNode} : Accept(m, next)
             \/ \E all \in BOOLEAN : ApproveReceipt(all)
             \/ ApproveWaiver
    BY <2>2, <2>3, <2>4, <2>9, DecisionShape DEF OnlyJudges
  <2> QED
    BY <1>4, <2>5, <2>6, <2>7, <2>8, <2>9, OnlyDecisionsClose, QuietStep
<1> QED
  BY <1>2, <1>3, <1>4

\* Of two ways between which the Director chooses one at least is closed at any
\* time, "pending" until the instance is cancelled and then cancelled for good: no
\* rollback, refused item or second choice has both open
\* (review_task_node_acceptance opens the step of the chosen outcome only).
THEOREM OneWayOnlyHolds ==
  ASSUME CodesFollowFlow, NEW n, NEW a, NEW b, Fork(n, a, b)
  PROVE  Spec => []ForkInv(n, a, b)
<1>1. Init => ForkInv(n, a, b)
  <2>1. {a, b} \subseteq Nodes
    BY GraphAssumption DEF Fork
  <2> QED
    BY <2>1 DEF Init, ForkInv, OneChosen, Fork
<1>2. TypeOK /\ AcceptedIsReviewed /\ Uncancelled /\ ForkInv(n, a, b) /\ [Next]_vars
      => ForkInv(n, a, b)'
  BY ForkStep
<1>3. Spec => [](TypeOK /\ AcceptedIsReviewed /\ Uncancelled)
  BY TypeCorrect, AcceptedIsReviewedHolds, UncancelledHolds, PTL
<1> QED
  BY <1>1, <1>2, <1>3, PTL DEF Spec


\* The instance has not completed and nothing behind both ways is accepted.
Halted(n, a, b) ==
    /\ inst # "completed"
    /\ \A c \in Nodes : {a, b} \subseteq Ancestors[c] => status[c] # "accepted"

\* An instance whose graph has a fork never completes, and no step behind both
\* ways of it is ever accepted: the way not chosen stays unfinished, and
\* unaccepted_predecessors counts it before every step it leads to.
THEOREM ForkNeverCompletes ==
  ASSUME CodesFollowFlow, NEW n, NEW a, NEW b, Fork(n, a, b)
  PROVE  Spec => []Halted(n, a, b)
<1> DEFINE Running == inst # "completed"
<1>1. {a, b} \subseteq Nodes /\ a # SurveyNode /\ b # SurveyNode
  BY GraphAssumption DEF Fork
<1>2. Init => Running
  BY DEF Init
<1>3. Running /\ [CompletesAccepted]_vars /\ ForkInv(n, a, b)' => Running'
  BY <1>1 DEF CompletesAccepted, AllAccepted, ForkInv, Buried, OneChosen, vars
<1>4. ASSUME Running, OrderButSurvey, ForkInv(n, a, b) PROVE Halted(n, a, b)
  <2> SUFFICES ASSUME NEW c \in Nodes, {a, b} \subseteq Ancestors[c], status[c] = "accepted"
               PROVE  FALSE
    BY <1>4 DEF Halted
  <2>1. status[a] = "accepted" /\ status[b] = "accepted"
    BY <1>1, <1>4 DEF OrderButSurvey
  <2> QED
    BY <1>4, <2>1 DEF ForkInv, Buried, OneChosen
<1>5. Spec => [](OrderButSurvey /\ ForkInv(n, a, b))
  BY OrderButSurveyHolds, OneWayOnlyHolds, PTL
<1> QED
  BY <1>2, <1>3, <1>4, <1>5, CompletesAcceptedHolds, PTL DEF Spec

=============================================================================
