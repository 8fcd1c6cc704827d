--------------------------- MODULE PortalScreens ----------------------------
(***************************************************************************)
(* The screens of an employee at work: the pool, a step, its documents, the *)
(* hand-over, the dossiers.                                                *)
(* Each definition says of one load, or of one write, what ScreenKinds     *)
(* asks; a page joins a load to the writes its buttons send.               *)
(***************************************************************************)
EXTENDS ScreenKinds

-----------------------------------------------------------------------------
\* features/employee-portal/EmployeePortalDashboard.jsx
PortalHome == Reading({"mine", "portal"}, FALSE, TRUE, "any", "keeps", "none")

\* features/employee-portal/EmployeeItemWorkspace.jsx
SubmitGate == Reading({"mine"}, TRUE, TRUE, "latest", "empties", "none")
OpenedDocument == Reading({}, TRUE, FALSE, "any", "keeps", "none")

\* features/employee-portal/EmployeeWorkspaceCalendar.jsx
HandoverState == Reading({"rest"}, TRUE, FALSE, "latest", "empties", "none")

\* features/employee-portal/NodeOutputList.jsx
DocumentTypes == Reading({"mine"}, TRUE, TRUE, "any", "keeps", "none")

\* features/employee-portal/ChecklistDocumentTypePicker.jsx
TypeSuggestions == Reading({"portal"}, TRUE, FALSE, "latest", "keeps", "latest")

\* features/employee-portal/ChecklistOutputDocuments.jsx
OutputStatus == Reading({"portal"}, TRUE, TRUE, "any", "empties", "none")
ReusableDocuments == Reading({"register"}, FALSE, FALSE, "any", "empties", "none")

\* features/employee-portal/SlotRequestModal.jsx
SlotRequestState == Reading({"rest"}, FALSE, FALSE, "any", "keeps", "none")
SlotRequestLatest == Reading({"rest"}, TRUE, FALSE, "latest", "keeps", "none")

\* features/employee-portal/CustomerSourceDocuments.jsx
SourceDocuments == Reading({"register"}, TRUE, FALSE, "latest", "keeps", "none")

\* features/employee-portal/PoolItemDetailModal.jsx
PoolItemDetail == Reading({"portal"}, TRUE, FALSE, "latest", "keeps", "none")

\* features/employee-portal/PriorDocumentsDrawer.jsx
PriorDocument == Reading({}, TRUE, FALSE, "any", "keeps", "none")

\* features/employee-portal/RollbackPickerModal.jsx
RollbackPreview ==
    Reading({"contracts"}, TRUE, FALSE, "latest", "empties", "none")

\* features/employee-portal/MyPayroll.jsx
PayrollProfile == Reading({"mine"}, TRUE, FALSE, "any", "keeps", "each")

\* features/handover/HandoverPanel.jsx
HandoverCase == Reading({"rest"}, TRUE, TRUE, "any", "empties", "each")
Deliverables == Reading({"rest"}, TRUE, FALSE, "latest", "keeps", "none")
DeliverablesZip == Reading({}, TRUE, FALSE, "any", "keeps", "each")

\* features/handover/DebtRequestAction.jsx
DebtRequestState == Reading({"rest"}, TRUE, FALSE, "any", "keeps", "none")

\* features/handover/DebtReviewCard.jsx
DebtReviewState == Reading({"rest"}, TRUE, FALSE, "any", "keeps", "none")

\* features/legal-dossier/LegalDossierNodePanel.jsx
DossierPanel == Reading({"rest"}, TRUE, TRUE, "any", "empties", "each")

\* features/legal-dossier/LegalDossierActions.jsx
DossierMeta == Reading({"rest"}, FALSE, FALSE, "latest", "keeps", "none")

\* features/legal-dossier/DossierDocuments.jsx
DossierFiles == Reading({"rest"}, TRUE, FALSE, "any", "keeps", "none")
StageFile == Reading({}, TRUE, FALSE, "any", "keeps", "none")

\* features/legal-dossier/SubmissionReceiptPanel.jsx
ReceiptForm == Reading({"rest"}, TRUE, FALSE, "any", "empties", "each")

\* components/contracts/NodeAgencyPanel.jsx
AgencyPanel == Reading({"rest"}, TRUE, FALSE, "any", "empties", "each")

\* features/document-cabinet/useChecklistCabinet.js
CabinetGroups == Reading({"register"}, TRUE, FALSE, "any", "empties", "none")

\* features/document-register/WaivedDocuments.jsx
WaivedStatus == Reading({"register"}, TRUE, FALSE, "any", "keeps", "none")

\* components/NotificationBell.jsx
Notifications == Reading({"rest"}, FALSE, TRUE, "any", "keeps", "none")

\* features/employee-portal/DocumentPreviewModal.jsx
PortalWordPreview == Reading({}, TRUE, FALSE, "latest", "empties", "latest")
-----------------------------------------------------------------------------
\* features/employee-portal/EmployeePortalDashboard.jsx
ClaimTask == Writing("portal", FALSE, "no", "always")
ClaimCluster == Writing("portal", FALSE, "no", "always")
ClaimHelp == Writing("portal", FALSE, "no", "always")
YieldTask == Writing("portal", FALSE, "no", "always")
CancelYield == Writing("portal", FALSE, "no", "always")

\* features/employee-portal/EmployeeItemWorkspace.jsx
PauseStep == Writing("portal", TRUE, "no", "reload")
ResumeStep == Writing("portal", TRUE, "no", "reload")
AskRollback == Writing("contracts", TRUE, "no", "reload")
UploadDocument == Writing("file", FALSE, "no", "reload")
DeleteDocument == Writing("file", FALSE, "no", "reload")

\* features/employee-portal/EmployeeWorkspaceCalendar.jsx
SubmitEvidence == Writing("portal", TRUE, "undone", "reload")
StartStep == Writing("portal", TRUE, "no", "reload")
StartFieldWork == Writing("portal", TRUE, "no", "reload")
SubmitAcceptance == Writing("portal", TRUE, "undone", "reload")
PauseNode == Writing("portal", TRUE, "no", "reload")
ResumeNode == Writing("portal", TRUE, "no", "reload")
RollbackNode == Writing("contracts", TRUE, "no", "reload")

\* features/employee-portal/NodeOutputList.jsx
UploadFiles == Writing("file", TRUE, "no", "patch")
DeleteFile == Writing("file", TRUE, "kept", "none")

\* features/employee-portal/ChecklistDocumentTypePicker.jsx
AddType == Writing("file", FALSE, "undone", "patch")

\* features/employee-portal/ChecklistOutputDocuments.jsx
UploadOutput == Writing("file", TRUE, "no", "reload")
ReuseOutput == Writing("file", TRUE, "no", "reload")

\* features/employee-portal/SlotRequestModal.jsx
ProposeSlot == Writing("rest", TRUE, "no", "patch")
AddSlotFile == Writing("rest", TRUE, "no", "reload")
DropSlotFile == Writing("rest", TRUE, "no", "reload")
SendSlotRequest == Writing("rest", TRUE, "no", "none")

\* features/employee-portal/CustomerSourceDocuments.jsx
AssignDocument == Writing("portal", TRUE, "no", "patch")

\* features/handover/HandoverPanel.jsx
SubmitChecklistEvidence == Writing("portal", TRUE, "no", "reload")
SendDebtRequest == Writing("rest", TRUE, "no", "reload")
ReviewDebtRequest == Writing("rest", TRUE, "no", "reload")
ApproveInstallment == Writing("rest", TRUE, "no", "reload")
SubmitPayment == Writing("rest", TRUE, "no", "reload")

\* features/handover/DebtRequestAction.jsx
AskForDebt == Writing("rest", TRUE, "no", "reload")

\* features/handover/DebtReviewCard.jsx
ReviewDebt == Writing("rest", TRUE, "no", "reload")

\* features/legal-dossier/LegalDossierActions.jsx
MoveDossier == Writing("rest", TRUE, "no", "reload")

\* features/legal-dossier/DossierDocuments.jsx
UploadStageFile == Writing("fetch", TRUE, "no", "reload")
RemoveStageFile == Writing("rest", FALSE, "no", "reload")

\* features/legal-dossier/SubmissionReceiptPanel.jsx
SaveReceipt == Writing("rest", TRUE, "no", "reload")
-----------------------------------------------------------------------------
\* features/employee-portal/EmployeeWorkspace.jsx
EmployeeWorkspace ==
    Uses(PortalHome,
             {ClaimTask, ClaimCluster, ClaimHelp, YieldTask, CancelYield})

\* features/employee-portal/EmployeeItemWorkspace.jsx
EmployeeItem ==
    Uses(SubmitGate, {UploadDocument, DeleteDocument})
        \cup Uses(OpenedDocument, {Silent})
        \cup Uses(PortalHome, {PauseStep, ResumeStep, AskRollback})
EmployeeStep ==
    Uses(PortalHome, {PauseStep, ResumeStep})
        \cup Uses(SubmitGate, {UploadDocument})

\* features/employee-portal/EmployeeWorkspaceCalendar.jsx
EmployeeNode ==
    Uses(HandoverState, {Silent})
        \cup Uses(PortalHome,
             {SubmitEvidence, StartStep, StartFieldWork, SubmitAcceptance,
              PauseNode, ResumeNode, RollbackNode})
TaskPoolPanel == Uses(PortalHome, {ClaimTask})

\* features/employee-portal/NodeOutputList.jsx
NodeOutputs == Uses(DocumentTypes, {UploadFiles, DeleteFile, AddType})
OutputRow == Uses(DocumentTypes, {UploadFiles})

\* features/employee-portal/ChecklistDocumentTypePicker.jsx
TypePicker == Uses(TypeSuggestions, {Silent})

\* features/employee-portal/ChecklistOutputDocuments.jsx
ChecklistOutputs ==
    Uses(OutputStatus, {UploadOutput, ReuseOutput})
        \cup Uses(ReusableDocuments, {Silent})

\* features/employee-portal/SlotRequestModal.jsx
SlotRequest ==
    Uses(SlotRequestState, {AddSlotFile, DropSlotFile, SendSlotRequest})
        \cup Uses(SlotRequestLatest, {ProposeSlot})

\* features/employee-portal/CustomerSourceDocuments.jsx
CustomerSources == Uses(SourceDocuments, {AssignDocument})

\* features/employee-portal/RollbackPickerModal.jsx
RollbackPicker == Uses(RollbackPreview, {Silent})

\* features/handover/HandoverPanel.jsx
HandoverPanel ==
    Uses(HandoverCase,
             {SubmitChecklistEvidence, SendDebtRequest, ReviewDebtRequest,
              ApproveInstallment, SubmitPayment})
        \cup Uses(Deliverables, {Silent})

\* features/handover/DebtRequestAction.jsx
DebtRequest == Uses(DebtRequestState, {AskForDebt})

\* features/handover/DebtReviewCard.jsx
DebtReview == Uses(DebtReviewState, {ReviewDebt})

\* features/legal-dossier/LegalDossierActions.jsx
DossierActions == Uses(DossierPanel, {MoveDossier})

\* features/legal-dossier/DossierDocuments.jsx
DossierDocuments == Uses(DossierFiles, {UploadStageFile, RemoveStageFile})

\* features/legal-dossier/SubmissionReceiptPanel.jsx
SubmissionReceipt == Uses(ReceiptForm, {SaveReceipt})

PortalPages ==
    EmployeeWorkspace \cup EmployeeItem \cup EmployeeStep \cup
        EmployeeNode \cup TaskPoolPanel \cup NodeOutputs \cup OutputRow \cup
        TypePicker \cup ChecklistOutputs \cup SlotRequest \cup
        CustomerSources \cup RollbackPicker \cup HandoverPanel \cup
        DebtRequest \cup DebtReview \cup DossierActions \cup
        DossierDocuments \cup SubmissionReceipt
        \cup {<<l, Silent>> : l \in {PoolItemDetail, PriorDocument,
                               PayrollProfile, DeliverablesZip, DossierMeta,
                               StageFile, AgencyPanel, CabinetGroups,
                               WaivedStatus, Notifications,
                               PortalWordPreview}}

=============================================================================
