------------------------------- MODULE FormTable ------------------------------
(***************************************************************************)
(* The forms and dialogs of the front end, a definition for each, in the   *)
(* terms of FormKinds.                                                     *)
(***************************************************************************)
EXTENDS FormKinds

\* pages/DebtCollection.jsx
RecordPaymentForm == OfRow("free")
WriteOffForm == AskingReason
CarryForwardForm == OfRow("free")

\* components/catalog/CatalogManageModal.jsx
CatalogForm == OfRow("free")

\* components/ChangePasswordModal.jsx
PasswordForm == Form("one", "shut", "free", "dialog", "closes", "stays", "acts")

\* components/finance/modals/CashflowModal.jsx
NewVoucherForm == OfOne("free")

\* components/finance/modals/CashflowDetailModal.jsx
VoucherForm == Form("row", "read", "free", "page", "closes", "stays", "acts")
RejectVoucherForm == AskingReason
VoidVoucherForm == AskingReason

\* components/finance/screens/AdvanceClearScreen.jsx
ClearAdvanceForm ==
    Form("row", "fresh", "free", "page", "empties", "stays", "acts")

\* components/finance/screens/AdvanceRequestScreen.jsx
AdvanceForm == OfOne("free")

\* components/finance/screens/SettingsScreen.jsx
BalancesForm == Form("row", "fresh", "free", "page", "empties", "stays", "acts")
SignersForm == Form("one", "reread", "free", "page", "stays", "stays", "acts")
ThresholdsForm == Form("one", "reread", "free", "page", "stays", "stays", "acts")
PayrollPolicyForm ==
    Form("one", "reread", "free", "page", "stays", "stays", "acts")

\* components/finance/screens/PieceRatePricingScreen.jsx
RateItemForm == OfRow("held")
RateForm == OfRow("held")

\* components/finance/screens/PrintVoucherScreen.jsx
PrintedVoucherForm ==
    Form("row", "read", "free", "page", "closes", "stays", "acts")

\* components/finance/screens/ReceivablesScreen.jsx
RefundForm == AskingReason

\* components/contracts/PriorityBonusModal.jsx
BonusForm == Form("row", "read", "held", "page", "closes", "stays", "acts")

\* features/handover/DebtRequestAction.jsx
DebtRequestForm == Form("row", "kept", "held", "page", "closes", "stays", "acts")

\* features/handover/HandoverPanel.jsx
PanelDebtForm == Form("row", "kept", "free", "page", "closes", "stays", "acts")
PanelApproveForm == AskingReason
PanelRejectForm == AskingReason
PanelPaymentForm == Form("row", "kept", "free", "page", "closes", "stays", "acts")

\* features/handover/DebtReviewCard.jsx
DebtReviewForm == AskingReason

\* features/hr/DepartmentManagement.jsx
DepartmentForm == OfRow("held")

\* components/contracts/NodeChecklistCard.jsx
TypeRejectForm ==
    Form("one", "fresh", "free", "none", "sends", "stays", "dropped")
DocumentRejectForm ==
    Form("one", "fresh", "free", "none", "sends", "stays", "dropped")

\* features/legal-dossier/LegalDossierActions.jsx
DossierStepForm == Form("row", "kept", "free", "page", "closes", "stays", "acts")

\* features/hr/EmployeeHandoverModal.jsx
HandOverForm == Form("row", "fresh", "held", "dialog", "closes", "stays", "acts")

\* features/document-register/StorageLocationsModal.jsx
StoragePlaceForm ==
    Form("row", "fresh", "free", "none", "closes", "closes", "acts")

\* features/document-register/TemplateFormModal.jsx
TemplateForm == OfRow("free")

\* features/document-register/DocumentRegister.jsx
NewSlotForm == Form("one", "kept", "free", "none", "closes", "stays", "acts")
WaiverForm == Form("row", "fresh", "free", "row", "closes", "stays", "acts")

\* features/approvals/ApprovalQueue.jsx
ApprovalForm == OfRow("held")

\* features/approvals/PendingApprovals.jsx
ReceiptReviewForm == OfRow("free")

\* features/hr/EmployeeDirectory.jsx
AccountForm == Form("row", "fresh", "held", "dialog", "closes", "stays", "acts")
EmployeeForm == OfRow("free")

\* features/contracts/ContractTemplateManager.jsx
TemplateFileForm == OfRow("held")

\* features/employee-portal/NodeOutputList.jsx
ChangeReasonForm ==
    Form("row", "fresh", "free", "none", "sends", "stays", "dropped")

\* features/employee-portal/ChecklistDocumentTypePicker.jsx
TypePickerForm ==
    Form("one", "fresh", "free", "dialog", "sends", "stays", "dropped")

\* features/employee-portal/PauseReasonModal.jsx
PauseForm == Form("row", "shut", "free", "page", "hides", "stays", "acts")

\* features/employee-portal/RollbackPickerModal.jsx
RollbackForm == Form("row", "shut", "free", "page", "hides", "stays", "acts")

\* features/employee-portal/SlotRequestModal.jsx
SlotRequestForm ==
    Form("one", "reread", "free", "dialog", "closes", "stays", "acts")

\* pages/CRM.jsx
LeadForm == Form("one", "kept", "free", "none", "closes", "stays", "acts")
ClosingForm == Form("row", "fresh", "free", "none", "closes", "stays", "acts")
CrmSettingsForm == OfOne("free")

\* pages/CustomerLoyaltyModal.jsx
TierForm == OfRow("free")

\* pages/Wiki.jsx
WikiUploadForm == Form("one", "kept", "held", "page", "closes", "stays", "acts")
WikiEditForm == OfRow("held")

\* pages/Tasks.jsx
SurveyForm == Form("row", "read", "held", "page", "closes", "empties", "acts")

\* pages/LegalSubmissions.jsx
SubmissionForm == Form("row", "read", "held", "page", "closes", "empties", "acts")

\* pages/CustomerDirectory.jsx
CustomerForm == Form("row", "read", "free", "page", "closes", "stays", "acts")

\* pages/Contracts.jsx
CancelContractForm == OfRow("held")
DeleteContractForm == OfRow("held")

\* pages/CustomerIntakePage.jsx
IntakeForm == OfOne("free")

\* pages/SetPassword.jsx
FirstPasswordForm ==
    Form("one", "kept", "held", "page", "closes", "stays", "acts")

\* pages/Login.jsx
LoginForm == Form("one", "kept", "held", "page", "closes", "stays", "acts")
ForgotForm == Form("one", "kept", "held", "page", "closes", "stays", "acts")
OtpForm == Form("one", "kept", "held", "page", "closes", "stays", "acts")
NewPasswordForm == Form("one", "kept", "held", "page", "closes", "stays", "acts")

\* features/contracts/ContractComposer.jsx
ContractForm == OfOne("held")
ContractCustomerFields == OfOne("held")
ContractSourceFields == OfOne("held")
ContractAddressFields == OfOne("held")
ContractServiceFields == OfOne("held")
ContractTermFields == OfOne("held")

\* features/employee-portal/EmployeeWorkspaceCalendar.jsx
EvidenceForm ==
    Form("one", "kept", "free", "dialog", "sends", "restores", "dropped")

\* components/contracts/ContractWorkflowDesigner.jsx
ReworkReasonForm == Form("row", "kept", "free", "row", "empties", "stays", "acts")
ReworkReasonInbox ==
    Form("row", "kept", "free", "row", "empties", "stays", "acts")
SaveAsTemplateForm ==
    Form("one", "fresh", "free", "none", "closes", "stays", "acts")
ActivationForm == OfRow("held")
ActivationWarning == OfRow("held")
CancelWorkflowForm ==
    Form("row", "kept", "held", "page", "hides", "stays", "acts")

\* features/workflow-templates/MasterWorkflowStudio.jsx
SaveTemplateForm == Form("one", "kept", "free", "page", "hides", "stays", "acts")
CloneTemplateForm == OfRow("free")

AllForms ==
    {RecordPaymentForm, WriteOffForm, CarryForwardForm, CatalogForm,
     PasswordForm, NewVoucherForm, VoucherForm, RejectVoucherForm,
     VoidVoucherForm, ClearAdvanceForm, AdvanceForm, BalancesForm, SignersForm,
     ThresholdsForm, PayrollPolicyForm, RateItemForm, RateForm,
     PrintedVoucherForm, RefundForm, BonusForm, DebtRequestForm, PanelDebtForm,
     PanelApproveForm, PanelRejectForm, PanelPaymentForm, DebtReviewForm,
     DepartmentForm, TypeRejectForm, DocumentRejectForm, DossierStepForm,
     HandOverForm, StoragePlaceForm, TemplateForm, NewSlotForm, WaiverForm,
     ApprovalForm, ReceiptReviewForm, AccountForm, EmployeeForm,
     TemplateFileForm, ChangeReasonForm, TypePickerForm, PauseForm,
     RollbackForm, SlotRequestForm, LeadForm, ClosingForm, CrmSettingsForm,
     TierForm, WikiUploadForm, WikiEditForm, SurveyForm, SubmissionForm,
     CustomerForm, CancelContractForm, DeleteContractForm, IntakeForm,
     FirstPasswordForm, LoginForm, ForgotForm, OtpForm, NewPasswordForm,
     ContractForm, ContractCustomerFields, ContractSourceFields,
     ContractAddressFields, ContractServiceFields, ContractTermFields,
     EvidenceForm, ReworkReasonForm, ReworkReasonInbox, SaveAsTemplateForm,
     ActivationForm, ActivationWarning, CancelWorkflowForm, SaveTemplateForm,
     CloneTemplateForm}

==============================================================================
