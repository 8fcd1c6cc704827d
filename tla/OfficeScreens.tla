--------------------------- MODULE OfficeScreens ----------------------------
(***************************************************************************)
(* The screens of the office: customers, contracts, registers, catalogues, *)
(* the public forms.                                                       *)
(* Each definition says of one load, or of one write, what ScreenKinds     *)
(* asks; a page joins a load to the writes its buttons send.               *)
(***************************************************************************)
EXTENDS ScreenKinds

-----------------------------------------------------------------------------
\* pages/CRM.jsx
LeadList == Reading({"rest"}, TRUE, TRUE, "any", "keeps", "each")
CrmPolicy == Reading({"rest"}, FALSE, FALSE, "any", "keeps", "none")
IntakePackages == Reading({}, FALSE, FALSE, "any", "keeps", "none")
ClosingOffer == Reading({"rest"}, TRUE, FALSE, "any", "keeps", "none")

\* features/hr/EmployeeDirectory.jsx
EmployeeList == Reading({"rest"}, FALSE, FALSE, "any", "keeps", "each")
Workload == Reading({"rest"}, TRUE, FALSE, "any", "keeps", "each")
DepartmentNames == Reading({"rest"}, FALSE, FALSE, "any", "keeps", "none")

\* features/hr/DepartmentManagement.jsx
DepartmentList == Reading({"rest"}, FALSE, FALSE, "any", "keeps", "each")

\* features/contracts/ContractComposer.jsx
LoyaltyOffer == Reading({"rest"}, TRUE, FALSE, "latest", "empties", "none")
PaperOptions == Reading({"register"}, FALSE, FALSE, "latest", "empties", "none")
ServiceCatalog == Reading({"rest"}, FALSE, FALSE, "latest", "keeps", "none")
WardOptions == Reading({}, TRUE, FALSE, "latest", "keeps", "none")
NameMatches == Reading({"contracts"}, TRUE, FALSE, "latest", "keeps", "none")
TaxMatches == Reading({"contracts"}, TRUE, FALSE, "latest", "keeps", "none")
TaxLookup == Reading({"rest"}, TRUE, FALSE, "any", "keeps", "each")
Provinces == Reading({}, FALSE, FALSE, "latest", "keeps", "none")

\* pages/Contracts.jsx
ContractList == Reading({"contracts"}, TRUE, TRUE, "any", "keeps", "each")
NextCode == Reading({"contracts"}, FALSE, FALSE, "any", "keeps", "none")
ServiceFilter == Reading({"rest"}, FALSE, FALSE, "any", "keeps", "none")
ContractConfig == Reading({"rest"}, FALSE, FALSE, "any", "keeps", "none")

\* features/document-register/DocumentRegister.jsx
Register == Reading({"register"}, TRUE, FALSE, "any", "keeps", "none")
ScanPreview == Reading({}, TRUE, FALSE, "any", "keeps", "none")
SlotSuggestions == Reading({"register"}, FALSE, FALSE, "any", "keeps", "none")

\* features/document-register/DocumentTemplateSettings.jsx
TemplateList == Reading({"register"}, FALSE, FALSE, "any", "keeps", "none")

\* features/contracts/ContractTemplateManager.jsx
ContractTemplates == Reading({}, TRUE, TRUE, "latest", "keeps", "latest")
TemplateFile == Reading({}, TRUE, FALSE, "any", "keeps", "each")
Placeholders == Reading({"contracts"}, FALSE, FALSE, "any", "keeps", "each")

\* pages/Wiki.jsx
WikiList == Reading({"rest"}, TRUE, TRUE, "any", "keeps", "each")
IndexStatus == Reading({"rest"}, TRUE, FALSE, "latest", "keeps", "none")

\* features/approvals/ApprovalQueue.jsx
RollbackRequests == Reading({"contracts"}, FALSE, TRUE, "any", "empties", "each")
ChangeRequests == Reading({"register"}, FALSE, TRUE, "any", "empties", "each")
SlotRequests == Reading({"rest"}, FALSE, TRUE, "any", "empties", "each")

\* pages/CustomerLoyaltyModal.jsx
LoyaltyTiers == Reading({"rest"}, FALSE, FALSE, "any", "keeps", "each")

\* pages/CustomerDirectory.jsx
CustomerList == Reading({"rest"}, TRUE, FALSE, "any", "keeps", "each")
CustomerDetail == Reading({"rest"}, TRUE, FALSE, "any", "keeps", "none")
CustomerTaxLookup == Reading({"rest"}, TRUE, FALSE, "any", "keeps", "each")

\* pages/LegalSubmissions.jsx
SubmissionList == Reading({}, TRUE, TRUE, "any", "keeps", "each")
DossierOfNode == Reading({}, TRUE, FALSE, "any", "empties", "none")
SubmissionDetail == Reading({}, TRUE, FALSE, "any", "keeps", "each")
SubmissionPackages == Reading({}, FALSE, FALSE, "any", "keeps", "none")
SubmissionStats == Reading({}, FALSE, TRUE, "any", "keeps", "each")

\* pages/Tasks.jsx
SurveyList == Reading({}, TRUE, TRUE, "any", "keeps", "each")
SurveyDetail == Reading({}, TRUE, FALSE, "any", "keeps", "each")
SurveyPackages == Reading({}, FALSE, FALSE, "any", "keeps", "none")
SurveyStats == Reading({}, FALSE, TRUE, "any", "keeps", "none")
SurveyWards == Reading({}, FALSE, FALSE, "any", "keeps", "none")

\* pages/KPI.jsx
KpiScores == Reading({"rest"}, TRUE, TRUE, "any", "empties", "each")

\* pages/Dashboard.jsx
DashboardSummary == Reading({"rest"}, FALSE, FALSE, "any", "keeps", "each")

\* pages/ContractTimeline.jsx
Timeline == Reading({"contracts"}, FALSE, TRUE, "any", "keeps", "each")

\* pages/CustomerIntakePage.jsx
IntakeServices == Reading({}, TRUE, FALSE, "any", "keeps", "none")

\* pages/Settings.jsx
SystemSettings == Reading({}, FALSE, FALSE, "any", "keeps", "none")

\* components/location/LocationPicker.jsx
WardsOfProvince == Reading({}, TRUE, TRUE, "any", "keeps", "each")

\* features/contracts/DocumentCabinet.jsx
CabinetFile == Reading({}, TRUE, FALSE, "any", "keeps", "none")

\* components/ui/FilePreviewModal.jsx
WordPreview == Reading({}, TRUE, FALSE, "latest", "empties", "latest")

\* pages/SetPassword.jsx
Invite == Reading({}, FALSE, FALSE, "any", "keeps", "each")

\* components/contracts/ContractWorkspace.jsx
WorkspaceTurn == Reading({"contracts"}, TRUE, FALSE, "latest", "keeps", "latest")
WorkspaceReload == Reading({"contracts"}, FALSE, TRUE, "any", "keeps", "latest")

\* components/contracts/ContractWorkflowDesigner.jsx
PlannedDocuments == Reading({"register"}, FALSE, FALSE, "any", "empties", "none")
DocumentTemplates == Reading({"register"}, FALSE, TRUE, "any", "empties", "each")
RegisterOfLine == Reading({"register"}, TRUE, TRUE, "any", "keeps", "none")
ChecklistFile == Reading({}, TRUE, FALSE, "any", "keeps", "none")
-----------------------------------------------------------------------------
\* pages/CRM.jsx
SaveCrmSettings == Writing("rest", TRUE, "no", "none")
ClaimLead == Writing("rest", FALSE, "no", "reload")
MoveLead == Writing("rest", FALSE, "undone", "reload")
CreateLead == Writing("fetch", FALSE, "no", "reload")
AutoClaim == Writing("rest", FALSE, "no", "patch")

\* features/hr/EmployeeDirectory.jsx
CreateAccount == Writing("rest", TRUE, "no", "reload")
SaveEmployee == Writing("rest", TRUE, "no", "reload")
DeleteEmployee == Writing("rest", TRUE, "no", "reload")
ToggleAccount == Writing("rest", TRUE, "no", "reload")
ResendInvite == Writing("rest", TRUE, "no", "reload")
UploadAvatar == Writing("rest", TRUE, "no", "reload")

\* features/hr/EmployeeHandoverModal.jsx
HandOverWork == Writing("rest", TRUE, "no", "reload")

\* features/hr/DepartmentManagement.jsx
SaveDepartment == Writing("rest", TRUE, "no", "patch")
ToggleDepartment == Writing("rest", TRUE, "no", "patch")

\* pages/Contracts.jsx
CancelContract == Writing("contracts", TRUE, "no", "reload")
DeleteContract == Writing("contracts", TRUE, "no", "reload")
GenerateContract == Writing("contracts", TRUE, "no", "reload")

\* features/contracts/ContractFileActions.jsx
UploadContractFile == Writing("fetch", TRUE, "no", "patch")

\* features/document-register/DocumentRegister.jsx
WaiveSlot == Writing("register", TRUE, "no", "reload")
PatchSlot == Writing("register", TRUE, "no", "reload")
AttachScan == Writing("fetch", TRUE, "no", "reload")
NewSlot == Writing("register", FALSE, "no", "reload")
RemoveSlot == Writing("register", FALSE, "no", "reload")
LinkSource == Writing("register", FALSE, "no", "reload")
UnlinkSource == Writing("register", FALSE, "no", "reload")
PromoteSlot == Writing("register", FALSE, "no", "reload")
AskForChange == Writing("register", FALSE, "no", "none")

\* features/document-register/DocumentTemplateSettings.jsx
SaveTemplate == Writing("register", TRUE, "no", "always")
DeactivateTemplate == Writing("register", FALSE, "no", "reload")
SavePlace == Writing("register", FALSE, "no", "reload")
DeactivatePlace == Writing("register", FALSE, "no", "reload")

\* components/catalog/CatalogManageModal.jsx
SaveCatalog == Writing("rest", TRUE, "no", "reload")
HideCatalog == Writing("rest", TRUE, "no", "reload")

\* features/contracts/ContractTemplateManager.jsx
UploadTemplate == Writing("contracts", TRUE, "no", "always")
SetTemplateStatus == Writing("contracts", TRUE, "no", "reload")

\* pages/Wiki.jsx
ReindexDocument == Writing("rest", TRUE, "no", "patch")
UploadWiki == Writing("rest", TRUE, "no", "reload")
UpdateWiki == Writing("rest", TRUE, "no", "reload")
DeleteWiki == Writing("rest", TRUE, "no", "reload")

\* features/approvals/ApprovalQueue.jsx
ReviewRollback == Writing("contracts", TRUE, "no", "reload")
ReviewChange == Writing("register", TRUE, "no", "reload")
ReviewSlot == Writing("rest", TRUE, "no", "reload")

\* pages/CustomerLoyaltyModal.jsx
SaveTier == Writing("rest", TRUE, "no", "reload")
ToggleTier == Writing("rest", FALSE, "undone", "none")
DeleteTier == Writing("rest", FALSE, "undone", "none")

\* pages/CustomerDirectory.jsx
SaveCustomer == Writing("rest", TRUE, "no", "reload")

\* pages/LegalSubmissions.jsx
SaveSubmission == Writing("fetch", TRUE, "no", "reload")

\* pages/Tasks.jsx
SaveSurvey == Writing("fetch", TRUE, "no", "reload")

\* pages/CustomerIntakePage.jsx
SubmitIntake == Writing("fetch", TRUE, "no", "none")

\* pages/Settings.jsx
SaveSettings == Writing("fetch", TRUE, "no", "none")
TestSettings == Writing("fetch", TRUE, "no", "none")
LoadModels == Writing("fetch", TRUE, "no", "none")

\* pages/SetPassword.jsx
CompleteInvite == Writing("fetch", TRUE, "no", "none")

\* components/contracts/ContractWorkspace.jsx
ReviewOneDocument == Writing("contracts", FALSE, "no", "reload")
FlushReviewBatch == Writing("contracts", FALSE, "no", "reload")

\* components/contracts/ContractWorkflowDesigner.jsx
ReviewAcceptance == Writing("contracts", TRUE, "no", "reload")
ReviewChecklist == Writing("contracts", TRUE, "no", "reload")
ReviewDocumentType == Writing("contracts", TRUE, "kept", "reload")
SaveAsTemplate == Writing("contracts", FALSE, "no", "reload")
SaveActiveLayout == Writing("contracts", TRUE, "no", "reload")
-----------------------------------------------------------------------------
\* pages/CRM.jsx
CrmBoard == Uses(LeadList, {SaveCrmSettings, ClaimLead, MoveLead, CreateLead})
CrmColumns ==
    Uses(LeadList, {ClaimLead, MoveLead, AutoClaim})
        \cup Uses(ClosingOffer, {Silent})

\* features/hr/EmployeeDirectory.jsx
EmployeeDirectory ==
    Uses(EmployeeList,
             {CreateAccount, SaveEmployee, DeleteEmployee, ToggleAccount,
              ResendInvite, UploadAvatar, HandOverWork})
EmployeeCard == Uses(EmployeeList, {SaveEmployee}) \cup Uses(Workload, {Silent})

\* features/hr/DepartmentManagement.jsx
Departments == Uses(DepartmentList, {SaveDepartment, ToggleDepartment})

\* features/contracts/ContractComposer.jsx
ContractComposer ==
    Uses(LoyaltyOffer, {Silent})
        \cup Uses(PaperOptions, {Silent})
        \cup Uses(ServiceCatalog, {Silent})
        \cup Uses(WardOptions, {Silent})
        \cup Uses(NameMatches, {Silent})
        \cup Uses(TaxMatches, {Silent})
        \cup Uses(TaxLookup, {Silent})

\* pages/Contracts.jsx
Contracts ==
    Uses(ContractList, {CancelContract, DeleteContract, GenerateContract})
        \cup Uses(NextCode, {Silent})

\* features/contracts/ContractFileActions.jsx
ContractFiles == Uses(ContractList, {UploadContractFile})

\* features/document-register/DocumentRegister.jsx
DocumentRegister ==
    Uses(Register,
             {WaiveSlot, PatchSlot, AttachScan, NewSlot, RemoveSlot,
              LinkSource, UnlinkSource, PromoteSlot})
SourceRepository ==
    Uses(Register, {LinkSource, UnlinkSource})
        \cup Uses(ScanPreview, {Silent})

\* features/document-register/DocumentTemplateSettings.jsx
TemplateSettings ==
    Uses(TemplateList,
             {SaveTemplate, DeactivateTemplate, SavePlace,
              DeactivatePlace, SaveCatalog, HideCatalog})

\* features/contracts/ContractTemplateManager.jsx
ContractTemplateManager ==
    Uses(ContractTemplates, {UploadTemplate, SetTemplateStatus})

\* pages/Wiki.jsx
Wiki ==
    Uses(WikiList, {UploadWiki, UpdateWiki, DeleteWiki})
        \cup Uses(IndexStatus, {ReindexDocument})

\* features/approvals/ApprovalQueue.jsx
ApprovalQueue ==
    Uses(RollbackRequests, {ReviewRollback})
        \cup Uses(ChangeRequests, {ReviewChange})
        \cup Uses(SlotRequests, {ReviewSlot})

\* pages/CustomerLoyaltyModal.jsx
CustomerLoyalty == Uses(LoyaltyTiers, {SaveTier, ToggleTier, DeleteTier})

\* pages/CustomerDirectory.jsx
CustomerDirectory ==
    Uses(CustomerList, {SaveCustomer})
        \cup Uses(CustomerDetail, {SaveCustomer})

\* pages/LegalSubmissions.jsx
LegalSubmissions ==
    Uses(SubmissionList, {SaveSubmission})
        \cup Uses(SubmissionDetail, {Silent})
        \cup Uses(DossierOfNode, {Silent})

\* pages/Tasks.jsx
SurveyTasks == Uses(SurveyList, {SaveSurvey}) \cup Uses(SurveyDetail, {Silent})

\* pages/CustomerIntakePage.jsx
CustomerIntake == Uses(IntakeServices, {SubmitIntake})

\* pages/Settings.jsx
SystemSettingsPage == Uses(SystemSettings, {SaveSettings})
SettingsButtons == Uses(SystemSettings, {TestSettings, LoadModels})

\* components/location/LocationPicker.jsx
LocationPicker == Uses(WardsOfProvince, {Silent})

\* pages/SetPassword.jsx
SetPassword == Uses(Invite, {CompleteInvite})

\* components/contracts/ContractWorkflowDesigner.jsx
ReviewInbox ==
    Uses(WorkspaceReload,
             {ReviewChecklist, ReviewDocumentType, ReviewOneDocument,
              FlushReviewBatch})
        \cup Uses(ChecklistFile, {Silent})
StepReview == Uses(WorkspaceReload, {ReviewAcceptance})
NodeReview == Uses(WorkspaceReload, {ReviewAcceptance})
DesignerToolbar == Uses(WorkspaceReload, {SaveAsTemplate, SaveActiveLayout})
NodeInspector ==
    Uses(WorkspaceReload, {ReviewChecklist})
        \cup Uses(RegisterOfLine, {Silent})
        \cup Uses(PlannedDocuments, {Silent})
        \cup Uses(DocumentTemplates, {Silent})

OfficePages ==
    CrmBoard \cup CrmColumns \cup EmployeeDirectory \cup EmployeeCard
        \cup Departments \cup ContractComposer \cup Contracts \cup
        ContractFiles \cup DocumentRegister \cup SourceRepository \cup
        TemplateSettings \cup ContractTemplateManager \cup Wiki \cup
        ApprovalQueue \cup CustomerLoyalty \cup CustomerDirectory \cup
        LegalSubmissions \cup SurveyTasks \cup CustomerIntake \cup
        SystemSettingsPage \cup SettingsButtons \cup LocationPicker \cup
        SetPassword \cup ReviewInbox \cup StepReview \cup NodeReview \cup
        DesignerToolbar \cup NodeInspector
        \cup {<<l, Silent>> : l \in {CrmPolicy, IntakePackages, DepartmentNames,
                               Provinces, ServiceFilter, ContractConfig,
                               SlotSuggestions, TemplateFile, Placeholders,
                               CustomerTaxLookup, SubmissionPackages,
                               SubmissionStats, SurveyPackages, SurveyStats,
                               SurveyWards, KpiScores, DashboardSummary,
                               Timeline, CabinetFile, WordPreview,
                               WorkspaceTurn}}

=============================================================================
