--------------------------- MODULE FinanceScreens ---------------------------
(***************************************************************************)
(* The screens of the accountants and of the director: vouchers, debts,    *)
(* payroll, advances.                                                      *)
(* Each definition says of one load, or of one write, what ScreenKinds     *)
(* asks; a page joins a load to the writes its buttons send.               *)
(***************************************************************************)
EXTENDS ScreenKinds

-----------------------------------------------------------------------------
\* pages/DebtCollection.jsx
DebtList == Reading({"rest"}, FALSE, TRUE, "any", "keeps", "each")
TransferTargets == Reading({"contracts"}, TRUE, FALSE, "any", "empties", "each")

\* components/finance/screens/PrintVoucherScreen.jsx
VoucherBook == Reading({"rest"}, FALSE, TRUE, "any", "empties", "each")
NextVoucherId == Reading({"rest"}, TRUE, FALSE, "any", "keeps", "none")

\* components/finance/screens/SettingsScreen.jsx
FundBalances == Reading({"rest"}, TRUE, TRUE, "any", "keeps", "each")

\* components/finance/screens/CashflowScreen.jsx
CashBook == Reading({"rest"}, TRUE, TRUE, "any", "empties", "each")

\* components/finance/modals/CashflowModal.jsx
VoucherOptions == Reading({"rest"}, FALSE, FALSE, "any", "keeps", "none")

\* components/finance/modals/CashflowDetailModal.jsx
VoucherDetail == Reading({"rest"}, TRUE, FALSE, "any", "keeps", "each")

\* components/finance/screens/ReceivablesScreen.jsx
ReceivableList == Reading({"rest"}, FALSE, TRUE, "any", "keeps", "each")

\* components/finance/screens/AdvanceRequestScreen.jsx
AdvanceList == Reading({"rest"}, FALSE, FALSE, "any", "keeps", "each")
AdvanceDesk == Reading({"rest"}, FALSE, FALSE, "any", "empties", "each")

\* components/finance/screens/AdvanceClearScreen.jsx
AdvanceClearList == Reading({"rest"}, FALSE, FALSE, "any", "keeps", "each")

\* components/finance/screens/MonthlyDashboardScreen.jsx
MonthlyReport == Reading({"rest"}, TRUE, FALSE, "any", "keeps", "each")

\* components/finance/screens/PayrollOfficeScreen.jsx
PayrollSheet == Reading({"rest"}, TRUE, FALSE, "any", "empties", "each")

\* components/finance/screens/PieceRatePayrollScreen.jsx
PayrollOptions == Reading({"rest"}, FALSE, FALSE, "any", "keeps", "each")
PayrollLedger == Reading({"rest"}, TRUE, FALSE, "any", "empties", "each")

\* components/finance/screens/PieceRatePricingScreen.jsx
RateTable == Reading({"rest"}, TRUE, FALSE, "any", "keeps", "each")
RateHistory == Reading({"rest"}, TRUE, FALSE, "any", "keeps", "none")

\* features/approvals/PendingApprovals.jsx
PendingReceipts == Reading({"rest"}, FALSE, TRUE, "any", "empties", "each")

\* components/contracts/PriorityBonusModal.jsx
BonusPreview == Reading({"contracts"}, TRUE, FALSE, "any", "keeps", "each")

\* components/finance/ReceiptLinks.jsx
ReceiptPreview == Reading({}, TRUE, FALSE, "any", "keeps", "each")

\* components/finance/print/documentSigners.js
DocumentSigners == Reading({"rest"}, FALSE, FALSE, "latest", "keeps", "none")
-----------------------------------------------------------------------------
\* pages/DebtCollection.jsx
RecordPayment == Writing("rest", TRUE, "no", "reload")
WriteOffDebt == Writing("contracts", TRUE, "no", "reload")
CarryForwardDebt == Writing("contracts", TRUE, "no", "reload")

\* components/finance/screens/PrintVoucherScreen.jsx
SaveVoucher == Writing("rest", TRUE, "no", "reload")

\* components/finance/screens/SettingsScreen.jsx
SaveThresholds == Writing("rest", TRUE, "no", "none")
SavePayrollPolicy == Writing("rest", TRUE, "no", "none")
SaveSigners == Writing("rest", TRUE, "no", "patch")
CloseBalances == Writing("rest", TRUE, "no", "reload")

\* components/finance/modals/CashflowModal.jsx
CreateVoucher == Writing("rest", TRUE, "no", "reload")

\* components/finance/modals/CashflowDetailModal.jsx
EditVoucher == Writing("rest", TRUE, "no", "reload")
ApproveVoucher == Writing("rest", TRUE, "no", "reload")
RejectVoucher == Writing("rest", TRUE, "no", "reload")
VoidVoucher == Writing("rest", TRUE, "no", "reload")

\* components/finance/screens/ReceivablesScreen.jsx
RefundExcess == Writing("rest", TRUE, "no", "reload")

\* components/finance/screens/AdvanceRequestScreen.jsx
RequestAdvance == Writing("portal", TRUE, "no", "reload")

\* components/finance/screens/AdvanceClearScreen.jsx
SettleAdvance == Writing("rest", TRUE, "no", "reload")

\* components/finance/screens/PayrollOfficeScreen.jsx
LockPayroll == Writing("rest", TRUE, "no", "reload")
PayPayroll == Writing("rest", TRUE, "no", "reload")

\* components/finance/screens/PieceRatePayrollScreen.jsx
ClosePayroll == Writing("rest", TRUE, "no", "reload")

\* components/finance/screens/PieceRatePricingScreen.jsx
SubmitItem == Writing("rest", TRUE, "no", "reload")
DeactivateItem == Writing("rest", TRUE, "no", "reload")
RestoreItem == Writing("rest", TRUE, "no", "reload")
SubmitRate == Writing("rest", TRUE, "no", "reload")
PublishRates == Writing("rest", TRUE, "no", "reload")

\* features/approvals/PendingApprovals.jsx
DecideReceipt == Writing("rest", TRUE, "no", "reload")

\* components/contracts/PriorityBonusModal.jsx
GrantBonus == Writing("contracts", TRUE, "no", "none")
-----------------------------------------------------------------------------
\* pages/DebtCollection.jsx
DebtCollection ==
    Uses(DebtList, {RecordPayment, WriteOffDebt, CarryForwardDebt})
        \cup Uses(TransferTargets, {Silent})

\* components/finance/screens/PrintVoucherScreen.jsx
PrintVoucher ==
    Uses(VoucherBook, {SaveVoucher})
        \cup Uses(NextVoucherId, {Silent})

\* components/finance/screens/SettingsScreen.jsx
FundSettings ==
    Uses(FundBalances,
             {SaveThresholds, SavePayrollPolicy, SaveSigners,
              CloseBalances})

\* components/finance/screens/CashflowScreen.jsx
CashflowScreen ==
    Uses(CashBook,
             {CreateVoucher, EditVoucher, ApproveVoucher, RejectVoucher,
              VoidVoucher})

\* components/finance/modals/CashflowDetailModal.jsx
VoucherModal == Uses(VoucherDetail, {Silent})

\* components/finance/screens/ReceivablesScreen.jsx
Receivables == Uses(ReceivableList, {RefundExcess})

\* components/finance/screens/AdvanceRequestScreen.jsx
AdvanceRequests ==
    Uses(AdvanceList, {RequestAdvance})
        \cup Uses(AdvanceDesk, {Silent})

\* components/finance/screens/AdvanceClearScreen.jsx
AdvanceClearing == Uses(AdvanceClearList, {SettleAdvance})

\* components/finance/screens/PayrollOfficeScreen.jsx
PayrollOffice == Uses(PayrollSheet, {LockPayroll, PayPayroll})

\* components/finance/screens/PieceRatePayrollScreen.jsx
PieceRatePayroll ==
    Uses(PayrollLedger, {ClosePayroll})
        \cup Uses(PayrollOptions, {Silent})

\* components/finance/screens/PieceRatePricingScreen.jsx
PieceRatePricing ==
    Uses(RateTable,
             {SubmitItem, DeactivateItem, RestoreItem, SubmitRate,
              PublishRates})
        \cup Uses(RateHistory, {Silent})

\* features/approvals/PendingApprovals.jsx
PendingApprovals == Uses(PendingReceipts, {DecideReceipt})

\* components/contracts/PriorityBonusModal.jsx
PriorityBonus == Uses(BonusPreview, {GrantBonus})

\* components/finance/ReceiptLinks.jsx
ReceiptLinks == Uses(ReceiptPreview, {Silent})

FinancePages ==
    DebtCollection \cup PrintVoucher \cup FundSettings \cup
        CashflowScreen \cup VoucherModal \cup Receivables \cup
        AdvanceRequests \cup AdvanceClearing \cup PayrollOffice \cup
        PieceRatePayroll \cup PieceRatePricing \cup PendingApprovals \cup
        PriorityBonus \cup ReceiptLinks
        \cup {<<l, Silent>> : l \in {VoucherOptions, MonthlyReport,
                               DocumentSigners}}

=============================================================================
