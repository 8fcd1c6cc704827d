# Bách Khoa ERP: a formal model of its workflow engine, payments and front end

The repository is the ERP of a surveying company: a FastAPI and SQLAlchemy
backend on PostgreSQL (`dev/backend/src`), a React front end (`dev/frontend`),
SQL migrations (`supabase/migrations`), Redis for locks and caches and MinIO for
files. Its core is the engine that carries a contract's work items
(`workflow_instances`, "Hạng mục") through their steps (`task_nodes`): who may
take a step, what must be handed in, who accepts it, what opens next, how one
goes back, and how the money of the contract gates the end. That engine is
modelled first, and then the requests that move the money: reporting a payment
under the Redis lock, and the Director's decisions on receipts; and then the
front end, where most of the code is and where the state of the server meets
tabs, caches, late answers and unsaved work. Paths below are relative to `src/`;
`W` stands for `dev/backend/src/contracts/workflow_runtime.py`.

## 1. Inventory

| Component | State it keeps | Operations | What makes it correct |
|---|---|---|---|
| Workflow runtime (`W`) | instance and step status, assignments, attempts, rollback requests, pay entitlements, help requests | activate, claim, assign, start, field work, pause, resume, submit, review, finalize, rollback, cancel, amend, help | steps in the order of the graph; one open attempt; append-only history; nobody undoes an acceptance but a rollback; work is in somebody's hands; a running instance can always go on |
| Evidence (`employee_portal/service.py`, `routes/routes_contracts.py`, `dossiers/documents.py`) | checklist results, document links with verdicts | submit, upload, approve, fail, review | what is accepted was judged; a refused document can be replaced |
| Handover and debt gate (`dossiers/handover.py`, `routes/routes_handover.py`) | waivers, receipts seen through `debt_summary` | request and review a waiver, submit the handover, report payments | the gate stands in every way of closing |
| Finance (`finance/services.py`, `finance/repository.py`) | vouchers, receivables, payroll periods | create, approve, void, lock a month | receivable equals value minus approved receipts; no double posting |
| Legal dossiers (`dossiers/legal_lifecycle.py`) | status of the file at the agency | transitions; one of them reopens the survey step | the workflow is not broken by the reopening |
| Employee hand-over (`services/employee_handover_service.py`) | assignments of a leaving employee | reassign, pool | no step is left with nobody |
| Task pool | claims over several instances | claim, claim a cluster, limits | limits hold; no two claims deadlock |
| Payment lock (`core/redis_utils.py`) | a Redis key with a lease, a local fallback | acquire, release | one payment at a time; a refused request did nothing |
| Document templates (`contracts/template_service.py`) | versions, reservations, stored files | reserve, upload, finalize | published means stored |
| Sign-in (`core/refresh_sessions.py`, `routes_auth.py`; `frontend/src/lib/api.js`, `App.jsx`, `Login.jsx`) | token families; the cookie and the hint the tabs share; each tab's token, profile and calls | log in, rotate, repeat after a 401, validate at start, log out, reset a password | one live token per family; a family signed out stays out; the cookie works; the profile is the token's user; the start-up ends |
| Read cache (`frontend/src/lib/api.js`) | bodies in memory and in localStorage, requests to join | read, refresh behind, make void after a write, clear | nothing older than it may be; what this tab wrote is seen; nobody reads another account's rows |
| Template studio (`MasterWorkflowStudio.jsx`, `contracts/workflow_master.py`, the template routes) | canvas, selected combo, list and its cached copies; template rows | connect, edit, load through the cache, save, clone, delete | a stored template is one chain; a clean canvas is what is stored; a save goes where it was drawn for |
| Workflow designer (`ContractWorkflowDesigner.jsx`, `ContractWorkspace.jsx`, its routes) | draft and active revision per line; canvas, undo, fingerprint | edit, save, activate, cancel, change line | unsaved work is left only when asked, or when the shell takes the screen away; "saved" means accepted by the server for this line |
| Shell (`App.jsx`, `navigation`) | tab, workspace, one active navigation and a queue | notification, timeline, sign-in, sign-out | a navigation asked for is shown to who asked |
| Screens (finance, portal, contracts, HR, CRM pages) | rows, spinner, key, busy rows | load, reload, write | rows of the key shown; the spinner ends; an own write is seen |
| Forms and dialogs | a draft, its record, a busy flag | open, type, send, close | saved to its own row; typing is not lost; saves land in order |
| The rest (master data, storage, notifications, wiki, prices, user administration, markup) | single rows, files, messages | queries, I/O, formatting | no protocol; left out, each with its reason in `PROJECT.json` |

How they interact: every request is a database transaction. The evidence routes,
the receipt approval and the waiver review all call back into the runtime
(`auto_finalize_node_if_ready`, `review_task_node_acceptance`), so that a step
can be closed on four paths: the Director's decision, the checklist, the receipt
and the waiver. A legal dossier writes a step's status from outside. The
hand-over of an employee rewrites assignments from outside. The front end talks
to all of this through one function, `apiFetch` (`frontend/src/lib/api.js`),
which adds the token, renews it after a 401, and puts the read cache in front of
a GET without a signal.

What is hard here: those four paths and the order in which their transactions
come; rollbacks that reset steps in five statuses, with requests pending while
the instance moves on; savepoints that swallow a refused acceptance; graphs with
branches, joins, cycles and node codes that do not follow the flow, which the
validation all lets through; handlers that decide on rows they have not locked;
Redis locks with leases and a fallback. In the browser: one refresh cookie under
several tabs and accounts, a cache that other tabs write into, answers that
overtake one another and belong to a row or a person no longer on the screen,
canvases and drafts with work nobody has saved. `PROJECT.json` lists each hazard
at its line.

## 2. The modules

* `StepOrder` (abstract): a set `done` of steps with two moves, finish a step
  whose predecessors are done, and go back by a set that leaves nothing done
  behind it. The promise of the engine with no word on staff, evidence or money.
* `WorkflowRuntime`: one running instance, one action per handler. It is
  parameterised by the graph, the catalogue and two bounds.
* `WorkflowRuntime_proofs`: the theorems.
* `MCChain`, `MCFork`, `MCDetour`: the graphs TLC runs on.
* `PaymentLedger` (abstract): receipts are reported within what is owed,
  approved, rejected, voided and amended one at a time, each on the books as
  they are, and the books follow at once. What the money promises with no word
  on locks, transactions or stale reads, until something has gone wrong.
* `ContractPayments`: the money of one contract, below the level of a request:
  every read, flush and commit of a payment or a decision is a step of its own.
  `ContractPayments_proofs`: its theorems. `MCPayments`: its instance.
* The front end: `BrowserSession`, `ReadCache`, `TemplateStudio` with
  `StepChain`, `WorkflowDesigner`, `AppShell`; `Screens` and `Forms` with the
  tables of what each screen and form does; their `..._proofs`. `MCFrontend`:
  all of them, one at a time. `MCDebt`: one screen. `MCEnds`: what must happen
  eventually.

The two parts meet in the Boolean `settled`: where `WorkflowRuntime` says that a
receipt is approved or voided, atomically, `ContractPayments` says what several
such requests do to amounts, receivable and closing when they overlap.

### `WorkflowRuntime`: from code to state

| Variable | Column |
|---|---|
| `inst` | `workflow_instances.status` |
| `status[n]` | `task_nodes.status` |
| `paused[n]`, `fieldStarted[n]` | `task_nodes.pause_reason_type`, `execution_data.field_started_at` |
| `staff[n]` | role codes with an active `task_node_assignments` row |
| `checklist[n]` | `task_node_checklist_results.status` of the step's one item; the late statuses count as the plain ones |
| `verdict[n]` | `review_status` of the current link of the step's one document slot |
| `acceptances[n]` | the statuses of `task_node_acceptances`, by `attempt_no` |
| `request`, `requests` | the pending `workflow_rollback_requests` row (a partial unique index allows one) and how many were filed |
| `settled`, `waiver` | `debt_summary.is_settled`; last `handover_debt_requests` row |

### `WorkflowRuntime`: from code to actions

| Actions | Handlers |
|---|---|
| `Claim`, `Chain` | `claim_and_start_task`, one step of `claim_cluster`, `_reserve_main_workflow_chain` |
| `Reassign`, `HandOver` | `replace_node_assignments`, `execute_employee_handover` |
| `StartTask`, `MarkFieldWorkStarted`, `PauseNode`, `ResumeNode` | the functions of the same name |
| `SubmitEvidence` | `submit_checklist_evidence`, behind `_authorized_checklist_for_submission` |
| `AuthorizeUpload`, `UploadDocument` | `submit_checklist_output_document`: the authorization on rows not locked; the link, after the file, under the lock of the item |
| `Submit`, `SubmitHandover` | `submit_task_node_for_acceptance`, `submit_handover_for_acceptance` |
| `ReadForVerdict`, `ReviewDocument` | `review_node_document`: locks item and link and reads the step's status; writes the verdict |
| `AbandonPaper` | an upload or a verdict that fails, or is ended as one of two transactions that wait for each other |
| `Accept`, `Rework` | `review_task_node_acceptance`, decision accepted or rework_required |
| `ApproveChecklist`, `FailChecklist` | `review_checklist_evidence`: on approval a pending attempt is accepted, or the step finalized, inside a savepoint; when that is refused the item alone is approved |
| `ApproveReceipt`, `VoidReceipt` | `approve_cashflow` with `auto_finalize_contract_handover_nodes` and `_finalize_contract_after_full_payment`; `void_cashflow` |
| `RequestWaiver`, `RejectWaiver`, `ApproveWaiver` | `create_debt_request`, `review_debt_request` |
| `RequestRollback`, `RejectRollback`, `ApproveRollback` | `request_workflow_rollback`, `review_workflow_rollback`, `cascade_rollback`, `_rollback_affected_nodes` |
| `ReopenSurvey` | `apply_transition` of a legal dossier, `reopen_survey_work` |
| `Cancel` | `cancel_workflow` |

The functions of `W` lock the node row (`for update`) before they decide, so one
request is one atomic step, with these exceptions. `review_node_document` locks
the item and the link (5218-5230) but reads the status of the step without its
lock, and the update of the step at its end (5266) asks nothing again; the
acceptance reads the verdicts (5705) without locking the links. So a refusal and
an acceptance may both commit, which no order of the two explains. The upload
authorises the employee before it reads the file. Both take two steps in the
model: `reviewing` are the steps whose item a verdict has locked, which whoever
writes the item waits for (`SubmitEvidence`, `UploadDocument`, the decisions on
the item, a decision on the step with an item to be judged, a rollback);
`uploading` holds nothing. `late` records, for the property alone, a document or
verdict written to a step that had been accepted meanwhile.
`submit_handover_for_acceptance`, `review_checklist_evidence` (both decisions)
and the legal dossier's reopening decide on rows they have not locked too; they
are atomic here, and their races are the subject of the planned module
`WorkflowRaces`.

### `ContractPayments`: from code to state

| Variable | What it stands for |
|---|---|
| `phase`, `answer`, `byDirector` | where a payment request is in `record_payment` or `record_contract_payment`, its answer, whether its caller is the Director |
| `key`, `via` | the lock it is inside (`payment:contract:…` or `payment:node:…`) and the table that granted it |
| `redisHolder`, `localHolder`, `connected` | tokens in Redis; entries of `_fallback_locks` (one process: uvicorn runs without workers); `_client` is set |
| `lapsed`, `stray` | requests whose lease ran out while inside; keys whose local entry did |
| `voucher`, `amount` | `cashflow_transactions.status` and `amount` of the receipt a request creates |
| `fresh` | the voucher number a request has read is still unused |
| `receivable`, `row`, `snap` | `receivables.paid_amount`, the transaction that holds its row lock, the value a transaction has read |
| `steps` | the handover steps in progress as the holder of the receivable read them; their rows are locked by it from its SUM on |
| `closes`, `noticed` | the SUM a transaction took covers the contract; the last attempt to close the contract was made with the debt paid |
| `decision` | a request of the Director: where it is, its operation, its receipt, and status and amount as it read them |
| `blind`, `marks` | history, read by properties only: debt read before an unseparated receipt was committed; what has gone wrong so far |

### `ContractPayments`: from code to actions

| Actions | Code |
|---|---|
| `Acquire`, `AcquireBusy`, `AcquireFails`, `NoClient`, `Leave` | `redis_distributed_lock`: granted, 429, a RedisError (after which the local entry serves), no client (503), the exit |
| `LeaseExpires`, `LocalExpires` | `timeout_seconds` pass |
| `ReadDebt`, `ReadNumber`, `Insert` | `debt_summary` and the guard, `generate_voucher_id`, the INSERT: `_record_payment_transaction` |
| `ReadReceivable`, `Flush`, `SumReceipts` | the Director's own payment: the event of the step and `_sync_receivables`; `db.flush` and the reading of the handover steps in progress; their locks and `_finalize_contract_after_full_payment` |
| `DeadlockDetected` | PostgreSQL fails one of two transactions that wait for each other: a `Fail` or an `Abort` it brings about |
| `Commit`, `Fail` | `_store_payment_receipts`: commit, or roll back and raise |
| `OtherContract` | a receipt of another contract takes the number of the month |
| `Start`, `ReadReceivableFor`, `FlushApproval`, `SumForApproval`, `CommitApproval` | `approve_cashflow` |
| `CommitVoid`, `CommitReject`, `CommitAmend`, `Abort` | `void_cashflow`, `reject_cashflow`, `update_cashflow` of a receipt not yet approved; any error |

Transactions run at READ COMMITTED with autoflush off (`db/database.py`), so an
ORM object is written at the flush or the commit and not when it is assigned.
Rows written stay locked until the end; the model keeps the receivable's lock,
the receipt's (`ReceiptLocked`), the wait on a voucher number inserted by
somebody else (`InsertOpen`), and the rows of the handover steps. A payment by
step inserts an event that refers to the step, which shares the step's row; who
holds the receivable locks the rows of the handover steps in progress (`for
update of n` in `auto_finalize_node_if_ready`, one after the other; `StepsFree`
takes them at once, since nothing but its own wait lies between). Which steps
those are is chosen at the flush: it depends on the workflow, which is another
module. A payment that is not the Director's shares the step from its event to
its commit and waits for nothing in between, so the model has both in its
commit.

### The front end: how it is cut

A browser keeps more state than the server lets it see: a session shared by its
tabs, a cache, canvases with unsaved drawings, lists that were right when they
were read, dialogs about rows that are gone. Five modules are about one part
each; two are about everything else at once:

* `BrowserSession`, `ReadCache`, `TemplateStudio` (with the graph rules in
  `StepChain`), `WorkflowDesigner` and `AppShell` translate one subsystem each,
  handler by handler.
* `Screens` and `Forms` translate what the other screens and dialogs have in
  common. A screen loads rows, shows a spinner, sends writes, loads again; a
  dialog opens for a row, is typed into, sends, and gets an answer. They differ
  in a few decisions that their authors made line by line: is a late answer
  dropped, what does an error do to the rows, does the write go through the
  cache, can the dialog be closed while it saves. `ScreenKinds` and `FormKinds`
  name those decisions; the tables `FinanceScreens`, `PortalScreens`,
  `OfficeScreens` and `FormTable` give them for every load, write and form, one
  definition each, at its lines; `Screens` and `Forms` say what happens then. A
  behaviour is one pair of a load and a write of one page (or one form), and TLC
  runs every discipline that occurs: 75 of screens, 29 of forms. The theorems
  are about every discipline there could be.

The constants of these modules and their assumptions are in `SessionConstants`,
`StudioConstants`, `ScreenConstants`, `FormConstants` and `ShellConstants`.
Variables named as history are read by properties only.

Requests travel in phases: sent, worked on by the server, answered. The network
gives no order: answers overtake one another and may be lost before or after the
server has done the work.

### `BrowserSession`: from code to state and actions

| Variable | What it stands for |
|---|---|
| `issued`, `family`, `owner`, `live` | the rows of `refresh_sessions`: the first row of the login a row descends from, its user, and whether it is neither revoked nor expired |
| `cookie`, `hint` | the refresh cookie and `bachkhoa_auth_session_hint`, which the tabs share |
| `tab[t]` | the access token in the module variable of `api.js`, the remembered `/api/auth/me`, the state of `App` (`loggedIn`, `sessionLoading`, the error screen, the timer, the profile) and the calls under way |
| `refresh`, `signIn`, `signOut` | the one `refreshInFlight`, the sign-in of each tab (by password, after a reset by one-time code, by an invitation) and its logout |
| `missed`, `closed`, `crossed`, `disturbed` | history: families revoked beside a rotation, families a logout was carried out for, tabs an answer of another sign-in may have reached, overlapping or lost requests on the cookie |

| Actions | Code |
|---|---|
| `Open`, `Retry`, `SafetyTimer`, `Wake` | a page load, the button of the error screen, the timer of the validation effect (`App.jsx`); the delay between the tries of `validateSession` |
| `UserCall`, `DeliverCall`, `DeliverUnauthorized`, `FailCall` | `apiFetch`, `requestOnce` with its repeat after a renewed token |
| `DeliverRefresh`, `DeliverRefusal`, `FailRefresh` | `refreshAccessToken`, for all who wait for it |
| `SendLogin`, `DeliverLogin`, `FailLogin`, `ClickLogout`, `DeliverLogout`, `FailLogout` | `Login.jsx`, `SetPassword.jsx`, `handleLogin`, `handleLogout`, `logoutSession` |
| `ServerLogin`, `ServerReset`, `ServerRefuse`, `ServerLock`, `ServerRotate`, `ServerLogout`, `PasswordChanged` | `routes_auth.py` and `core/refresh_sessions.py`; the reset by one-time code revokes the families of the account and `ServerLogin`, of a password or an invitation, none; the rotation is two steps, because it holds a row lock between its read and its commit and a revocation takes none |
| `Lapse`, `Expire`, `ForgetMe` | a refresh token, an access token, the remembered `/me` grow old |

### `ReadCache`

| Variable | What it stands for |
|---|---|
| `served`, `user` | what the server would answer now; the account signed in |
| `mem`, `l2` | `readCache` and the entries of localStorage: whose body, how old the code takes it to be, how old it is |
| `flights`, `joined` | requests under way, and the one `inFlight` knows for a path |
| `other` | the body another tab is about to store |
| `write`, `seen`, `served`, `overlapped`, `strays`, `handed` | the write under way; history; the body a reader was given in this step |

`ReadHit`, `ReadMiss`, `Peek`, `DeliverRead`, `ReadFails` are `apiFetch` and
`peekApiCache`; `SendWrite`, `DeliverWrite`, `FailWrite` a write with
`invalidateOnMutation` (`Void`, or nothing when a screen calls `fetch`);
`Logout` is `clearApiCache`; `Login` is a sign-in after it, and `LoginOver` an
invitation accepted in a browser where somebody else is signed in, which clears
nothing of localStorage; `OtherTabReads`, `OtherTabStores`, `OtherTabClears` are
the same code in another tab. Time is counted in units of the stale threshold
(`Tick`).

### `TemplateStudio` and `StepChain`

The canvas (`canvas`: steps, edges, start), the combo selected, the list last
loaded and the combo it was loaded for, `chosen`, and the template rows.
`listings` are the loads under way, `copies` the list of each combo that
`readCache` or localStorage holds, `posts` the writes under way, `rivals` what
other directors may still store. `Connect` is guarded by
`checkSequentialConnection` (`MayConnect`), `Disconnect`, `AddStep`,
`DeleteStep`, `SetStart` are the other edits; `SelectCombo`, `SelectTemplate`,
`CreateNew`, `Duplicate`, `CatalogChanged` fill the canvas or ask for a load.

A load goes through `apiFetch` (`AskList`): it takes the copy, with or without a
read in the background that ends in the cache only (`via = "silent"`,
`DeliverSilently`), joins the read in flight (`"join"`), or sends one (`"net"`).
`DeliverList` is `loadTemplates` after its await, which asks nobody whether the
combo is still selected; it and `DeliverSilently` store the body (`Cached`),
also where a write was sent since it was read. `Over` takes a finished read out
of `inFlight`, with whatever stands there under its path by then. `Restored` is
what an earlier visit left in localStorage; `TabReads` and `CopyEnds` are other
tabs and the TTL.

A save, a clone and a deletion are under way side by side, one of each kind:
`saving` and `cloning` stop a second one of theirs, and for the deletion, which
has no such flag, one at a time is a bound. `AskToWrite` makes every copy void
and takes every read out of `inFlight` before it sends; `GiveUp` is the
ten-second timeout, after which the server may still carry the write out
(`"adrift"`); `DeliverSave` loads again, and the write is over when that load
is. The `Server...` actions are the server's tests (`Accepts`) and its rows;
`RivalWrites` is another director or another tab that creates, changes, moves or
deletes a row. The history (`lost`, `late`, `held`) follows which lists miss a
write. Reachability is stated by closed sets and not by recursion, so that it
can be proved about.

### `WorkflowDesigner`

Per line of a contract the server keeps a draft revision, an active one, and
whether the line ended; `known` is what `ContractWorkspace` last loaded,
`screen` the mounted designer (line, edit mode, canvas, `savedFingerprint`, the
pending question), `calls` the requests under way, `past` the undo history. A
drawing is the line it was begun for and a number, so that "is it saved" and
"whose is it" can be asked. `Navigate`, `Stay`, `Discard` and a `SaveDraft` that
leaves are the guard of unsaved changes; `OtherWrites` is another director or
the end of the line; an answer (`DeliverAnswer`) acts on the screen as it is
then. `TakenAway` is the shell unmounting the screen without a question: the
logout button, a logout after a 401, a late `/me` or an event of a feature that
changes the tab.

### `AppShell`

`nav` and `queue` are `activeNavigation` and `queuedNavigationsRef`; a
navigation keeps the sign-in it was asked for in. `Notified` and
`OpenTimelineNode` ask for one, behind the question about unsaved changes when
the contract screen has some; `NavigateFromFeature` is the listener of
`app:navigate`, which sets the tab and asks nobody (no screen sends that event
yet); `DeliverNavigation` is the event that goes out once the screen of its tab
is mounted. `LogIn`, `Validated`, `TimerFires`, `ValidationFails`,
`RetrySession`, `LogOut` are the parts of the sign-in the shell sees.
`workspace` and the permissions decide which tabs there are (`AllowedTabs`), and
the tab shown need not be the one chosen (`Effective`).

### `Screens` and `Forms`

| `Screens` | |
|---|---|
| `Turn`, `Refresh` | another key (a month, a row, a page); a timer, a server event, a button |
| `Serve`, `Deliver`, `FailLoad` | the request, its answer, its failure; `Counts` is the guard against late answers |
| `Send`, `Apply`, `Confirm`, `Refuse` | a write: what it makes void and shows at once, what the server does, what success and refusal do to the rows |
| `ExpireEntry`, `OthersChange` | an entry of the cache reaches its TTL; somebody else writes |

| `Forms` | |
|---|---|
| `OpenFor`, `Type`, `Close` | the form opens with the draft its discipline says, is typed into, is closed if it may be |
| `Submit`, `TakeSave`, `ConfirmSave`, `RefuseSave` | sent, taken by the server, answered: the form closes, empties, hides, stays, or gets its fields back |
| `ReadAnswer`, `FailRead`, `Reread` | forms whose fields come from the server |

The read cache appears in `TemplateStudio` with its phases, and in `Screens` as
"a version is held, a request can be joined, a write removes it"; its ages are
the subject of `ReadCache`.

### What is abstracted

In `WorkflowRuntime`: employees are the roles they hold; permissions are taken
as given (any action may be asked for at any time); limits on work in progress
and the test for a second task in hand only ever refuse a claim, so leaving them
out adds behaviours and hides none. One item and one document slot per step.
Runtime document types only add reasons to refuse an acceptance. Amounts are one
Boolean, `settled`. The government-tracking gate of a legal step only adds a
reason to refuse a submission. The hand-over's mode "pool" writes columns no
migration creates, always fails, and is no action. Help requests, amendments of
a running graph, pay entitlements and the sending of verdicts as a batch are not
modelled yet; the batch's effect on a step is `Rework`.

In `ContractPayments`: the answers 400, 429 and 503 are one, "refused"; a
request of the Director that is refused changes nothing and is no action; the
receivable row exists from the creation of the contract
(`contracts/services.py`); the value of the contract is constant and amounts are
small integers instead of money with a tolerance of 0.009; uploads, signatures
and the automatic finalization of the handover step may fail (`Fail`, `Abort`)
and do nothing else here. Refund expenses, the relinking of an approved receipt
to another contract, closed periods and fund balances are left out.

In the front end: a token, a body, a drawing or a draft is its identity (whose
it is, which version, which number); validation of fields, layout, toasts and
formatting are left out. In `BrowserSession` the permissions, the limits on
attempts and the codes of resets and invitations are left out; a reset is a
login that revokes. In `Screens` a page's loads are taken one at a time, each
with each write of its page: two loads of a page meet only in the cache, which
is keyed by URL. A write is one request; some that send several are named in
section 6. In `Forms` the draft is a whole; a form that keeps one field of many
is taken as one that keeps them all. In `TemplateStudio` the ages of a cached
list are left out: a copy may be served as fresh, served and read again behind,
or end, at any time. In `WorkflowDesigner` two requests of different directors
for one line are ordered by the server, as the rows' locks order them.

Operators with a comment "Broken" are not used by the model. Each is a
definition with one plausible bug, kept beside the correct one: put in its
place, it makes TLC violate the property it is paired with in `PROJECT.json`,
which shows that the property depends on that line.

## 3. The runs

`tlc -workers 2 -config X.cfg M` in this directory.

| Run | Graph | What it shows |
|---|---|---|
| `MCChain` | K02 (field survey, pool) → K03 (drawing: item, document, pause, pay) → K06 (handover behind the debt gate) | its six invariants, `HistoryKept`, `OnlyRollbackUndoes`, and that the engine implements `StepOrder` (of which `AcceptedInOrder` is a proved consequence) |
| `MCFork` | K06 (handover, the Director chooses) → K07 or K08 (survey step that a legal dossier may reopen) | `WorkIsStaffed` and `MoneyBeforeClose`, with two roles, a branch, a handover that is not the end and a reopened survey: work has somebody on it, and no way of closing completes a contract neither paid nor waived |
| `MCCancel` (violation) | the chain | `CancelIsTerminal` |
| `MCPause` (violation) | the chain | `PausedIsNotClosed` |
| `MCRefused` (violation) | the chain | `RefusedCanBeReplaced` |
| `MCDetour` (violation) | K02 → N04 → K07 | `OnlyRollbackUndoes` where the codes do not follow the flow |
| `MCPayments` | a contract worth 2; two payments of 1 or 2 under the contract's or a step's key; two decisions | `LockHeld`, `AnswerTrue`, `NotOverpaid`, `ReceivableAgrees`, `FullPaymentNoticed`, `RowProtects`, and that the requests implement `PaymentLedger` (`ImplementsLedger`); 1,633,430 states |
| `MCEnds` | a contract worth 1, two payments, one decision; and one tab whose network drops any request | `EveryRequestEnds`, `StartupSettles` (liveness); 115,746 states |
| `MCFrontend` | the scenes of the five modules, every discipline of the screens and forms | the twenty properties below; 897,729 states |
| `MCUnconfirmed` (violation) | one payment | `RefusedDidNothing` |
| `MCReceivable` (violation) | two payments, two decisions | `ReceivableMatchesReceipts` |
| `MCDebt` (violation) | the list of debts and the write-off | `OwnWriteShown` |

What `MCFrontend` shows, part by part (each with the exceptions its comment
names):

| Part | Properties |
|---|---|
| all | `TypeOK` |
| sign-in | `OneLiveToken`: a login has at most one refresh token that works, rotations and replays in any order; `LogoutEndsFamily`: no token of a login signed out works any more; `CookieIsLive`: the cookie the browser sends next is one the server accepts; `ProfileIsTokenUser`: the profile shown and the token sent are of one person |
| cache | `StaleBound`: a body handed out is not older than the TTL, or nearly twice the TTL when it was promoted from localStorage at the end of its time; `OwnApiWritesSeen`: after a confirmed write no read of its area returns what was before it, from memory, from localStorage or by joining; `SessionIsolation`: what one account read is not handed to another, sign-outs, sign-ins and other tabs in any order |
| studio | `StoredIsChain`: every stored template is one path from its start through all its steps; `CleanCanvasIsStored`: a canvas nobody edited is the stored template it says it is, over overlapping saves, clones and deletions and lists from the cache, unless the list is known to miss a write; `MovesOnlyAstray`: a template changes its combo only by another director, or by a save that was drawn while the canvas still showed another combo or a list that misses a write, or that another director's write overtook |
| designer | `UnsavedSurvives`: a drawing no server accepted leaves the screen only by the director's own decision, by an answer he drew under, by the load of a notification he followed before he drew, or because the shell takes the screen away; `CleanIsAccepted`: a canvas that counts as saved is one a line started with or the server accepted |
| screens | `RowsOfKey`: when all answers are in, the rows are those of the key chosen; `LoadingEnds`: the spinner does not turn for a load that is gone; `WriteShown`: rows read again after a write are not older than it, and a refused write is not still shown |
| forms | `SavedToOwnRow`: what is saved for a record was typed for it; `TypedSurvives`: nobody types into a dialog that the answer to the last one wipes; `SavesInOrder`: the server takes the drafts of a record in the order they were typed, each once |
| shell | `NavigationShown`: a navigation under way is of this sign-in and for the tab shown, so that it is delivered, and so is what waits behind it |

Bounds of the workflow runs: `MaxAttempts = 2` acceptance attempts per step and
`MaxRequests = 1` rollback request per instance (both 1 in `MCDetour`). Two
attempts are what it takes to have a decided attempt beside an open one, or a
step accepted, rolled back and accepted again; one rollback at any point of any
behaviour already resets any mix of statuses, and refused items repeat without
bound. Three steps give a first, a middle and a last one; the middle has
predecessors and successors, which is what order, rollback and completion
distinguish. What the bounds cannot show the proofs do: they hold for every
graph and every bound.

Bounds of the payment runs: two payments and two decisions, each used once.
Every hazard listed for this part is a race of two transactions, or of two
requests for one lock, and two keys are what it takes to have the same lock and
different ones; with amounts 1 and 2 and a value of 2, one payment can settle
the contract, two can settle it together or overpay it, and an amount can be
raised. Payments and decisions are interchangeable (symmetry), keys are not:
only the Director uses the contract's. `MCPayments` ends a behaviour where a
second kind of mishap marks it (`OneMishap`): most of its properties promise
nothing after the first, and the proofs have no such bound.

`NotOverpaid`, `ReceivableAgrees` and `FullPaymentNoticed` do not hold of every
behaviour of the code, and say on which ways they fail: each names the events
(`marks`) that excuse it, so the run shows that there is no other way. "blind":
a receipt was posted on a debt read before another receipt was committed, by
requests that no lock keeps apart. "raised": an amendment put the amount up.
"raced": a decision was taken on a receipt that had changed since it was read.
"lost": a receivable was written from a stale value.

`ImplementsLedger` is the other side of that: as long as there is no mark, the
requests do what `PaymentLedger` does. A commit is the ledger's step, all that
comes before it a stutter; the mark is `wrong`, after which the ledger promises
nothing. Each of the three invariants is excused by fewer marks; where there is
none at all, this says more: that an approved receipt is never amended nor
raised, that a receipt taken back does not come back, that nothing is reported
over what is owed at the moment of its commit, and that the contract is told it
is paid only when it is, and told otherwise when a void undoes it. A receipt's
amount counts from its commit on.

Bounds of the front-end run. The parts meet only in calls that each module
models for itself, so a behaviour of `MCFrontend` runs one of them (`running`)
and the others rest; that is what keeps one run of all of them small. Their
variables and operators have names of their own: `MCFrontend` extends the
modules, and what it checks are the very definitions the theorems are about.
Within a part, scenes bound what happens together, each built around the races
its code is exposed to: for the sign-in two tabs of one account; one tab where
two people sign in over a network that loses answers; tokens that grow old;
passwords changed meanwhile; two tabs whose cookie changes hands. For the cache
two readers beside a writer; another tab; another account; a file of a step,
which makes only part of its area void. For the studio two loads that overtake
one another; two edits of a template; writes of different kinds that overlap;
another tab and another director. For the designer a running line, two saves
that overtake one another, another director, two lines, a second drawing. A
screen has two keys, two loads where late answers are dropped and one elsewhere,
one write and one change of the data; a form two records, two saves and two
drafts; the shell two sign-ins, two navigations and one save. Two of a kind is
what it takes to be overtaken, replaced or confused with; that more of them
change nothing is what the theorems show.

Of these, several properties say on which ways they fail, because the code fails
on them: `CookieIsLive` excuses lost answers and overlapping requests on the
cookie (`disturbed`), `ProfileIsTokenUser` answers of another sign-in
(`crossed`), `LogoutEndsFamily` rotations beside a revocation (`missed`),
`OwnApiWritesSeen` reads beside a write (`overlapped`), `SessionIsolation`
bodies that arrived from outside or stayed when an invitation was accepted
(`strays`), `CleanCanvasIsStored` and `MovesOnlyAstray` a list that misses a
write (`lost`, `stray`), `UnsavedSurvives` a screen taken away (`TakenAway`),
`NavigationShown` a tab moved under a navigation (`upset`). The run shows that
there is no other way; the list of section 6 says what the excused ways are.

Deadlock is not checked: requests that are all served stop; an instance that is
completed or cancelled stops, and so does a step at its bound of attempts; a
screen may be left and a session ended. `NoDeadEnd` says what should not happen
in between.

**Fairness.** In `WorkflowRuntime` there is none: every action is a person's
request; no scheduler, timer or worker of the code takes one of them by itself.
Nothing justifies fairness there, so no liveness property is claimed.
`NoDeadEnd` is the safety statement behind it: as long as the instance runs,
somebody can act. In `ContractPayments` a request, once made, is run by a thread
of the server that does not stop by itself, and PostgreSQL grants a lock that is
released: `Spec` has weak fairness on each request's next step, none on making a
request, on expiries, or on failures but one: PostgreSQL finds two transactions
that wait for each other and fails one (`DeadlockDetected`). `EveryRequestEnds`
rests on both: without the second TLC finds the circle. In the front end one
action has fairness, `SafetyTimer`: the browser runs a timer that was set
(`App.jsx`, thirty-five seconds). Answers have none, the network may lose each
of them; `StartupSettles` says that the loading screen goes away all the same.

**Where a property stops.** `NoDeadEnd` is for chains and `AllAcceptedCompletes`
for graphs whose handover is last: on a branching graph the branch not chosen
stays pending and no instance completes; behind the join of two such branches,
and on a cycle, nothing is ever accepted, because every ancestor must be (these
are theorems, section 5); and in `MCFork` a receipt voided between two
acceptances leaves the completion to a waiver, which does not complete.
`WorkInOrder` needs a graph without joins, `OnlyRollbackUndoes` and the
refinement need codes that follow the flow and no reopened survey; what is left
of the two when the survey is reopened is proved of every step but the survey.

## 4. What the violation runs found

1. `MCCancel`: a rollback request pending at the cancellation can still be
   approved; steps of the cancelled instance go back to work, against the
   docstring of `cancel_workflow`.
2. `MCPause`: a paused step is closed by the approval of its checklist item;
   `node_pause_block` guards the manual submission only.
3. `MCRefused`: submit tells the employee to upload a refused document anew, and
   the upload refuses because the item was approved already.
4. `MCDetour`: the comparison of codes, meant for graphs without transitions,
   also decides for a target nothing follows, and takes back steps before it.
5. `MCUnconfirmed`: when Redis fails at the acquisition, the payment is recorded
   under the local entry and then answered 503 "try again"; a caller who does
   records it twice.
6. `MCReceivable`: an approval and a rejection both read a receipt as pending;
   the approval books it, the rejection commits last, and a rejected receipt
   stays booked in the receivable.

7. `MCDebt`: the Director writes a debt off and the list loaded after it may
   come from the cache with the old debt. `invalidateOnMutation` makes void what
   begins like the URL written (`/api/contracts/`), and the list is
   `/api/handover/outstanding`. The tables hold the same shape for the
   carry-forward, the review of a hand-over's evidence, the rollback of a step,
   the request for an advance and the upload of an output document;
   `WriteShown`, which every discipline does satisfy, is about writes whose area
   holds the list.

Each is quoted with its lines in `PROJECT.json`.

## 5. What is proved

`tlapm WorkflowRuntime_proofs.tla`, `tlapm ContractPayments_proofs.tla`, `tlapm
BrowserSession_proofs.tla`, `tlapm ReadCache_proofs.tla`, `tlapm
TemplateStudio_proofs.tla`, `tlapm Screens_proofs.tla`, `tlapm
Forms_proofs.tla`, `tlapm ShellAndDesigner_proofs.tla`.

**The workflow.** The assumptions are `GraphAssumption` (what
`validate_workflow_graph` guarantees: targets are steps, nothing about branches,
joins or cycles), `CatalogAssumption` and `BoundAssumption`. Hypotheses beyond
them are written in the theorem.

| Theorem | Statement | Argument |
|---|---|---|
| `TypeCorrect` | `Spec => []TypeOK` | one step per action |
| `OnePendingHolds` | no reopened survey: `[]OnePendingAttempt` | inductive with `TypeOK`: an attempt is opened only on a step that has none open, and every way out of "submitted" decides it |
| `AcceptedIsReviewedHolds` | `[]AcceptedIsReviewed` on every graph: an accepted step has a settled item, and a document nobody refused or left unread unless it was written late | inductive with `TypeOK`: whoever accepts has asked for both, and what is written afterwards is `late` until a rollback takes the acceptance back |
| `WorkIsStaffedHolds` | `[]WorkIsStaffed` on every graph | inductive with `TypeOK`; a finalized step was in progress, hence staffed |
| `HistoryKeptHolds` | `HistoryKept` on every graph | from `TypeOK` |
| `StepOrderImplemented` | codes follow the flow, no reopening: `Spec => Order!Spec` | an acceptance is `Finish`, a rollback is `GoBack` or a stutter, everything else stutters |
| `AcceptedInOrderHolds` | `[]AcceptedInOrder` | the refinement and `InOrderHolds` |
| `OrderButSurveyHolds` | codes follow the flow: an accepted step has only accepted steps before it, but for a survey that was reopened | inductive: a reopening takes one acceptance, that of the survey, and a rollback takes with a step whatever is accepted behind it |
| `OnlyRollbackUndoesOthers` | a step nothing follows has the greatest code (`EndIsLast`): no acceptance but the survey's is taken back otherwise than by a rollback to the step or to one before it | an action property, from `AcceptedIsReviewed`: a refused checklist item is never that of an accepted step |
| `OnlyRollbackUndoesHolds` | `EndIsLast`, no reopening: `OnlyRollbackUndoes` | the same without a survey step |
| `WorkInOrderHolds` | `[]WorkInOrder` without joins, codes following the flow | inductive with `AcceptedInOrder`: when a step is opened its only way in has just been accepted, and a rollback resets with a step everything behind it |
| `InOrderHolds` | `Order!Spec => []Order!InOrder` (`StepOrder`) | two moves |
| `MoneyBeforeCloseHolds` | `MoneyBeforeClose` on every graph, the survey reopened or not | an action property: every way an acceptance or a completion can come about tests the gate in the same step, and no such step moves the money |
| `AllAcceptedCompletesHolds` | codes follow the flow, no reopening, handover last: `[]AllAcceptedCompletes` | inductive as `Unended` ("running" implies some step is not accepted) beside `AcceptedInOrder`: the last acceptance is the handover's, which finds the gate open, and tries the completion |
| `NoDeadEndHolds` | chains with codes following the flow, no reopening: `[]NoDeadEnd` | with `Frontier`: the start is not pending, and no successor of an accepted step is; the first step that is not accepted is therefore one somebody can act on |
| `CompletesAcceptedHolds` | on every graph an instance completes only with every step accepted | from `Uncancelled`: no step is cancelled before its instance, so that "accepted or cancelled" is "accepted" |
| `CycleNeverCompletes` | on every graph a step on a cycle is never accepted, and the instance never completes | it is its own ancestor, and every acceptance asks for the ancestors first |
| `OneWayOnlyHolds` | codes follow the flow: of two steps that only the choice at `n` opens, one at least is closed at any time | inductive as `ForkInv`; see below |
| `ForkNeverCompletes` | with such a fork the instance never completes, and nothing behind both ways is ever accepted | from the three theorems before and `OrderButSurveyHolds` |

Two facts about graphs carry the order proofs. `Downstream` is defined as the
intersection of the closed sets around a step and not by recursion, so that what
a walk does can be proved without induction: whatever is behind a step behind
`t` is behind `t`, and on a graph without joins the ancestors of a step are
those of its one way in and that way in itself. And the rollback set is closed
under "behind": along the transitions by the first fact; by the codes because
the codes follow the flow.

`ForkInv` says where a branching instance stands. Until it is cancelled, one of
the two ways is pending, and neither is open without the acceptance of `n`: so
when the Director accepts `n` again, after a rollback, the rollback has closed
the way that was chosen first. That no item waits for the Director on a step
nobody works on (`ItemsInWork`) is needed too: a refused item would open the
second way. A cancelled instance is not at rest (`MCCancel`), its steps may be
sent to rework and accepted after all; but the way that was pending has been
cancelled with no item handed in, and no handler touches such a step
(`StaysBuried`). These theorems say what the engine does with a graph that the
validation lets through; whether such a graph should be let through no document
says.

**The payments.** The assumptions: payments and decisions are different requests
and there are finitely many payments (`RequestAssumption`), the contract's key
is a key (`KeyAssumption`), amounts are positive (`AmountAssumption`).

| Theorem | Statement | Argument |
|---|---|---|
| `PaymentsTypeCorrect` | `Spec => []TypeOK` | one step per action; the receivable stays in Nat because `_sync_receivables` floors it |
| `LockHeldHolds` | `[]LockHeld` | inductive with "who is inside has a key" (`KeyKnown`): another's release compares the token, and in the process every holder of a key that never expired is the one its entry names |
| `ExclusiveHolds` | two requests share key and table only after an expiry | from `LockHeld` |
| `AnswerTrueHolds` | `[]AnswerTrue` | inductive with two facts: a request in its body has neither receipt nor answer, and a decision is about a receipt that exists |
| `RowProtectsHolds` | `RowProtects` | inductive: `row` names a transaction that has flushed and not ended, and every other write of the receivable needs the row free |
| `ReceivableAgreesHolds` | `[]ReceivableAgrees` | inductive by itself: every commit moves the receivable and the set of approved receipts by the same amount, or marks the state "lost" or "raced" |
| `NotOverpaidHolds` | `[]NotOverpaid` | inductive with `LockHeld` as `RoomKept`: a payment past the test of the debt still fits into what is left, because whoever could take the room holds the same lock, or made it `blind` |
| `FullPaymentNoticedHolds` | `[]FullPaymentNoticed` | inductive as `SumStands`: who has summed holds the row of the receivable until it ends, so that nobody changes the sum behind it, and if its receipt is the one that covers the contract it tries the closing |
| `PaymentsKeepLedger` | `ImplementsLedger` | every step of a reachable state is a step of `PaymentLedger` or a stutter; see below |
| `LedgerBalances` | `Ledger!Spec => []Ledger!Balanced` | of the ledger alone: only a report adds to what is owed, and it finds the room; the books follow in the same step |
| `LedgerBalancedHolds` | `[]Ledger!Balanced` | the refinement and `LedgerBalances` |
| `WaitsEndAtRowHolds` | `[]WaitsEndAtRow` | from `RowHeld`: a voucher number is waited for by who holds nothing, and a flushed receipt or a locked step is held by the holder of the receivable alone, who can be stopped by a shared step only |

The refinement needs what the invariants of the runs say, and two facts that
they do not. `Priced`: who is in the body of a payment asks for an amount that
is one, and every receipt has one. `ClosingEarned`: until a mark is set, the
contract knows that it is paid only if it is, and a transaction that means to
tell it has summed and still holds what it summed (`SumNotLost`); this rests on
the row lock once more, for the one step that could take an approved receipt
away behind the sum, a void, finds in the receivable at least the amount of that
receipt, hence not zero, hence must wait for the row (`VoidNeedsRow`). Without
the first the ledger would not know what a receipt is worth, without the second
it could not follow the closing. Both were invariants of a TLC run before they
were proved.

`WaitsEndAtRow` is the part of `EveryRequestEnds` that is safety. The waits do
form a circle: the Director's payment by step shares the step before it waits
for the receivable, and who holds the receivable locks the step after it. The
theorem says of any number of requests that there is no other: whoever is
stopped waits for somebody under way, a chain of waits leads to one who goes on
or to the holder of the receivable, and that holder is stopped only by payments
that wait for it and for nobody else, so that failing either side of them is
enough. "Stopped" (`Blocked`) is written as a state predicate; that it is what
disables a request under way was compared with `ENABLED` by TLC, since ENABLED
is out of the prover's reach. That a request which can go on does go on is
fairness, and stays with TLC.

`ReceivableAgreesHolds`, `NotOverpaidHolds`, `FullPaymentNoticedHolds` and the
ledger's theorems are about sums over the receipts. A sum defined by recursion,
or by a fold, is out of the prover's reach, since what it does for every finite
set needs induction over data. `SumIn` is the cardinality of a set of units
instead (one pair of a receipt and a number for each unit of its amount), so
that what a step does to the sum is what it does to the cardinality of a set,
and the theorems of the library about finite sets suffice: a receipt more adds
its amount, one less takes it away, a larger set has a larger sum.

**The front end.** The assumptions are those of the modules' constants: nobody
is no account, the starter drawing is a chain, disciplines are disciplines, "no
drawing" is not a drawing, the bounds are numbers.

| Theorem | Statement | Argument |
|---|---|---|
| `SessionInvariant` | `SessionSpec => []IInv` | types of the server's rows and of the requests on the cookie; a family is named after a row already issued; a rotation under way holds a live row that nobody else holds |
| `OneLiveTokenHolds` | `[]OneLiveToken` | a part of `IInv`: the row lock makes the consumed row die in the step its successor is born |
| `LogoutEndsFamilyHolds` | `[]LogoutEndsFamily` | a successor of a revoked row is born only of a row locked before, and that overlap is `missed` |
| `SessionTypes` | `[]SessionTypeOK` | from the three invariants: `IInv`, `CookieInv`, `TabInv` |
| `CookieIsLiveHolds` | `[]CookieIsLive` | as `CookieInv`: until something is `disturbed` there is one request on the cookie at a time (`Alone`), and the row it brings back, or the one the browser has, is live except between the server's work and its answer |
| `ProfileIsTokenUserHolds` | `[]ProfileIsTokenUser` | as `TabInv`: whoever a tab that is not `crossed` knows, by its token, its remembered `/me`, its profile or an answer on its way, is one person |
| `CacheTypes` | `CacheSpec => []CacheTypeOK` | a path `inFlight` knows has a request that is not over and somebody waits for (`JoinedFits`), so nobody joins a dead one |
| `StaleBoundHolds` | `[]StaleBound`, for any TTL | as `AgesKnown`: in localStorage what is left and what has passed make one TTL; in memory a body is as old as the cache thinks or was promoted |
| `OwnApiWritesSeenHolds` | `[]OwnApiWritesSeen` | as `WritesSeen`: whatever is kept, on its way or about to be stored by another tab was answered after the last write that is done, and while a write is under way its paths are nowhere to be read |
| `SessionIsolationHolds` | `[]SessionIsolation` | as `OwnAccount`: what is kept and did not stray was read for who is signed in |
| `StudioInvariant` | `StudioSpec => []IInv` | types, and every drawing on the canvas, in a request or stored is sequential: the guard of `Connect` keeps "at most one way in and out" and "no circle", and removing keeps both |
| `StoredIsChainHolds` | `[]StoredIsChain` | a sequential drawing the server accepts is connected from its start |
| `CleanCanvasIsStoredHolds`, `MovesOnlyAstrayHolds` | the two properties | as `CanvasInv`: an answer or a copy not marked as late holds the rows, unless a write this screen sent was carried out and the copy was kept before; the list does while nothing was lost and no write waits for its reload; the chosen row is one of that list, and a save that is no stray is for the combo its row has |
| `DesignerTypes`, `CleanIsAcceptedHolds` | `[]DesignerTypeOK`, `[]CleanIsAccepted` | as `DesignerInv`: every revision the server holds, the screen loaded or an answer brings is among the drawings accepted, what the screen takes for saved is too, and so is the drawing of a request that was carried out |
| `UnsavedSurvivesHolds` | `UnsavedSurvives` | from `DesignerInv`, one case per action: a load in edit mode keeps the canvas, the other writes do not reach it, and the answer to a request that was carried out is for a drawing the server has, hence not the one on the canvas; `TakenAway` is a case of its own |
| `ShellTypes`, `NavigationShownHolds` | `[]ShellTypeOK`, `[]NavigationShown` | as `ShellInv`: a navigation under way is for the tab chosen, which may be seen in this workspace; what waits behind it is for tabs that may be seen; nothing waits unless one is under way |
| `ScreensInvariant` | `ScreenSpec => []IInv` | the newest load is under way, a spinner has a load that will end it, rows are of the key wanted while nothing is under way, what the cache holds after a write is not older than it |
| `ScreensTyped`, `RowsOfKeyHolds`, `LoadingEndsHolds`, `WriteShownHolds` | the three properties, for every discipline | from `IInv` |
| `FormsInvariant` | `FormSpec => []Inv` | a form that empties itself holds a draft of its record; while it is held open what is saving was sent from here; one save at a time where the button says so; drafts are numbered |
| `SavedToOwnRowHolds`, `TypedSurvivesHolds`, `SavesInOrderHolds` | the three properties, for every discipline | from `Inv` |

`StepChain` rests on one lemma: adding an edge `a -> b` to an acyclic set keeps
it acyclic if `b` does not reach `a`, shown from the set that witnesses a
circle.

**What the proofs changed.** Three statements were not what they should have
been. `crossed` had marked the tabs that show a profile when the cookie changes
hands; a tab with a token and no profile yet was not marked, and would have
shown the wrong one, so the mark is about all a tab may know of (`Strangers`),
and a scene with two tabs and two accounts is run for it. `CleanCanvasIsStored`
had excused every state with a load under way; the proof needs no such
exception, and the property has none now. And `AllAcceptedCompletes` had been
stated for chains; it holds on every graph whose handover is last
(`HandoverIsLast`). The strengthenings were invariants of TLC runs before they
were proved.

**Only model-checked.** `EveryRequestEnds` and `StartupSettles`: liveness under
fairness is out of the prover's reach; of the first, `WaitsEndAtRowHolds` proves
that the waits form one kind of circle only. `TypeOK` of `MCFrontend` as one
formula: the types of its parts are theorems, each of its own module, and the
module that runs them in turn is made for TLC. And the table entries: that the
code has the discipline a table gives it is read, at the lines the map names,
and not proved.

## 6. What is left

### Seen while modelling

Behaviour met at the lines named, which no property states as a promise of the
repository. The names in brackets are the history variables or disciplines by
which the model has it.

*Workflow.* A verdict that was reading when the Director accepted the step
refuses a document of the accepted step, and an upload that was under way leaves
it one nobody has read (`late`). Either way the step stays accepted, and its pay
is due.

*Sign-in and cache.* The answer of a rotation is lost: the next refresh presents
a consumed token, which is a replay, and the family ends (`disturbed`); two tabs
that refresh together do the same to each other. A slow logout answer clears the
token of a newer sign-in. A logout without network leaves the cookie alive, and
a tab of one account is handed the token of another through it (`crossed`). A
revocation beside a rotation misses the successor (`missed`). A late `/me` is
remembered for the next user. Entries of localStorage are keyed by path and not
by account (`strays`), and accepting an invitation clears none of them.

*Studio and designer.* A slow load of one combo fills the canvas under another,
and the save moves the template there. A list that arrives between the sending
of a save and its answer stays in the cache, and the reload of the save shows
it: the canvas goes back to the row before the save, and saving again stores
that (`held`, `late`). A logout, by the button or after a 401, and a `/me` that
changes the tab late unmount the designer, and the drawing is gone unasked
(`TakenAway`). A deleted start step leaves a start that no longer exists, which
only the server notices. The undo history survives a change of line.
`ContractWorkspace.jsx:468` calls `xinPhepRoiDi`, which is never imported. The
answer to an activation turns off the edit mode of whichever line is on the
screen. Two directors have no version check. Choosing a principal by role
(`updateAssignment`, 2674-2704) does not demote the former one, so that a step
may have two.

*Shell.* `/me` answering while a lazy screen loads leaves the active navigation
in place, and the later ones wait behind it until somebody changes the tab
(`App.jsx:214-226`, `upset`). A director in the employee workspace is switched
to management by a voucher's notification, and the voucher is dropped (454-463).
A save begun from the leave question goes on after a logout.

*Screens.* `NodeOutputList` goes on hiding a file the server refused to delete,
because its parent swallows the error (`EmployeeItemWorkspace` 323-347). Reloads
by timers and by server events are served from the cache. Two optimistic moves
restore each other's refused state (`CRM.jsx` 277-328). The settings screen
sends the closings of two funds at once; when one fails the other stays and the
form reports an error (`SettingsScreen.jsx` 260-325).

*Forms.* A payment or write-off dialog closed while it saves is answered into
another row's dialog (`DebtCollection.jsx` 225-263). The reasons of a pause, a
rollback and a cancellation are there again for the next row. The sensitive
action empties its reason even when refused. A late voucher number resets the
form (`PrintVoucherScreen.jsx` 365-385). A 409 loads the row again over what was
typed (legal submissions, tasks). A customer's detail loaded late and saved goes
to the row now selected (`CustomerDirectory` 128-165). After a change of
customer the composer keeps the former one's discount (547-551).

### Not modelled

* Task pool: limits on work in progress and the order of row locks over several
  instances. They only refuse claims, so `WorkflowRuntime` without them has more
  behaviours and not fewer; the limits themselves are the subject of a module of
  their own.
* Pay entitlements, help requests and the batch of verdicts: rows that hang on a
  step and change none of the statuses the properties are about, except by the
  verdicts modelled.
* The submission of the handover, the decisions on a checklist item and the
  reopening of the survey, as separate reads and writes: they decide on rows
  they have not locked, and are atomic in `WorkflowRuntime`.
* Document templates, slot requests, the dossiers' own life cycle: their effect
  on the workflow is modelled, their own rows are not.
* Master data, prices, user administration, schema: validation and arithmetic of
  single rows.
* Files, mail, chat, push messages, assistants, read models: input and output on
  which no decision rests.
* Of the front end: markup, charts, printing, the chat widget, help texts; of
  the designer the fields of a step and the layout; two loads of one screen that
  write the same rows.

### Plan

1. Done: the runtime, its graphs and its refinement; the payments and theirs;
   the front end; the theorems above.
2. `WorkflowRaces`: the other handlers that decide on unlocked rows, in read and
   write phases, against the locked ones. `ReviewBatch`: the batch of verdicts
   and its marker.
3. `TaskPool`: employees, several instances, limits, row locks and their order.
   `HelpRequest`, `PayEntitlement`, `TemplatePublishing`, slot requests.
4. The cache of `ReadCache`, with its ages, under `Screens` and
   `TemplateStudio`; relinked receipts and refunds in `ContractPayments`.
5. Proofs: `WorkInOrder` with a reopened survey, of the steps that are not
   behind it; the ledger of several contracts, with receipts that are relinked
   from one to another.
