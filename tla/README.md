# BH-DiC: formal models and proofs

BH-DiC is a Discord bot that prepares, approves and executes changes in DIC (Dipendenti in Cloud,
an external web application for HR) through a browser it drives. This directory holds TLA+ models of
its core, the TLC configurations that check them, and TLAPS proofs of what they show, for every value of the bounds. Paths
below are those of the repository; `bh_dic/` is `src/bh_dic/`.

## 1. Inventory

One bot process runs everything on one asyncio loop, over one SQLite database, one upload directory
tree and one browser context. Command-line tools (`bh-dic ...`: audit verification, retention purge)
run beside it as separate processes on the same database and directories.

| Component | State it keeps | Operations | Correct when |
|---|---|---|---|
| Approval service (`bh_dic/approvals`) | `pending_actions`, `approvals`, `action_executions` rows, a mutation lock per process | prepare, confirm, approve, reject, begin_execution, complete_success/failure, reconcile, expire_pending | two-person rule; one executor per action; a one-time code is used once; outcomes are final |
| Write execution (`bh_dic/application.py`, `services/dic_service.py`, `dic/playwright_adapter.py`) | global and per-target locks, the executor's reading of the target, what DIC has received | prepare write, approve-and-execute, dispatch, read back, reconcile | at most one click; what is recorded agrees with what happened as far as a read-back can tell; nothing is overwritten blindly; the kill switch stops what has not started |
| Upload quarantine (`bh_dic/files`) | `uploads` rows, four directories, in-memory digest claims | ingest, claim_clean_upload, reject, purge_expired | only scanned files leave; one usable copy per content; expired content goes away |
| Audit chain (`bh_dic/audit`) | `audit_events`, `audit_chain_state`, an append lock per process | append, verify | the chain is whole and append-only; damage shows; nothing else raises the alarm |
| Write preview and forms (`application.py` `_prepare_write`, `dic/pages/routes.py`) | the digests and values a preview was read with, stored roles; the page's rows and form | prepare, authorise again, compare again; find row, fill, save, confirm, verify | approvers decide on what the write finds; the requester may still do it; no other record changes |
| Browser runtime (`services/browser_runtime.py`) | bounded queue, workers, keyed lock, circuit breakers | run_read (retries), run_once, run_write, run_reconciliation, close | one operation on the page; nobody waits for ever on a full queue or at close; a probe is never forgotten |
| DIC session and reconnect (`dic/auth.py`, `tenant_attestation.py`, `session_vault.py`, `runtime.py`, `application.py`) | latches "submission outcome unknown" of coordinator and runtime, page route, captured company answers, encrypted vault | probe, login, reconnect, start-up probe, persist, restore | credentials are never submitted again after an unknown outcome; only sessions of the configured tenant count |
| Reads (`dic/pages/routes.py`, `dic/*_capture.py`, `services/dic_service.py`) | captured answers with marks, page and year controls | list pages, paginated resources, balances and payrolls of a year | nobody is missing, nothing is stale, nothing is somebody else's |
| Conversation context (`bh_dic/query/context.py`, `ask`) | candidates, question, person and menus per conversation, with time to live and LRU bound | ask, select, resolve, remember, expire | a follow-up means what its conversation was shown, recently |
| Onboarding drafts (`bh_dic/onboarding`) | drafts with their timers | create, fill in, finish, discard, expire | extracted personal data ends in time |
| Message flow (`discord/bot.py`, `security/rate_limit.py`, `model_usage`, `openai/client.py`) | sliding windows, public-answer slots, usage rows | admit, route, start/complete a provider call, footer | limits hold in every window; ledger and footer tell the truth |
| Audience of answers (`discord/commands.py`, `views.py`, `bot.py`) | deferral of an interaction, controls under answers | defer, send, edit, reply, restore | a sensitive answer is public only where the operator opted in |
| Build and close (`runtime.py`, `dic/browser.py`) | engine, browser, context, page, workers, clients | build_runtime stages, clean-up, close | nothing acquired stays open |
| Policy engine and catalog (`bh_dic/policies`) | feature flags, closed catalog | evaluate, enable/disable | roles are those of now; the kill switch wins |
| Mock adapter, exports, sanitization, configuration, CLI, operations | little or none | rendering, parsing, start-up | not protocol state |

How they interact: a Discord handler calls the coordinator in `application.py`. A write goes to
`ApprovalService.prepare`; the decision that completes the approval also executes the action in the
same call (`_execute_approved`): policy again, global lock, target fingerprint, `begin_execution`, upload claim,
`DicService.execute` (flags and expiry again), baseline, one click through the browser runtime,
read-back, and the outcome goes back to the approval service. Audit events are appended around it.

What is hard: calls interleave at every `await`; the database's transactions are shorter than the
calls, so decisions are taken on copies; the bot may die at any point, and nothing resumes an action;
DIC answers late, never, or applies a click after the time-out; people edit the same data in DIC; files move
and their metadata rows follow in a later step; a purge or a verification runs in another process.
`PROJECT.json` lists each hazard at its line, with the property that covers it or the plan for it.

## 2. Modules

| Module | What it is |
|---|---|
| `ApprovalCatalog` | constants of the closed catalog and the status alphabet, shared by all modules about writes |
| `ApprovalLifecycle` | abstract specification: the life of a pending action, one atomic step per decision |
| `Approvals` | `ApprovalService` over `SqlAlchemyApprovalRepository`, several processes; implements `ApprovalLifecycle` |
| `ApprovalsProofs` | TLAPS proofs about `Approvals` |
| `WriteExecution` | the approved-write path, composed with `ApprovalLifecycle` (`EXTENDS`): every change it makes to an action is a step of the lifecycle |
| `UploadStore` | upload quarantine: rows, directories and retention |
| `AuditChain` | the audit chain and its verification |
| `WritePreview` | what approvers decide on: preview between two digests, authority and digest again at execution |
| `RecordForms` | the click of `WriteExecution` seen closely: one record among others in a list that moves |
| `BrowserRuntime` | queue, workers, page lock, circuit breakers, retries and close, over asyncio's queue |
| `DicSession` | reconnects, login, probe, attestation, vault and restarts |
| `PagedRead` | the roster and the paginated resources, page by page, from overheard answers |
| `YearRead` | balances and payrolls of one year, from overheard answers |
| `Conversation` | the conversation context and the part of `ask` that leans on it |
| `OnboardingDrafts` | the draft store with its timers |
| `MessageFlow` | a message from the limiters to the token footer, with the usage ledger |
| `ReplyAudience` | who sees an answer on Discord |
| `RuntimeLifecycle` | building and closing the application |
| `MCApprovals`, `MCWriteExecution`, `MCUploadStore`, `MCAuditChain`, `MCParts` | instances for TLC |
| `Subsequences` | some elements of a sequence in its order (`Kept`), and the rank and the ascending order of a set of numbers |
| `WriteExecutionProofs`, `UploadStoreProofs`, `AuditChainProofs` | TLAPS proofs about the module of that name |
| `RuntimeProofs` | TLAPS proofs about `BrowserRuntime`, `DicSession` and `RuntimeLifecycle` |
| `DiscordProofs` | TLAPS proofs about `ReplyAudience`, `MessageFlow`, `OnboardingDrafts` and `Conversation` |
| `SubsequenceProofs` | lemmas about `Subsequences`, `Append` and `Tail`, cited by the modules of proofs that follow sequences |
| `RecordProofs` | TLAPS proofs about `PagedRead`, `YearRead`, `WritePreview` and `RecordForms`, and the types of all parts of `MCParts` |

Composition: `Approvals` is shown to implement `ApprovalLifecycle` (by TLC and by proof), and
`WriteExecution` is built on the lifecycle. It may therefore treat a call of the approval service
as one step. Definitions whose comment begins with `fault:` are faulty variants used to see that
a property can fail; no specification uses them.

### Approvals

A call has four program counters: `waiting` (for `_mutation_lock`), then, after `Read` has copied
the row and evaluated the guards, `claim` (only `begin_execution`, whose `claim_idempotency` commits a
transaction of its own) and `write` (`storage.replace`: compare-and-swap on `version`,
`_sync_decisions`, `_sync_execution`). `row` is `pending_actions` with its approval rows, `execution`
is `action_executions`. `DatabaseError` rolls back the transaction at hand and the call raises;
`Crash` ends every call of a process. `Outcome` is the table of statuses each operation writes.
Input checks on data (code digest, normalised reason, fingerprint, postcondition) are one Boolean,
`good`. The services are processes sharing a database: the product is deployed with one, and
two is the more general case the version guard is written for. `prepare` takes no lock in the code
and none here. The idempotency key is random and unique, so it is identified with its action.

### WriteExecution

`phase[a]` is where the executor of action `a` stands; its values name the steps of
`_execute_write_critical_section` and `execute_prepared`. The abstract data: a target has one value, all that its page
shows, and `Wanted[a]` are the values with which the postcondition of `a` holds. People edit a target to any value at any time,
also to one that an action wants, and two actions may want the same; no read-back can tell who did it, in the code either.
`clicks` counts submissions of the remote form; `effect` is DIC's side of a click: in flight, applied, dropped.
Two history variables, read by no action, record what the environment did: `foreign` has the actions in whose target somebody else
put a wanted value after the baseline was read (or before, where none is read), `disturbed` those whose target was changed between fingerprint and
click by an edit or by a click that outlived its executor. `SuccessHasACause` and `NoBlindOverwrite` excuse exactly these two, and nothing else.
The per-target lock is left out because it is only taken inside the global lock. The
preview read and the insert of the row are one step. The kill switch is one-way: `set_runtime` is the switch that
`docs/SECURITY_ARCHITECTURE.md` (line 91) describes and has no caller in the program yet, so `KillSwitchStops` is about the gates it would meet, not
about a race of today. An operator's restart is `Crash`. Cancelling one executor's task is covered by
`Crash`. Only `_persist_uncertain_and_reconcile` ever resolves UNKNOWN, and nothing resolves an action
left EXECUTING by a crash (`InterruptedStaysOpen`).

### UploadStore

`row` is the metadata with its `version`, `place` where the bytes lie. Every file move and the row update after
it are separate steps, in the bot and in the purge process; `Crash` forgets
the in-memory digest claims. `claim_sha256` is one step because only the bot ingests. `claim_clean_upload` ends in two steps, since its second
verification runs in a thread: `OpenProcessed` opens the file in the directory the updated row names, `HandOut` has hashed it and returns its path.
`resolve_clean_upload` changes no state. MIME detection and the scanner are nondeterministic
verdicts. Assumptions: an ingest ends well before its retention deadline (`Elapse` only
concerns ended ingests), and one purge runs at a time.

### AuditChain

`append` reads the chain state outside a transaction (SQLite starts one at the INSERT) and commits
event and state together; a taken sequence is a primary-key conflict. `verify` reads the two tables
with two SELECTs. A hash is modelled as the history it authenticates, so a changed row cannot carry a
right hash. `PowerLoss` removes a suffix of the committed transactions (`synchronous=NORMAL` under WAL).
`Damage` is one change of the stored rows of the kinds `docs/AUDIT.md` says are detected (a modified, a
deleted, or two exchanged rows), or the loss of the state row, between appends.

### WritePreview and RecordForms

They look closer at two ends of `WriteExecution`, which takes the preview as one step and the click as
one. `WritePreview`: `_target_snapshot` reads a digest, the values the preview shows, and a digest again;
an unequal pair is refused while preparing and `UNSTABLE` while executing. The roles
stored with the write are replaced by those `resolve_requester` fetches from Discord, where a bot is
connected. A digest may be of a page that does not show its whole list yet (`whole`), so two equal
digests do not prove that everything was seen. The kinds modelled are edits and deletions; of a creation
there is no earlier value to show. `RecordForms`: a row is a position; the list may be shown again at any time, and
a click hits what stands at the position then; `confirm_if_present` reads the identity in the dialog.
`glimpsed` marks a list that was read while it was still being shown: the read-backs of contracts, maturations
and documents do not wait for hydration, so a row that was there before may look new.

### BrowserRuntime

`queue`, `putters` and `woken` are asyncio's queue: a submitter waits for room, is woken in order, and
may find the room taken. `unfinished` is the count `join` waits for. A worker is idle, waits for the
page lock, stands before the circuit breaker, runs, or sleeps between two attempts. A cancelled caller leaves
its operation in the queue or running. `close` joins, puts one sentinel per worker and gathers them.

### DicSession

`request` has the reconnects of administrators and the one of start-up; the coordinator's lock and latch
lie above the runtime's. `page` is the operation that runs on the page: a probe (open a blank document,
listen for the company response, navigate, attest) or the login (entry, e-mail, account binding, secret, submission,
completion). It goes on when its caller is cancelled. `late` is a company response of the previous
document; `blind` becomes true when credentials are submitted although an earlier submission is
unresolved. A restart forgets latches and page; the session survives if the vault has it and it has not expired.

### PagedRead and YearRead

Both overhear answers. `marked` and `mark` are the sequence numbers taken before the request that should be answered.
`PagedRead` has the roster (every page driven through the list's controls) and the resources
(first page overheard, others fetched). `YearRead` has balances and payrolls: the year control, its
steps, the counters, and the older layout of the page, which is read without an answer. `late`
answers may come at any time, out of order, until their document is gone. Each read of `PagedRead`
keeps who was there all the time (`stayed`), at any time (`ever`), and what changed.

### Conversation, OnboardingDrafts, MessageFlow

`Conversation` has the four ordered maps of `ConversationContextStore` and the requests between two of
their awaits; every operation purges what has expired. What parser and provider make of a text is
free. `OnboardingDrafts` has the draft store, its timers and the requests that read documents or fill in forms.
It assumes that time does not pass a deadline before its timer fires: `call_later` runs on the loop
that also runs every reader of the store. `MessageFlow` has, per message, the limiter check, the routing call, the
public answer with its slot, and the footer; `ledger` is the usage rows, `heard` what came back.

### ReplyAudience, RuntimeLifecycle

`ReplyAudience`: an answer is its kind and who sees it. Of Discord it assumes that the first follow-up
of an interaction takes the place and the audience of the deferred answer. `RuntimeLifecycle`:
the stages of `build_runtime` with what each has acquired when it fails, the clean-up that belongs
to it, and `close`; every release may fail.

### MCParts

`BrowserRuntime` to `RuntimeLifecycle` and `WritePreview`, eleven parts, share one module and one run: `part` says which
of them works, the others stay as constructed. This is not a composition and nothing is claimed of one. What joins them in
the code is narrow: every operation on DIC is one call of the browser runtime, whose guarantee (the page
is exclusive, a write starts once) is what `DicSession`, `PagedRead`, `YearRead` and `RecordForms` assume
by having one operation at a time.

## 3. Runs

| Run | Question | Bounds |
|---|---|---|
| `approvals_two_services` | Do two processes deciding on one action keep the two-person rule, the one-time code, the single claim, and the lifecycle? | 1 action needing 2 approvals, 3 users (all eligible, the requester too), 1 call in each of 2 services, one clock tick |
| `approvals_expiry_loop` | Does the loop of `expire_pending` over several rows, cut short anywhere, stay on the lifecycle? | 2 actions (2 approvals; none), 2 users, 1 call |
| `approvals_claim_atomic` | violation: the claim and the EXECUTING status are two transactions | as the first |
| `write_faults` | One click at most, nothing called not executed that was, no success without a cause, nothing overwritten blindly, kill switch, nothing interrupted is settled, with every failure | 2 actions that want the same one of the 2 values of one target: an upload, and an unbaselined one; only codes |
| `write_progress` | Does every executor end and resolve its action? | 2 actions, an upload with an approver and an export with only a code; no crashes, no store failures |
| `write_outcome_stored` | violation: a failing store lets the critical section end with EXECUTING | as `write_faults`, the upload with an approver; no crashes |
| `uploads_faults` | Do files and rows stay together enough, whatever fails between a move and its update? | 2 uploads of the same content, one purge, scanner optional |
| `uploads_deleted_erased` | violation: DELETED is recorded while the bytes lie in another directory | the same, crashes only |
| `audit_chain` | Is the chain whole, append-only and honest about damage? | 2 processes, 2 bodies, 4 events, one loss of power, one damage |
| `audit_false_alarm` | violation: a verification beside an append fails on an undamaged chain | 2 processes, 3 events |
| `parts` | Eleven questions, one for each part, below | 1.3 million states in all |
| `messages_footer` | violation: the reply says that no AI call was made after one was | the messages of `parts` |

The parts of `parts`:

| Part | Question | Bounds |
|---|---|---|
| runtime | One operation on the page, a write once, every probe owned, every call ends | 2 reads and a write, or a read and a reconciliation; 2 workers, 1 place in the queue, 2 attempts, threshold 2 |
| session | Never submitted blindly, only verified sessions, the secret only on its form | 2 administrators and start-up, 1 restart |
| reading, years | Nothing missed, nothing stale, nobody else's (`ReadsAreTrue`) | 4 entries in pages of 2, 2 reads, 2 edits, 1 spontaneous refresh; 2 employees, 3 years, 2 reads |
| conversation | A follow-up stands on what its conversation was shown recently (`ContextIsHonoured`) | 2 conversations, 2 people, 3 requests, 2 at once; time to live 2, clock to 2 |
| onboarding | Extracted data ends in time | 2 requesters, 2 drafts, up to 2 forms each, time to live 2 of 4 hours |
| messages | Limits hold in every window; ledger and footer are truthful | 3 messages of 2 users, one by direct message; limits 1, window 2, 1 slot |
| preview, forms | The write is the write that was approved (`WritesAreAsApproved`) | 2 other values, 2 edits, 2 changes of roles; 2 records, 2 edits |
| replies | Who sees a sensitive answer | 2 interactions in a row, every setting |
| lifecycle | Nothing acquired is left | mock or live, with or without sign-in and responder |

The properties by name (the type invariants `TypeOK`, `ExecutionTypeOK`, `UploadTypeOK`, `AuditTypeOK` and `PartsTypeOK` apart; each is defined in its module with a comment on the code it is about):

| Module | Property | In words |
|---|---|---|
| `Approvals` | `FourEyes`, `StatusMatchesDecisions` | approved means confirmed and approved by enough distinct others; no decision is lost |
| | `ClaimExclusive`, `CodeConsumedOnce` | one execution claim at a time; the code works once |
| | `SpentClaimIsNeverRun` | a claim whose call is gone is never taken over, and its action never counts as executed |
| | `ImplementsLifecycle` | every step is a step of `ApprovalLifecycle` or a stutter |
| | `ClaimIsAtomic` (violated) | a claim without a call behind it is an execution |
| `WriteExecution` | `AtMostOneDispatch`, `NotExecutedMeansNoEffect` | one click, and nothing is called not executed that was or will be |
| | `SuccessHasACause` | SUCCEEDED was applied, or somebody else brought the same about after the baseline |
| | `NoBlindOverwrite`, `KillSwitchStops` | a click replaces what its preview showed, unless somebody changed it after the fingerprint was read; no write passes a closed gate |
| | `InterruptedStaysOpen` | an action whose executor died while it was EXECUTING is neither started again nor given an outcome |
| | `ExecutorsFinish` | every executor ends, no action stays EXECUTING |
| | `OutcomeStoredBeforeRelease` (violated) | the lock is released with an outcome stored |
| `UploadStore` | `OneLiveCopyPerDigest`, `OnlyVettedDelivered` (with `RejectedStaysAway`), `OpenedWhileRecorded` | no duplicates, nothing unvetted is handed out, a claim opens what its row says; rejects leave for good |
| | `ExpiredIsDeleted` | retention ends, under fair purges |
| | `DeletedMeansErased` (violated) | DELETED has no bytes on the disk |
| `AuditChain` | `ChainIntact`, `AppendOnly` | the chain verifies, and events stay |
| | `DamageShows`, `AlarmMeansDamage`, `NoFalseAlarm` (violated) | when a verification fails, and why |
| parts | `PageIsExclusive`, `ProbeOwned`, `EveryCallEnds` | browser runtime: one operation, no orphaned probe, nobody waits for ever |
| | `CredentialsAreGuarded` (`NeverSubmittedBlindly` and `SecretOnTrustedForm`), `OnlyVerifiedSessions` | session: credentials and stored states |
| | `ReadsAreTrue`, `ContextIsHonoured`, `DraftsEndInTime` | reads, conversations, onboarding drafts |
| | `NoFlood`, `UsageIsTruthful`, `FooterIsTrue` (violated) | limits, usage ledger, the reply's footer |
| | `WritesAreAsApproved`, `AudienceIsRight`, `NothingIsLeft` | previews and forms, who sees a reply, the end of the runtime |

Why the bounds are enough. A race in the approval service is between a copy and the row it
came from: two calls are one more than needed to make a copy stale, three users are the requester
and two distinct approvers, and what holds here is proved for any number (section 5). The writes
compete for one target and one lock, which two actions already do in every order; a third would only
repeat the roles. Two values are the one a preview showed and the one both actions want, so that either may take the other's change, or an edit, for its own; more values are left to the proofs. In `parts` each race is between one reader and one thing it read: two records, two
years' answers, two menus, two drafts suffice to confuse them, and every bound lets the queue,
the window, the store or the breaker be full, be exactly at its edge and be past it. In the upload store a race is between an ingest or delivery and the purge, or between two
ingests of one content. Four audit events let a row be first, inner and last with appends after
the damage. Deadlock is not checked: each system legitimately comes to rest when all actions have
ended, the clock has reached its bound, or no upload is left.

What the violations show (they are disagreements between the code and its own comments or documents;
`PROJECT.json` quotes the lines; for each, a theorem of section 5 says how far it reaches):
- `begin_execution` is documented as an atomic claim. A failure between its two transactions leaves
  an APPROVED action that can never run: every retry finds the claim taken.
- The critical section is documented to end only after an outcome is stored. When `complete_failure`
  itself fails, it ends with EXECUTING, and nothing in the program picks the action up again.
- The purge is documented to delete expired artifacts and keep only metadata. After a crash between a
  move and its row update it looks in the old directory, deletes nothing and records DELETED. The same happens without any
  crash when a purge runs between the move of a claim and its row update.
- The README promises token counters with an explicit state for missing or uncertain values. A message
  that reaches the public answer through a routing call and is then rejected locally is told that
  no AI call was made.
- A failed verification is documented as a security incident. One that runs beside the bot can fail
  because an append committed between its two SELECTs.

## 4. Fairness

Only liveness properties use it.
- `FairExecutionSpec`: weak fairness of each executor. asyncio runs every ready task; reads and clicks
  are bounded by `wait_for` in the browser runtime and database calls are assumed to return.
  No fairness for DIC, for people, or for the lock queue: since each executor ends, a
  waiting one sees the lock free, and with two executors weak fairness suffices.
- `FairSpec` of `UploadStore`: `docs/FILE_HANDLING.md` has a scheduled purge job, so a purge is started
  as long as there is something to do (weak fairness); its steps have strong fairness, because runs that
  are killed or fail do not do so for ever at the same upload. The bot has none: it may never move again.
- `BrowserFairness`: weak fairness of each worker and of the resumption of submitters and of `close`, which the loop gives every
  ready task; an operation ends because `run_read` and its siblings wrap it in a time-out.
  No fairness for callers: nobody needs to submit, cancel or close.

## 5. Proofs

Every safety property a run checks is proved unless it is listed at the end of this section. Each module of proofs states an inductive
invariant, shows that it holds initially and that each action preserves it (one lemma per action or group of actions), and
draws the properties from it. TLC checked each invariant on the runs' instances before it was proved.

### The approval service

`ApprovalsProofs`, for any actions, users, services, calls, catalog, TTL and clock bound, from
the assumptions named in the modules (`CatalogAssumption`, `ServiceAssumption`: types of the constants,
"nobody" is no user, "free" is no call).

| Theorem | Statement |
|---|---|
| `InvariantHolds` | `Spec => []IInv` |
| `TypeCorrect` | `Spec => []TypeOK` |
| `TwoPersonRule` | `Spec => []FourEyes` |
| `OneExecutor` | `Spec => []ClaimExclusive` |
| `OneTimeCode` | `Spec => CodeConsumedOnce` |
| `RefinesLifecycle` | `Spec => ImplementsLifecycle` |
| `DecisionsKept` | `Spec => []StatusMatchesDecisions` |
| `SpentClaimsStaySpent` | `Spec => SpentClaimIsNeverRun` |
| `ClaimsAreAtomicInOneProcess` | in one process, `CompleteSpec => []ClaimIsAtomic` |

The argument. None of the properties is inductive: what a call writes was decided on a copy, so nothing about
the current row follows from the step alone. `IInv` adds what is missing:
- `SnapInv`: a copy is never newer than its row; a copy with the row's version *is* the row; and a copy
  passed the checks of its operation (`Justified`). With the compare-and-swap, every write becomes a decision about the current row.
- `RowInv`: approvals are finite sets of eligible people other than the requester, and an absent row is empty.
- `TargetInv`: every operation but the expiry loop works on one action, so a claim and the write after it
  concern the same action.
- `ClaimInv`: a status of execution implies a claim, and whoever holds a claim sees it as CLAIMED, which makes it exclusive.

`NextIInv` has one lemma per action; `WriteIInv` is the large one. `RefinesLifecycle` uses the same
invariant: `WriteIsCurrent` says that a write replaces the very row it was decided on, and
`WriteImplementsStep` maps it to the lifecycle step of its operation; every other step is a
stutter. `DecisionsKept` needs one more conjunct, strengthened over the same invariant.

The last two are about the finding of `approvals_claim_atomic`. `SpentClaimsStaySpent` says that its consequence is safe: such an action
is lost, not run twice; it rests on `ClaimedNeverRan` (a claim that is not yet an execution belongs to an action that never ran).
`ClaimsAreAtomicInOneProcess` says what it takes: `CompleteSpec` is `Spec` without `DatabaseError` and `Crash`, and with one
process a call that has decided holds the lock and its copies are the rows (`CurrentInv`), so the write after a claim cannot fail.
TLC finds the claim alone again with a second process, a failing transaction or a crash.

### The write path

`WriteExecutionProofs`, for any actions, users, targets, catalog and choice of faults, from `ExecutionAssumption`
and `CatalogAssumption` (types of the constants).

| Theorem | Statement |
|---|---|
| `WriteInvariantHolds` | `ExecutionSpec => []WriteInv` |
| `ExecutionTypeCorrect` | `ExecutionSpec => []ExecutionTypeOK` |
| `OneDispatch` | `ExecutionSpec => []AtMostOneDispatch` |
| `NotExecutedIsTrue` | `ExecutionSpec => []NotExecutedMeansNoEffect` |
| `SuccessIsCaused` | `ExecutionSpec => []SuccessHasACause` |
| `NothingOverwrittenBlindly` | `ExecutionSpec => NoBlindOverwrite` |
| `KillSwitchHolds` | `ExecutionSpec => KillSwitchStops` |
| `OutcomeStoredWithoutFaults` | without store failures and crashes, `ExecutionSpec => OutcomeStoredBeforeRelease` |
| `InterruptedIsNotSettled` | `ExecutionSpec => InterruptedStaysOpen` |
| `ExecutionRefinesLifecycle` | `ExecutionSpec => LifecycleSpec` |
| `NoClickWithoutApproval` | `ExecutionSpec => []ClickedMeansAuthorised` |

The argument: `phase`, where an executor stands, determines what the store says of its action (`PhaseInv`) and
whether the form was submitted (`ClickInv`); `LockInv` keeps every other executor out of the section
between fingerprint and outcome, so the value compared is the value overwritten (`FingerprintInv`) unless somebody edited
DIC in between or a click of an ended executor arrived. Once the baseline is read, a wanted value comes from the action's own click, from somebody
else, or was in the baseline already (`SourceInv`); a read-back that also finds the baseline left excludes the last. So somebody else's
identical change is the only way to a recorded success besides the action's own click, and the code cannot exclude it (section 6). `KillSwitchStops` follows from
`Stopped(a)`, which once true stays true. `OutcomeStoredWithoutFaults` narrows the finding of
`write_outcome_stored`: a failing store or a crash is the only way into it, and what then stays EXECUTING stays so, without another click (`InterruptedIsNotSettled`). `ClickedMeansAuthorised`
(`WriteExecutionProofs`) is the promise of the whole: no form is submitted that the requester did not
confirm or that too few eligible people, or the requester, approved. It follows from `DecisionInv` on the lifecycle's variables.

### The upload store

`UploadStoreProofs`, for any uploads, contents, failures and crashes, from `UploadAssumption`.

| Theorem | Statement |
|---|---|
| `UploadInvariantHolds` | `Spec => []UploadInv` |
| `UploadTypeCorrect` | `Spec => []UploadTypeOK` |
| `OneUsableCopy` | `Spec => []OneLiveCopyPerDigest` |
| `OnlyVettedHandedOut` | `Spec => []OnlyVettedDelivered` |
| `OpenedAsRecorded` | `Spec => OpenedWhileRecorded` |
| `ErasedWithoutFaults` | without failures and crashes, `Spec /\ ClaimUndisturbed => []DeletedMeansErased` |

The argument: a running ingest owns its row and its bytes (`Stage`, one line per step of `ingest`); the owner of a digest claim is the only
upload of that content that is or becomes usable (`ClaimInv`). Delivery and purge work on copies that are
never newer than the row and equal to it at its version (`Copies`); a purge about to record DELETED has emptied the
directory its copy names, or its copy is old and the compare-and-swap fails (`PurgeInv`), and a delivery that the
purge overtook has no bytes to open (`DeliveryInv`). Nothing holds the row between the opening and the hand-out, and nothing is claimed of it (section 6).

`ErasedWithoutFaults` narrows the finding of `uploads_deleted_erased`. While nothing fails or dies, the bytes of a finished
upload lie where its row says or nowhere, but for the file a claim has moved and not yet recorded (`PlacedInv`). So
besides a failure and a crash there is one way into the finding: a purge that records the deletion between those two steps, which
`ClaimUndisturbed` excludes.

### The audit chain

`AuditChainProofs`, for any processes, bodies, bounds on events and losses of power, from
`AuditAssumption` (types of the bounds):

| Theorem | Statement |
|---|---|
| `ChainInvariantHolds` | `Spec => []ChainInv` |
| `ChainStaysIntact` | `Spec => []ChainIntact` |
| `CommittedEventsStay` | `Spec => AppendOnly` |
| `NoAlarmWithoutCause` | `Spec => []AlarmMeansDamage` |
| `AuditTypesHold`, `AuditTypeCorrect` | `Spec => []TypesInv`, `Spec => []AuditTypeOK` |
| `DamageAlwaysShows` | `Spec => []DamageShows` |

The argument: `Whole` says pointwise what `verify_events` checks (`WholeVerified`); `CopiesInv` says that a
copy of the chain state is behind the state or equal to it. A copy that is behind names a sequence
that is taken, so an append that commits held the current state (`CommitHoldsState`) and links its event to the last one;
a prefix of a whole chain is whole (`PrefixWhole`), which is the loss of power. `VerifierInv` ties
what an unovertaken verification read to the tables of now. Damage leaves one of three traces
(`DamageInv`, `DamageLeavesTrace`): a row that is not authentic at its place, a gap behind every copy, or a lost chain state
over events that are there. No append covers any of them (`TraceStays`), and `verify_events` fails on each (`TraceShows`).

### Browser runtime, session and lifecycle

`RuntimeProofs`, for any calls, workers, queue, breakers and retries, any administrators and
restarts, and any part that fails, from `BrowserAssumption` and `SessionAssumption`. `BrowserSpec`, `SessionSpec` and `LifecycleSpec`
are parts of `PartsSpec`, the first with any set of expected calls.

| Theorem | Statement |
|---|---|
| `BrowserInvariantHolds` | `BrowserSpec => []BrowserInv` |
| `OneOperationOnPage` | `BrowserSpec => []PageIsExclusive` |
| `ProbeIsOwned` | `BrowserSpec => []ProbeOwned` |
| `JoinCountsWhatIsLeft` | `BrowserSpec => [](unfinished = Len(queue) + Cardinality(UnderWay))` |
| `SessionInvariantHolds` | `SessionSpec => []SessionInv` |
| `CredentialsStayGuarded` | `SessionSpec => []CredentialsAreGuarded` |
| `OnlyVerifiedStored` | `SessionSpec => []OnlyVerifiedSessions` |
| `LifecycleInvariantHolds` | `LifecycleSpec => []LifecycleInv` |
| `NothingIsForgotten` | `LifecycleSpec => []NothingIsLeft` |

The argument for the runtime: only the holder of the page lock is beyond its acquisition; a call enters the queue
once and is then one worker's own (`QueueInv`, `WorkerInv`), which counts its attempts. Nothing is assumed of
asyncio's order of putters: whoever is woken, a submitter that has put its call does not put it again.
`AccountInv` adds what `close` waits for: the count of `Queue.join` is of the calls and sentinels that are queued or that a worker
has taken and not yet reported done (`UnderWay`), so `join` waits as long as there is one.
For the session: beyond its first look a reconnect holds the runtime's lock, and from the decision to log in it relies on
an open latch (`EntranceInv`); the latch closes before the lock is given up without an outcome, and a login whose
caller was cancelled goes on behind the closed latch (`LoginInv`, `UnresolvedInv`).
For the lifecycle: before each stage of a build no more is held than the cleanup of that stage releases, but for what
`Forgotten` names (`MayHold`, `BuildInv`); while a release is under way, what is still held is to be released, was tried and failed, or is
forgotten (`ReleaseInv`); and the browser is open until its adapter is closed.

### Discord

`DiscordProofs`, for any messages, authors, limits, slots, talks, drafts, time-outs, conversations and requests, from
`TalksAssumption`, `FlowAssumption`, `OnboardingAssumption` and `ConversationAssumption`.

| Theorem | Statement |
|---|---|
| `AudienceInvariantHolds` | `AudienceSpec => []AudienceInv` |
| `AnswersReachTheirAudience` | `AudienceSpec => []AudienceIsRight` |
| `UsageInvariantHolds` | `FlowSpec => []UsageInv` |
| `LedgerIsTruthful` | `FlowSpec => []UsageIsTruthful` |
| `FooterWrongForRefusedOnly` | `FlowSpec => []ZeroMissesRoutingOnly` |
| `PublicAnswersBounded` | `FlowSpec => [](Cardinality(OnPublicHr) <= Slots)` |
| `NoFloodPasses` | `FlowSpec => []NoFlood` |
| `PersonalDataExpires` | `OnboardingSpec => []DraftsEndInTime` |
| `DraftsAreBounded` | `OnboardingSpec => []OnboardingTypeOK` |
| `FollowUpsHonourTheirContext` | `ConversationSpec => []ContextIsHonoured` |

The argument: when a result is about to be sent, the deferral it takes the place of is public only where publishing was
allowed, and no longer private under an aggregate (`DeferralInv`, `ChannelInv`). A ledger row is STARTED exactly while its call is
under way or was abandoned, so what came back cannot change under a completed row (`MessageInv`). `FooterIsTrue`, the finding, is
refuted by TLC; `FooterWrongForRefusedOnly` says for which messages it fails: told that no AI call was made, a message
had no answer from the public answer's call, and none from the routing call unless its question was refused after routing (`ZeroInv`). The limiter forgets a time only when it can no longer matter: as many times are counted
in its buckets as messages have passed, in the window that ends now and in every later one (`LimiterInv`, over `KeptCount`).
A draft's timer stays as long as the draft does, and time does not pass a timer that is due (`Timed`, `DraftInv`); what an operation
leaves of the store before it adds a draft is shorter than its bound, or the oldest goes, and names no draft twice (`StoreInv`, over `KeptPlaces`). The context store
holds only what some menu has shown, or an action taken since put there (`ContextInv`); a request's copy of it was `Faithful` when it was
made, and what a request decided rests on that copy (`RequestInv`); each map but that of the menus has one entry per conversation, and the menus are at most `max_conversations` (`BoundsInv`).

### Reads, previews and forms

`RecordProofs`, for any collection, page size, edits, refreshes, reads, employees and years, and any records, edits, roles and
looks, from `PagedAssumption`, `YearAssumption`, `PreviewAssumption` and `FormsAssumption` (types of the bounds; entries
and records are finite sets of numbers, the years an interval).

| Theorem | Statement |
|---|---|
| `PagedInvariantHolds`, `YearInvariantHolds` | `PagedSpec => []PagedInv`, `YearSpec => []YearInv` |
| `PreviewInvariantHolds`, `FormsInvariantHolds` | `PreviewSpec => []PreviewInv`, `FormsSpec => []FormsInv` |
| `ReadsAreRight` | `PartsSpec => []ReadsAreTrue` |
| `WritesAreRight` | `PartsSpec => []WritesAreAsApproved` |
| `PartsAreTyped` | `PartsSpec => []PartsTypeOK` |

The argument. *Pages.* Whatever DIC answered was some set it showed then (`AnswersInv`), and what is gathered has such a source: the set shown
when the first page was answered (`SourceIs`). Since then the shown set has only shrunk if nobody joined, and only grown if
nobody left. In the first case a later page is a part of the source anyway; in the second it is if the total is the same, since then the sets are
(`Belongs`, `NewAnswer`). So unless entries left and joined, what is gathered without repetition lies in the source, and when it is as many
as the total it is the source (`ReturnedIsWhole`). That a roster's document is opened without anything of the previous one
(`PlaceInv`) makes it fresh (`EverInv`). That a page of sorted entries has distinct entries and no others rests on `Ranks` (`SubsequenceProofs`): the rank of an
element of a finite set of numbers counts it. *Years.* What was heard before the year was selected is up to the mark; what is
heard later answers this document (`YearQueueInv`). *Preview.* `PreviewReadInv` counts the edits during the preview: after one, the second digest differs;
`AuthorityInv` follows the requester's right since the last decision. *Forms.* What DIC has that it had not at the baseline was written
since (`SinceInv`), what a loaded list shows is there (`ListedRows`, `LoadedRows`), and a confirmation is sent only with
the target's form open (`ClickInv`). *Types.* `PartsAreTyped` collects the invariants of all three modules of proofs (`TypesInv`), with the bounds of
the listener's queue (`HeardInv`), of the edits and changes (`EditsInv`), the records a form names (`TargetsInv`) and the years the selection
passes through (`YearPlacesInv`); from `PartsAssumption`, that the run's calls are calls, besides those of the parts.

### Only model-checked

- All liveness (`ExecutorsFinish`, `ExpiredIsDeleted`, `EveryCallEnds`): fairness and ENABLED are out of reach of the prover.
- The five findings, which are counterexamples. What they need is proved: a second process, a failure or a crash for `ClaimIsAtomic`
  (`ClaimsAreAtomicInOneProcess`), a failing store or a crash for `OutcomeStoredBeforeRelease` (`OutcomeStoredWithoutFaults`), a failure, a crash or a purge in the middle of a claim for `DeletedMeansErased` (`ErasedWithoutFaults`), a
  question refused after routing for `FooterIsTrue` (`FooterWrongForRefusedOnly`), and an append between the two reads for
  `NoFalseAlarm` (`NoAlarmWithoutCause`).

## 6. Not modelled, and the plan

Left out for good: rendering, natural-language parsing and redaction, exports, the decoding of DIC's
documents, OCR, cryptography, settings, logging and shell wrappers. They keep no protocol state, or only in
an external system. The mock adapter is a test double. Left out so far: query plans of several steps
(`_execute_query_plan`, the dossier, the workforce table), which read with the operations modelled and keep nothing between
them; the reads of summary, roles and notifications; the previews of creations and exports; the audit events of the write path.

What the models show besides the findings, without a sentence of the repository that says otherwise,
or with one that is only approximately wrong; it is stated in the modules as part of a property
or of a definition:
- An employee who leaves and another who joins between two pages keep the total: a list may then be incomplete without
  any error (`NothingIsMissed` excuses exactly this).
- The latches of the runtime stay set until a status read finds the session or the process restarts; an
  outcome "captcha" or "second factor" sets no latch, so start-up may submit again.
- A bare name answers a pending question although a menu was used in between, and it is looked for
  among the people of the older list only; an older request that ends may clear a newer question;
  `activate_selection_context` may keep more conversations than `max_conversations`.
- A submitter that waits for room when `close` begins may stay behind the sentinels.
- A read of the shown year accepts a late answer of the previous document if employee and year fit, and the older
  layout labels its rows with the year asked for. Payrolls of one page are read without comparing the total.
- A click that was not submitted in time, or was lost, is taken for applied when somebody else has made the same change since the
  baseline, and the action is recorded SUCCEEDED: no read-back can tell (`SuccessHasACause` excuses exactly this).
- A build that fails while signing in leaves the adapter's workers, because the clean-up is called without the adapter although its
  docstring (`runtime.py`, line 107) speaks of every boundary acquired; one that fails in its settings leaves the engine, before any
  clean-up is called (`Forgotten` in `RuntimeLifecycle` names both); the browser's `close` stops at its first part that fails.
- A purge during the last hash of a claim unlinks the open file and records DELETED; the path is returned all the same. The
  adapter opens the file once more before it uploads it (`_load_verified_upload`) and fails.
- A menu under a private answer publishes its result where the operator opted in to publishing; only the
  approval buttons look at the message they stand under (`_component_may_publish`).
- The requester's roles are read before the executor waits for the global lock: a role revoked during the
  wait is not seen. A denied execution leaves the action APPROVED until it expires.
- A target that changes and changes back while its preview is read is not noticed; a preview of the value
  in between is possible (`moved < 2` in `PreviewIsTrue`).
- Two creations at once, or a list read while it is being shown, can make a read-back take another new row for its own
  (`glimpsed`). The step limit of the custom year control (50) is not modelled: a read that needs more fails.
- A failed audit between ingest and claim leaves a CLEAN upload until retention takes it; after a purge the in-memory digest claim
  refuses the same document as a duplicate until the bot restarts.

Next, as models: the audit events of the write path as a composition of `WriteExecution` and `AuditChain`.
