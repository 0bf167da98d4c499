# A formal model of the Junior Lawyer backend

This directory holds TLA+ modules translated from the Python services under
`apps/api/app/services` (paths below are relative to the repository), the TLC
configurations that check them on small instances, and TLAPS proofs of what
matters most for every instance. `PROJECT.json` is the index: components, runs,
the source lines behind every definition (`map`), one plausible bug per property
(`mutants`), hazards, findings and theorems.

    tlc -workers 4 -config finance.cfg MCClientMoney.tla     # a run
    tlapm FinanceProofs.tla                                  # the proofs of a module

## 1. The system

A FastAPI backend over PostgreSQL (250 tables), a web frontend, and two kinds of
long-running processes: background workers (`scripts/run_worker.py`) and a
maintenance scheduler (`scripts/run_maintenance_scheduler.py`). Nearly all
behaviour is "load rows, check, change rows, append an audit entry, commit" in
async SQLAlchemy. Four facts of `app/db/session.py:27-32` and of PostgreSQL make
that hard, and every module is built on them:

* READ COMMITTED isolation, and no row lock unless the code says `FOR UPDATE`:
  what a request checked may have changed when it commits.
* The ORM writes absolute values of the columns the session changed
  (`amount_paid = <loaded> + 5`, not `amount_paid + 5`): updates can be lost, and
  a column whose new value equals the loaded one is not written at all.
* `expire_on_commit=False`: a session goes on using what it read before a commit,
  also when it selects the row again: the select returns the object it has.
* `autoflush=False`: a query does not see what the same session changed before it.

The audit entry at the end of a request locks the head of the hash chain, so
commits are serialised, but after everything was read and checked.

### Components

| component | state | operations | what is hard | module |
|---|---|---|---|---|
| Background job queue (`services/jobs`, `run_worker.py`) | jobs, attempts, dependencies, events, queue settings, workers | enqueue, cancel, retry, queue update, claim, execute, renew, sweep, worker start and end | several workers, row locks given up half-way, leases that expire under a live worker, kills, deadlock victims, stale sessions | `JobQueue` |
| Billing and receivables (`services/billing`) | profile sequence, invoices, versions, ledger, payments, expenses | create, review, issue, pay, expense status | overlapping requests, lost updates, unique constraints, the same source on two drafts | `Receivables` |
| Client money (`services/client_money`) | account, journal, transfer requests, decisions, reconciliations | deposit, request, decide, execute, reconcile | two-person rule under overlap, double execution, balances by matter and by client, execution racing payments | `ClientMoney` |
| Audit chain (`services/security/audit.py`) | chain head, entries | append, verify | concurrent first entries, the order of two locks, failed requests | `AuditChain` |
| Members and sign-ins (`services/security/service.py`) | memberships, sessions | create, change role or status, sign in, authenticate, revoke | the last owner, the session limit under overlapping logins | `Members`, `SignIns` |
| Legal holds and deletion (`services/security/service.py`) | holds, deletion requests | hold, release, request, decide | holds placed and released while a deletion is decided, repeated decisions | `LegalHolds` |
| Legal data (`services/legal_data`, `services/research/importer.py`) | statutes, ingestion runs, amendment events, packs, releases | ingest, import directly, review, activate | commits in the middle of an ingestion, two ingestions at once, writers of the corpus that record nothing, activation over pending changes | `LegalData` |
| Collaboration and e-signature (`services/collaboration`) | versions and their files, envelopes, signers | add a version, create, send, mark | version numbers, files outside the transaction, marks before the sending | `Versions`, `Envelopes` |
| Integrations (`services/integrations`) | webhook events, provider envelopes | create at DocuSign, webhook in | deliveries that are lost, repeated or reordered, ids that are missing, a reference that the other service overwrites | `Envelopes` |
| System health (`services/system_health`) | backup runs, artifacts, restore verifications | back up, retain, verify | workers killed between files and rows, retention racing other backups and verifications | `Backups` |
| CRM (`services/crm`) | leads, conflict checks, identity records, onboarding gates | convert, check, review, verify, open a matter | gates that must follow checks reviewed before or after the conversion | `Intake` |
| Operations (`services/operations`) | tasks, events, notifications, escalations | create, update, due sweep | sweeps that overlap or are retried | `Sweeps` |
| Documents and search index (`services/documents`, `services/search_index`) | documents, files, pages, chunks | upload, extract, reprocess, reindex, delete | several commits and a file in one call, crashes and overlaps in between | `Documents` |
| Knowledge (`services/knowledge`) | assets, versions | create, edit, submit, approve, retire | an edit that takes the approval back, version numbers | `Knowledge` |
| Portal, evidence, release and validation gates, drafting, contracts, AI, language, research, procedure, remedies, analytics, lawyer tools, frontend | stored rows, text | parse, rank, generate, render | single-request rules and text; see section 5 | not modelled |

Interactions. Most background work (document processing, reindexing, backups,
feeds, sweeps) is a job: a service enqueues it and `jobs/handlers.py` dispatches
it inside a worker. A client-money transfer may pay an invoice: it reads and
writes the billing tables directly, so `ClientMoney` extends `Receivables` and
the two share the invoice, its ledger and its lost updates. Every mutation ends
with an audit entry; `ClientMoney` keeps the one kind that matters for it,
`transfer.decision`. The tables of the practice's records (members, holds, versions,
envelopes, documents and so on) do not read each other in any decision that is
modelled, but for `Documents`, which holds a document, its file, its pages and the
search index's chunks of it, and `Envelopes`, which two services write.

### What makes each modelled component correct

* **Queue.** `attempt_count` counts the attempts; a job starts only after all its
  dependencies left their output; at most one worker runs a job, at most
  `max_concurrency` jobs are leased at once and none by a queue that is disabled;
  only a dead job is retried by hand; a job held by a dead worker comes
  back; a recorded outcome is final; every job ends; dependents of dead jobs do
  not wait for ever; a cancellation takes effect; the retry budget holds.
* **Billing.** An invoice never shows money that was not received, and "paid" means
  paid in full; debit, credits, status and snapshots agree; a number is never
  handed out twice; what was billed stays billed and is billed once.
* **Client money.** No money leaves without an independent approval or twice for
  one request, and no matter or client is overdrawn.
* **Audit chain.** The committed entries are one chain that verifies and ends at the
  head, and every request that appends is answered.
* **Members, sign-ins.** An organization keeps an active owner; a member keeps no more
  sessions than the policy allows.
* **Legal holds.** No deletion is approved under a hold, a cancelled one is final, and
  a blocked one names the hold.
* **Legal data.** What a statute says has an amendment event; a release is activated
  only over reviewed texts; a pack has one active release.
* **Versions, envelopes.** A version's file is the one its row recorded; an envelope is
  completed when it was signed and follows the provider.
* **Backups.** The newest successful backup can be restored, and a run that counts as
  successful has its files.
* **Intake.** The conflict gate says what the last review decided, and a ready client
  has met its gates.
* **Sweeps.** A deadline makes its task once, a task is escalated once to each level.
* **Documents.** A document has its file, a ready one has pages, its columns describe
  them, and search finds no deleted one.
* **Knowledge.** The newest version is the content, and what is approved is what was
  looked at.

## 2. The modules

| module | what it is |
|---|---|
| `JobQueue` | the queue, its workers and requests; `Spec`, `FairSpec`, properties, and the mapping under which it implements `JobLifecycle` |
| `JobLifecycle` | what the queue promises of a job (README.md:155-161), with no workers, leases or sessions |
| `MCJobQueue` | instances of `JobQueue` |
| `JobQueueProofs` | theorems about `JobQueue` |
| `Receivables` | billing: tables, open requests, actions |
| `ClientMoney` | client money, composed with `Receivables`; `Spec` and the properties of both |
| `MCClientMoney` | instances of the composition |
| `FinanceProofs` | theorems about the composition: however requests overlap, and when they do not |
| `Sessions` | what a request of the API is: `overlap`, `MayOpen`, `Written`; extended by the modules below |
| `AuditChain`, `Members`, `SignIns`, `LegalHolds`, `LegalData`, `Versions`, `Envelopes`, `Backups`, `Intake`, `Sweeps`, `Documents`, `Knowledge` | one subsystem each (`AuditChain` and `Backups` have no sessions of that kind and do not extend `Sessions`) |
| `MCOffice` | the instance of these twelve |
| `SecurityProofs` | theorems about `AuditChain`, `Members` and `SignIns` |
| `ComplianceProofs` | theorems about `LegalData`, `LegalHolds` and `Intake` |
| `CollaborationProofs` | theorems about `Documents`, `Versions`, `Envelopes` and `Knowledge` |
| `OperationsProofs` | theorems about `Backups` and `Sweeps` |
| `OfficeProofs` | that `MCOffice` composes the twelve: their theorems hold of what TLC checks |
| `Maximum` | a lemma about `Max` that the proofs about versions, envelopes and backups use |

### JobQueue

State. `job`, `attempt`, `deps`, `queue` are the tables; `outputs` is the set of
jobs with a `succeeded` event (events are only ever added, so it remembers that a
job once left its output); `recent` is the number of attempts of the last
minute that `claim_next` counts. A worker is its place in `main` / `claim_next` /
`execute_claimed` (`pc`), the ORM rows its loop still has to handle (`rows`), what
its session read of them (`seen`), its row locks (`locks`, `queueLock`), the queue row
as its `claim_next` loaded it first (`known`) and the job it has taken (`hand`).
`cancelling` and `reopening` are `request_cancel` and `retry_job` between read and
commit.

Actions, one per stretch of code without an intervening commit or a read that a
later decision uses:

* `SweepRead`, `SweepCommit`: `requeue_expired_leases` (215-231), which reads
  without a lock and writes absolute values later.
* `RequestCancelRead`/`RequestCancelCommit` and `RetryRead`/`RetryCommit`: the row is
  read without a lock, access to its matter is awaited (172-179), and the status that
  follows from what was read is committed (182-189, 192-198).
* `ClaimSelect`, which takes the first `Batch` rows by priority (`.limit(25)`, 245), then
  per candidate in that order `ClaimWaiting`, `ClaimImpossible` (whose commit
  gives up all locks of the loop), `ClaimPostponed`, `ClaimAdmitted`, then
  `ClaimCommit` or `ClaimExhausted`: `claim_next` (243-266). `FOR UPDATE SKIP
  LOCKED` skips locked candidates; the queue row is waited for. After the commit of
  `ClaimImpossible` it is locked again but not read anew (`Settings`), while the active
  jobs and the attempts of the last minute are counted by new queries.
* `ClaimRefresh`, `ExecuteStart`, `ExecuteCancelled`, `ExecuteSucceeded`,
  `ExecuteFailed`: `execute_claimed` (284-311). The outcome is recorded without
  checking that the lease is still held, as in the code.
* `renew_lease` from its own session; `heartbeat`; `register_worker`.
* `Crash`, `DuplicateAttempt` (the unique constraint), `NotTheHolder` (the
  RuntimeError at 285), `DeadlockVictim` (PostgreSQL aborts one of two workers):
  the process ends, its transaction is rolled back, what it committed stays.

Abstractions. A lease is live, expired or absent; the retry delay is the freedom to
select a row at any time, and jobs of one priority are taken in any order; `recent` is
the present number of attempts of the last minute, of which `claim_next` counts one
that was fixed when the claim began; a handler succeeds or raises. Progress, artifacts
and statistics are left out: no decision reads them.

Two constants name what the properties assume of time and of people. `Punctual` TRUE:
no live worker and no request stalls between two of its steps for as long as a lease
(`lease_loop` renews it), a retry delay, or a manager takes to react to a job that
ended. FALSE: anything may stall for any time. `SoleManager` TRUE: the retry requests
of one job do not overlap, although a job may be retried again and again. FALSE: two
of them may have read the same dead row, which the code does nothing to prevent (run
`job_retry_overlap`). Each property is stated under the weakest values that it needs.

### Receivables and ClientMoney

State. `invoice`, `sequence`, `versions`, `source` are table columns; `debit` counts
and `credit` sums the ledger entries of an invoice (payments are inserted, so the
sum never loses one, whereas the column `amount_paid` is overwritten); `transfer`,
`posted` (journal entries of a transfer) and `decisions` (audit entries) likewise;
`liability` is the balance of the client-liability lines of a matter, `None`
standing for lines that name no matter. An open request (`request`, `cashier`) is
what its session has loaded.

Actions. A billing request is `get_invoice` followed by `review_invoice`,
`IssueCount`/`issue_invoice` or `record_payment`; or `NextInvoiceNumber` followed by
`create_invoice`; or `GetExpense` followed by `update_expense_status`. A client-money
request is `GetTransfer` followed by `decide_transfer`, or by `ExecuteCovered`,
`ExecuteInvoice` and `execute_transfer`. `post_deposit` and `create_transfer_request`
insert rows whose checks are repeated at execution, so they are one step each.
`Written` is the ORM's rule that an unchanged column is not written. `Abandon` and
`Refuse` stand for an HTTP error, a constraint violation or a dead process: nothing
is written.

Abstractions. One account, one client; amounts are small naturals; an invoice's
total and sources are constants (they are fixed when the draft is made); what a
request asks for is chosen at its commit. Left out: profile, rates, fee
arrangements, payments that are pending or not allocated (they touch no invoice),
statements and reconciliation.

`Overlap` FALSE lets only one request run at a time. It separates what the code
guarantees in general from what it guarantees only without concurrent requests.

### The practice's records

In the modules that extend `Sessions` a request is two steps: what it reads and
computes (`...Read`, or the action named for the function) and its commit
(`...Commit`), which writes what `Written` says. `overlap` is chosen initially: FALSE
lets one request finish before the next one begins, TRUE lets them interleave.
A request that fails or dies between the two is an action where it leaves something
behind, or removes something, and is left out where it leaves nothing.

* `AuditChain`. `entries` and `head` are the tables, `headLock` and `rowLock` the two
  row locks that matter, `writer` where the transaction of a request is in
  `append_audit_event`. `FlushesFirst` are the requests that, like `login` (294), write
  their row before they wait for the head; the others write it in the append's own
  flush (129), after they have the head. A hash is the sequence of writers it covers.
* `Members`. `update_membership` counts the active owners before it removes one
  (793-804). `Requested` is the meaning of a field that is not sent.
* `SignIns`. `signedIn` is the order of `last_seen_at`; `login` revokes the oldest
  (296-313), `authenticate_session` moves a session to the end.
* `LegalHolds`. `request_deletion` and `decide_deletion` read the active hold of the
  resource's matter and write a status at their commit. Nothing in the code executes
  an approved deletion.
* `LegalData`. `ingest_manifest` is `CaptureBefore`, `ImportStatute` for every statute
  and `FinishIngestion`. `import_statute` commits (importer.py:169): it makes durable
  what the session has added before it, and the events of its own statute follow with
  the next commit. `SelectAgain` is the import finding a row that the capture did not.
  `IngestionCrashes` and `ImportRefused` (a unique constraint) end an ingestion in
  between. The corpus is global, the runs and events are an organization's: `Importers`
  are the calls of `import_statute` that record nothing in this one
  (`DirectImportRead`/`DirectImportCommit`: `POST /research/corpus/statutes/import`, a
  connector without a feed, other organizations' ingestions). `untracked` remembers the
  statutes whose last change was such a call, or lost its event with its ingestion.
* `Versions`. The file is at its place before the row is inserted; `VersionRefused`
  leaves the file.
* `Envelopes`. `create_envelope`, `SendRead`/`SendCommit` and `MarkRead`/`MarkCommit`
  are the collaboration service, `DocusignCreates`/`DocusignCreateCommit` and the
  webhook actions the integrations. DocuSign is external: its envelope advances
  (`ProviderPosts`), and its deliveries are in order and one at a time
  (`channel` = "orderly") or arrive in any order and number ("any"), with an id of
  their own or without (`eventIds`). `reference` is the `provider_reference` by which a
  webhook finds the envelope: DocuSign's ("theirs") until `send_envelope`, which does not
  look at the provider, overwrites it ("ours", collaboration/service.py:196).
* `Backups`. `execute_backup` in its commits and file operations (`StartBackup`,
  `WriteFiles`, `BackupSucceeds`), `apply_backup_retention` in its three
  (`RetentionRead`, `UnlinkFiles`, `RetentionCommit`), and the verification. A worker
  may die between any two (`BackupFails`); the handler of an exception never records
  it, because it reads an attribute of a row that its rollback has expired (612).
* `Intake`. The handlers are one transaction each and are modelled one at a time;
  `VerifiedRecords` is evaluated before the change of the same request, as the session
  does it. "open", "pending", "cleared" and "rejected" each stand for the statuses that
  the code treats alike.
* `Sweeps`. `run_due_sweep` is one transaction: `SweepRead` and `SweepCommit`, refused
  by the unique keys of events and notifications (`Clash`). `partner` says whether an
  escalation finds a recipient, the same for all sweeps; `_find_escalation_recipient`
  (operations/service.py:376-383) excludes the actor, so in a firm of one partner it may
  be different for sweeps of different actors, which is not modelled.
* `Documents`. A call is at a stage between two of its commits or file operations;
  `CallEnds` is its death at any of them. A route runs an extraction with the
  reindexing after it, a job without; the jobs that `reprocess_document` queues are
  calls of their own. Pages and entities are one value, chunks another.
* `Knowledge`. An edit reads the asset, later the greatest version number, and commits;
  the status requests read and commit. The content has two columns, so that two edits
  may change different ones.

## 3. The runs

| run | instance | shows |
|---|---|---|
| `job_queue` | 4 jobs of one priority, 2 workers that may be killed at any point, 2 attempts, 1 manual retry, 3 queue settings changed at any time, punctual, sole manager, within `Extent` | `SingleExecution`, `LeasedIsRecoverable`, `RetryBudget`, `LeaseWithinLimit`, `AttemptOutcomeFinal`, and the refinement `ImplementsLifecycle` |
| `job_queue_faults` | 3 jobs of two priorities, selections of 2, 2 workers that may stall for any time, cancellations, no retry | `AttemptLedger`, `DependenciesHonoured` |
| `job_queue_liveness` | 2 jobs, selections of 2, 2 workers of which one may be killed, fair | `EveryJobEnds`, `DependentsEnd` |
| `job_cancel_lost` | 1 job, fair, cancellable | violation of `CancellationHonoured` |
| `job_retry_overlap` | 1 job, 2 punctual workers, 2 overlapping retry requests | violation of `NoLiveJobRetried` |
| `finance` | 1 invoice, 1 transfer for it, 2 billing and 2 client-money requests overlapping in any way, 2 users | `PaidIsReceived`, `PaidInFull`, `IndependentlyApproved` |
| `finance_isolated` | 2 invoices of 2 number series that bill one source, 2 transfers, one request at a time | `LedgerAgrees`, `PostedOnce`, `NextNumberFree`, `MatterNotOverdrawn` |
| `finance_billed_twice` | as `finance_isolated`, 1 transfer | violation of `SourceBilledOnce` |
| `finance_overdraft` | as `finance_isolated` | violation of `NoOverdraft` |
| `office` | the twelve modules of the practice's records, see below | the 18 invariants and 3 temporal properties of `office.cfg` |
| `office_review_skipped` | `LegalData`, as in `office` without direct imports | violation of `ActiveTextReviewed` |
| `office_ready_unverified` | `Intake`, as in `office` | violation of `ReadyIsVerified` |

Bounds. Two workers are enough for every race the code has between a worker and
"the others", since the tables do not distinguish the others; three jobs give a
chain of dependencies and a candidate left over after the commit in the middle of
`claim_next`. `MaxAttempts`, `MaxPerMinute` are the configured limits and need no
further bound; `MaxManualRetries` bounds `retry_job`. `Batch` scales the 25 rows of a
selection down: below the number of jobs where it may hide one (`job_queue_faults`), to that
number where it must not.
That a queue row is outdated at an admission takes a dead-lettered candidate between
two others and a dead dependency for it, hence four jobs in `job_queue`. Its constraint
`Extent` (MCJobQueue) is a bound: with at most two jobs everything is explored; with more,
all are enqueued before the first lease, there is one dependency, nobody is killed and
nothing reopened, and there are three attempts in all. `Extent` of MCOffice bounds the
direct imports: of one statute only, and beside a release that is being activated only
for one request at a time and one release. In the finance runs an invoice
of two units with payments of one or two has the partial, the exact and the refused
payment; `MaxVersions` bounds the versions of an invoice (a second one needs an
overlapping issue or review), `MaxDeposits` the deposited money: enough for two
transfers, or for one transfer and a remainder. Two overlapping requests of each
kind are the smallest case of every lost update; the theorems remove the bound.
Deadlock is not checked where the instance really may stop: all jobs decided, or
the amounts and versions used up.

`office` chooses one module initially (`focus`); the others keep their initial state.
That is sound because they share no variable but `overlap`, which never changes, and
no property relates two of them; it is the union of twelve state spaces, about a
million and a quarter states. The other `office_` runs fix the focus. What each focus has:

| focus | instance | properties |
|---|---|---|
| audit | 3 writers, 1 flushes first; any may fail | `ChainIntact`, `RequestsEnd` |
| members | 3 members, 1 update at a time | `OwnerUnlessInvited` |
| sign-ins | 2 logins, 4 sessions, limit 2 | `SessionLimit` |
| legal data | 2 statutes of 2 texts, 2 manifests of which one has a bad item, 2 ingestions, 2 runs, 2 releases, 1 manager, 1 direct import at a time, within `Extent` | `OneActiveRelease`, `ChangeIsRecorded`, `ReviewedBeforeActivation` |
| holds | 2 matters, 2 holds, 2 deletions of which one has no matter, 2 requests | `HeldOrFinalStays`, `BlockNamesItsHold` |
| versions | 3 requests of which 2 give their files one name, 2 contents, 2 numbers | `VersionsImmutable` |
| envelopes | 2 signers, 1 request of the office, 2 deliveries, 3 events each delivered twice | `CompletedWhenSigned`, `FollowsProvider` |
| backups | 2 workers, 1 verifier, 3 runs, limits 1 and 2 changed at any time, 3 days | `NewestRestorable`, `FilesOfSuccessful` |
| intake | 1 lead, 1 client, 1 record, 2 checks | `GatesAgree` |
| sweeps | 2 sweeps, 1 deadline with its task, 1 other task, 2 levels | `SweptOnce` |
| documents | 2 documents of the same file, 2 calls, 2 results of an extraction | `StoredFileThere`, `ReadyIsExtracted`, `IndexedExist` |
| knowledge | 2 requests, 2 values of each column, 2 versions | `HistoryAgrees` |

Two overlapping requests are again the smallest case of every race of two; a third
writer is needed for a circle of waits besides the first entry, a third upload for a
name that nobody else uses, three backups and three days for a retention that removes
one run and keeps two or one. `MaxRuns`, `MaxNumber`, `MaxBackupRuns`, `MaxChecks`,
`MaxVersions`, `MaxLevel` and `LastDay` bound what otherwise grows for ever. Deadlock is
not checked in these runs, for an instance stops at its bounds. A property that
holds only for separate requests says so with `~overlap`: it says nothing of the
overlapping half of its hazard, and what overlapping requests break is listed at the end
of this section. `SessionLimit` is about a limit that does not change, although an
administrator may lower it between two logins.

Symmetry is used over workers, jobs, requests, cashiers and users in safety runs
only, and only over values that no constant tells apart.

Fairness (`FairSpec`, job queue only). The container runtime restarts a worker that
ended; its loop goes on; a handler returns or raises; clocks advance; a request that
read a row commits; PostgreSQL breaks a cycle of waits and serves the lock queue of
the queue row in order, hence strong fairness for the two actions that take it; a
worker is killed only finitely often. There is no fairness for requests, renewals or
kills. The finance modules have no liveness property: nothing there happens without
a user asking for it.

`OfficeSpec` has weak fairness for the steps of a writer that has begun
(`WriterStep`): a request's coroutine is resumed, a lock that is free is granted, and
the database ends one of two transactions that wait for each other. There is none for
`Begin` and none for `Rollback`. Weak fairness is enough for `RequestsEnd`, because a
writer is answered once and for all, so that a lock is taken from a waiting one only
finitely often.

### Disagreements found

* `job_cancel_lost`: README.md:191 promises that queued work cancels at once and
  running work at the handler boundary. A cancellation that commits while the job is
  being claimed, or before a handler raises, leaves a row in `retry_wait` with
  `cancellation_requested_at` set, which `claim_next` never selects: neither run nor
  cancelled.
* `job_retry_overlap`: service.py:195 says that only failed, dead-lettered or cancelled
  jobs can be retried. Of two requests that read the same dead job, the second commits
  "queued" after a worker has leased what the first one reopened; another worker may
  then lease the job as well.
* `finance_billed_twice`: README.md:1373 promises that sources are locked once
  invoiced. They are checked when a draft is created and marked when it is issued:
  two drafts with the same time entry are both issued, one after the other.
* `finance_overdraft`: the code refuses a transfer that the balance does not cover,
  but a transfer without a matter is checked against all of the client's money and a
  transfer with one against that matter's lines only; the two together spend the
  same money twice.
* `office_review_skipped`: README.md:28 promises that a pack is not activated while an
  amendment is not reviewed, and LEGAL_DATA.md:20-24 that every changed provision has an
  event. `import_statute` commits the new text before the event exists; an ingestion
  that is killed then leaves a text that no event mentions, and nothing blocks the
  activation. Ingesting again finds no difference. `ReviewedBeforeActivation` is the
  same promise for all statutes but those that a direct import or the last item of an
  ingestion that was cut short changed last, and holds.
* `office_ready_unverified`: crm/service.py:256 says that READY means that the gates
  are complete. `verify_kyc` counts the verified records by a query that does not see
  the status it has just set: a client whose only record is rejected stays ready, and
  the first verification does not count until the next one.

Five more promises are kept as properties of the modules for which no run is listed; each
is violated in a variant of one of the runs:

* `RetryBudget` (README.md:157, exhausted jobs move to the dead-letter queue) holds in
  `job_queue`, but not with `Punctual = FALSE` (one job, two workers): a worker or sweep
  that acts on a stale row writes `retry_wait` over a job that used all its attempts,
  and it is attempted again.
* `LeasedOnlyWhileEnabled` (README.md:161, queues can be disabled), in the instance of
  `job_queue`: a queue that is disabled, or whose limit is lowered, between two
  candidates of one `claim_next` leases the second one by the settings it had.
  `LeaseWithinLimit` is therefore about the settings that the session knows.
* `DependentsNotStranded` (README.md:161, a dependent dead-letters rather than waiting
  forever), under `FairSpec` with three jobs of which one has a higher priority, one
  worker and `Batch = 1`: 25 waiting jobs of a higher priority than the one they wait for
  fill every selection, and neither that one nor a dependent of a dead one further down
  is looked at again. `EveryJobEnds` and `DependentsEnd` assume `AllSelected`.
* `ChangedTextRecorded` (LEGAL_DATA.md:19-23, an amendment event for every changed
  provision), in `office` with the focus on legal data: a direct import overwrites the
  text in the same corpus and stores none, and an ingestion of that text afterwards
  finds no difference.
* `UpdatesTheEnvelope` (README.md:51, DocuSign's webhooks update the envelope), in
  `office` with the focus on envelopes: a draft made at DocuSign and sent by hand has lost
  the reference by which they find it, and stays "sent" when it is completed there.

Some properties of `finance_isolated` fail when requests overlap (`Overlap = TRUE`),
which is why they are stated for one request at a time: two payments that loaded the
same row leave credits above the total, a review that loaded a draft reverts an issued
invoice, an expense update un-bills a source, a transfer is posted twice and overdraws
its matter, and a late `create_invoice` of one series moves the common sequence back to
a number that another series has used (this one takes three invoices).

Of the records, these parts fail for overlapping requests and are claimed for separate
ones only: two updates each remove the other's last owner, and so does setting the
last owner to "invited", which `removing_owner` forgets; two activations leave two
active releases; a hold placed while a decision is under way is not seen by it; two
uploads of one name write over each other's file; two last marks never complete an
envelope; two sweeps without a recipient escalate a task twice; overlapping extractions
leave the columns of one with the pages of the other; a reindexing that overlaps a
deletion leaves live chunks of a deleted document; an approval that overlaps an edit
approves the text of the edit. And these need a provider that behaves: a reordered
webhook moves an envelope back, and without event ids every status of an envelope but
the first is taken for a duplicate.

## 4. The proofs

The theorems about the queue and the money are about `Spec`, for any sets of jobs, workers,
invoices, transfers, users and requests, from the assumptions on the constants
(`ConstantsAssumption`, `ReceivablesAssumption`, `ClientMoneyAssumption`), which only
give their types. Each has the form Init => Inv, Inv /\ [Next]_vars => Inv',
with one step per action; the type invariant is used by all the others.

| theorem | module | why the property alone is not inductive |
|---|---|---|
| `TypeCorrect` | JobQueueProofs | a worker that has a job in hand must know which (a conjunct of `TypeOK`) |
| `AttemptLedgerCorrect` | JobQueueProofs | `Ledger` adds that no session has seen a count larger than the number of attempts: then a stale claim meets an existing attempt number and the unique constraint refuses it |
| `DependenciesAreHonoured` | JobQueueProofs | `DepInv` adds that "succeeded" is backed by an output, and that an admitted job's dependencies have theirs: statuses may be overwritten after the check, outputs may not |
| `ExecutionIsSingle`, `LeasesAreRecoverable` | JobQueueProofs | `ReopenedIsFree` says that the job of an open retry request is still dead and nobody's, which one request at a time keeps (lemmas `ReopenedUntouched`, `ReopenedNext`); `Exclusive` adds that the owner of a job holds it under a live lease, that what a sweep has read is still nobody's, and that a claim is either of a job that is free or of a count that is outdated, which the commit refuses |
| `OutcomesAreFinal` | JobQueueProofs | `Outcomes` adds that an owner reports on an attempt that is open, the newest one if it still is the job's holder (`OwnsOpen`); that nobody else owns or is about to abandon that attempt (`OneReporter`); and that what a sweep is about to abandon is open or abandoned already (`AbandonsOpen`). Cancellations and reopenings write the job and no attempt, so it needs only `Punctual` |
| `LeasesStayWithinLimit` | JobQueueProofs | `Limit` adds that an admitted claim holds the queue row and was counted under the limit that it knows (`known`), the present one or an older one, and that nobody else can lease meanwhile; for finitely many jobs |
| `BudgetIsKept` | JobQueueProofs | `Budgets` adds that nobody has seen a cancellation, that what a sweep read is current, and that a claim that is current is of a job that is due or was never attempted |
| `QueueImplementsLifecycle` | JobQueueProofs | no new invariant: from those above every step of the queue is a step of `JobLifecycle` or changes nothing it sees (`LifecycleNext`) |
| `FinanceTypeCorrect` | FinanceProofs | a request that loaded a row must know which (in `TypeOK`) |
| `InvoicesShowOnlyMoneyReceived` | FinanceProofs | `PaidInv` adds that what an open request or cashier loaded as paid was received: credits never shrink, so it stays true however stale the row, and the check of the amount due uses the same loaded value that the payment is added to |
| `PaidInvoicesArePaidInFull` | FinanceProofs | the same `PaidInv`; lemma `PaymentReceived` is the argument for one payment |
| `TransfersAreIndependentlyApproved` | FinanceProofs | `ApprovalInv` adds that an approved status and a cashier that loaded one are vouched for by a decision of another user; decisions are only added and a requester never changes |
| `LedgerAlwaysAgrees`, `BilledStaysBilled`, `TransfersArePostedOnce`, `NextNumberAlwaysFree`, `MattersNotOverdrawn` | FinanceProofs | all five from one `IsolatedInv`, for `~Overlap`: the open request is the only one (`One`), so what it loaded or checked is still so (`Current`, `Covered`), and every number handed out is below the sequence (`NumbersUsed`); lemma `PaymentBooked` serves both kinds of payment |
| `AuditTypeCorrect`, `ChainAlwaysIntact` | SecurityProofs | `AuditInv` adds that a writer past the head's lock holds it, and has loaded the head as it still is (`HoldsHead`, `HeadKnown`), and that a head row that is missing counts as the empty one (`FirstHead`) |
| `IntakeTypeCorrect`, `GatesAlwaysAgree` | ComplianceProofs | `RowInv` adds that the check a client's gate rests on names a client: a check that names none could be reviewed without moving the gate |
| `LegalDataTypeCorrect`, `ChangeAlwaysRecorded`, `OneReleaseActive`, `AlwaysReviewedBeforeActivation` | ComplianceProofs | `LegalInv` adds that an ingestion has a run of its own, blank before and with its manifest afterwards (`Slots`, `Blank`), so that no commit undoes another one's events (`CommitKeeps`); that the row an import writes to is the one it compared with or, for a direct import, is marked when it changes (lemma `ChangeKept`; `Imports` is the type it needs); and, for separate requests, that what an open activation has read is still so (`Decides`) |
| `HoldsTypeCorrect`, `BlockAlwaysNamesItsHold`, `HeldOrFinalAlwaysStays` | ComplianceProofs | `HoldsInv` adds that an open request carries a hold of its resource's matter (`Carries`) and, for separate requests, that what it has read is still so (`Current`) |
| `DocumentsTypeCorrect`, `StoredFileAlwaysThere`, `ReadyIsAlwaysExtracted`, `IndexedAlwaysExist` | CollaborationProofs | `DocumentsInv` adds that a call between the file and the row is the only one about its document, and, for separate calls, what each stage has loaded (`Serial`); lemma `Touch` is the part that all steps share |
| `MembersTypeCorrect`, `OwnerAlwaysLeft` | SecurityProofs | `MembersInv` counts an invited owner as well (`OwnerLeft`): it does not count as an active one, but nothing removes it while no other is active. For separate requests it adds that an update that would remove an owner has seen another that is active (`Keeps`) |
| `SignInsTypeCorrect`, `SessionsStayLimited` | SecurityProofs | `SignInsInv` adds that no session is listed twice and that what open logins add is new. `Bounded` is about every set of open logins: the sessions that none of the set revokes, and one new one for each, are within the limit and its excess. The property is the case of no login; a commit takes a login out of the set and its revoked sessions out of the list |
| `VersionsTypeCorrect`, `VersionsAlwaysImmutable` | CollaborationProofs | `VersionsInv` adds the same of an upload whose row is not there yet: what it stored is still there (`StoredUploads`), because with separate requests it is the only one (`OneUpload`), because others have names of their own, and because its number is above that of every row (lemma `NextIsNew`) |
| `EnvelopesTypeCorrect`, `AlwaysCompletedWhenSigned`, `AlwaysFollowsProvider` | CollaborationProofs | `Calm` says what separate requests have loaded and mean to write; for an orderly channel `ReceivedFirst` adds that the events that were received are the first of those posted, and `InOrderOnly` that the delivery that is open is the next of them or one that was answered; `FoundIsApplied` that what was received while the envelope had DocuSign's reference was applied |
| `KnowledgeTypeCorrect`, `HistoryAlwaysAgrees` | CollaborationProofs | `KnowledgeInv` adds that the numbers have no gaps (`NoGaps`) and that an edit's number is at most the next one: if it is still free at the commit it is the newest, so the hash the commit writes is that of the newest version, however stale the rest of what it read |
| `BackupsTypeCorrect`, `NewestAlwaysRestorable`, `FilesAlwaysOfSuccessful` | OperationsProofs | `BackupsInv` adds that what a retention dooms is older than some run that succeeded (`DoomedIsOld`): a worker that reads its retention has itself added a run that is not yet retention_days old, and runs are numbered by their days (`OwnRun`, `RunsGrow`), so the newest is among those that are kept |
| `SweepsTypeCorrect`, `AlwaysSweptOnce` | OperationsProofs | `SweepsInv` adds that a sweep escalates by at most one level (`OneStep`) and only tasks that were there when it read (`EscalatesOld`): what it would do twice is then refused by the notification of the same task and level, or, without a recipient, cannot happen while it is the only one (`OneSweep`) |
| `OfficeIsEachModule`, `OfficeTypeCorrect`, `OfficeKeepsItsRecords` | OfficeProofs | no new invariant: a step of the office is a step of each of its modules or leaves it alone, and none changes `overlap` (lemmas `OfficeStep`, `OverlapStays`) |

The theorems about the records are about the specification of each module (`AuditSpec`,
`MembersSpec`, ...), from the assumption of that module. `OfficeIsEachModule` says that
`OfficeSpec`, which TLC checks, implies each of them, whatever the focus, so the invariants
of the run `office` hold of it for every value of the constants (`OfficeTypeCorrect`,
`OfficeKeepsItsRecords`). The assumptions give types, keep `None` out of the data, and say
what the code does: an envelope has a signer (schemas/collaboration.py:110), and DocuSign's
events are the creation of an envelope and the statuses that `_normalize_webhook` maps.
One theorem has a hypothesis of its own: `SessionsStayLimited` counts logins, so there are
finitely many. In `FinanceProofs` the last five are about `Spec` of `ClientMoney` with
`Overlap` false.

The theorems about exclusive execution, the limit, the budget and the refinement
assume `Punctual`, `SoleManager` and that nobody cancels, as the run `job_queue` does;
without the first the budget is not kept (see above), and
`job_retry_overlap` shows that a leased job is queued again without the second. Crashes at
any point, manual retries one after the other and changes of the queue are covered. `OutcomesAreFinal`
assumes `Punctual` only: a request that cancels a job that a worker has, or reopens it
for a second one, leaves each of them the attempt it leased.

Every invariant and every action property of a passing run is proved, and so is
`BilledIsFinal` of ClientMoney, which no run checks (`BilledStaysBilled`). Only model-checked,
on the instances above, are the liveness properties (`EveryJobEnds`,
`DependentsEnd`, `RequestsEnd`), because this proof system cannot treat fairness
and ENABLED. Of a queue whose jobs are cancelled the theorems say that types, attempt
numbers and dependencies are right, and outcomes final when workers are punctual; exclusive
execution is not among them, and does not hold then: a request that read the row before
the lease makes it "cancelled" while its worker runs (service.py:186-187), after which
the job can be reopened and leased to another worker.

One action of `JobLifecycle`, `Revive`, takes three jobs to reach: a worker that
commits in the middle of its loop (service.py:252) gives up its row locks, and may lease
from the row it read a dependent that another worker has dead-lettered meanwhile, once
the dependency was reopened and has succeeded. The bound of the run `job_queue` leaves
reopening out when there are more than two jobs; a variant without `Extent`, with three jobs, one
attempt, one queue setting and no crashes (138,242 states), reaches it and satisfies the
refinement, and the theorem covers any number.

## 5. Not modelled

* The maintenance scheduler only enqueues jobs; `JobQueue` has that as its first step.
  Two ticks that queue one bucket twice (scheduler.py:30) are a hazard no module covers.
  Neither is a reconciliation approved on an outdated difference
  (client_money/service.py:262).
* Of the modelled components: bank statements and reconciliation; payments that are
  pending or not allocated; judgments, alerts, checkpoints; review requests, comments
  and client approvals; payment links and outbound calls; health checks and incidents;
  trackers; playbooks and collections; the rebuilding of a whole search index. Each is
  one row that one request writes, or a report.
* Client portal, evidence bundles, release and validation gates: one row per request,
  access control, or an evaluation of recorded results.
* Passwords, MFA, expiry, permissions, grants and encryption: access control rather than
  workflow.
* Drafting, contracts, AI, language, research, procedure, remedies, intelligence,
  analytics, lawyer tools, frontend: text processing, rules, ranking and rendering, which
  keep no state between requests that another one decides on. The exception is the
  import of statutes of the research service, which `LegalData` has. They are most of
  the lines of the repository.
* External providers and storage, of which only the answers matter.
