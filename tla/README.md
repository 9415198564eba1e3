# TLA+ verification of ingestion, deadlines and notices

The repository is a multi-tenant application for construction claims. Contract
documents are uploaded, scanned and extracted; contract configurations and
project events yield deadlines; notices are drafted from facts, approved by
people, dispatched through controlled channels, and their delivery is tracked.
Almost all of its state is in Postgres rows, written by request handlers of a
Next.js application (`apps/web/src/server`), by a Python worker and dispatcher
(`services/document-intelligence`), and by an operator's script
(`apps/web/scripts`). The decisions that need no state, from calendar arithmetic to
the layout of an archive, are pure packages under `packages/`.

This directory holds TLA+ modules of the parts where the order of steps
decides, the TLC configurations that check them, and TLAPS proofs for every
value of their constants. `PROJECT.json` lists components, runs, mutants, the
lines each definition models, hazards and theorems.

- Check a run: `tlc -config outbox.cfg MC_OutboxDispatch`
- Check the proofs of a module: `tlapm OutboxDispatch_proofs.tla`

## 1. Inventory

How the parts are connected:

    client --PUT--> object storage <--copy/read-- worker
      |                   ^                          ^
      v                   |                          | ARQ job (Redis)
    documents.ts --row--> outbox_event --claim--> dispatcher
      |
      v (accepted, READY documents)
    contracts.ts --configuration--> deadlines.ts <--event-- detections.ts, connectors.ts
                                        |
                                        v (deadline, facts)
                     notices.ts --approved revision, bundle--> notice-delivery.ts
                                                                  ^        |
                                             provider webhooks ---+        v provider
    operations.ts, platform.ts: alerts, tasks, support access, limits over all of it

Handlers are transactions at Postgres' default READ COMMITTED, opened by
`withTenantTransaction` (`db/tenant-context.ts`), and take no lock on what they
read. The common pattern of this code is *read a status, check it, write the
row by its id*; the common hazard is that the status changed in between. Row
locks are taken by updates only; unique indexes and a few triggers
are the only checks evaluated at the time of a write.

### 1.1 Documents

**Upload and custody** (`services/documents.ts`, `documents/status-transitions.ts`,
`storage/object-storage.ts`, `scripts/reconcile-ingestion.ts`).
*State*: `upload_session` (status, idempotency key, expected digest, deadline),
`source_document`, `document_version`, the quarantine object.
*Operations*: initiate (cap on active uploads, idempotency key), the client's
PUT to a presigned URL, complete (size, digest, signature, duplicate dialogue,
acceptance), cancel, and the expiry pass of the reconcile script.
*Hard*: every handler acts on the session it read; storage is not part of the
transaction; the size comes from a HEAD, digest and signature from the bytes of a later
GET, and the client may PUT at any time.
*Correct when*: a session yields at most one version however many completions
overlap; session, document and version rows agree; a version's bytes passed the
signature and digest checks, and the size check unless they were replaced after the HEAD; terminal sessions stay terminal; the only bytes of an
accepted version are never deleted; the cap holds up to the requests in flight.

**Transactional outbox** (`queue/outbox.ts`, `outbox/dispatcher.py`,
`safe_errors.py`).
*State*: `outbox_event` (status, attempts, availableAt), the rows a dispatcher
has claimed, its strike counter, the ARQ queue.
*Operations*: insert with the accepted version; `claim_pending`,
`create_arq_redis`, `enqueue_job`, `mark_dispatched`, `mark_failed`, heartbeat,
`run_loop`.
*Hard*: Postgres and Redis share no transaction; each call can be refused, or can
land without its acknowledgement; several dispatchers poll; a dispatcher may die
between any two calls, and a worker while it runs a job.
*Correct when*: a row is held by one dispatcher and its snapshot is current; an
event is DISPATCHED only after the queue had its job, dead-lettered only by its
last attempt; a job handed over runs at least once, and beyond its first run only
when ARQ let its id go or took the job back, never because its row was dispatched again;
every event is settled.

**Processing worker** (`jobs/process_document.py`, the version trigger of the
ingestion migration, and retry, archive and download of `documents.ts`).
*State*: `document_processing_run`, the statuses of version and document, the
quarantine and originals objects, extracted artifacts, the ARQ job.
*Operations*: load, mark running, scan, block, promote with read-back, accept,
extract, finish in three statements, fail in three statements; retry, archive,
download.
*Hard*: each statement is a transaction of its own; jobs are redelivered;
two runs of one version may overlap; the client can overwrite the quarantine
object while it is being scanned and copied.
*Correct when*: whatever overlaps or dies, what can be downloaded is the file
whose digest was verified; a succeeded run stays succeeded, with its artifacts;
READY means accepted, clean, promoted and extracted; the document leaves
QUARANTINED and PROCESSING.

**Scanners, extractors, OCR** (`malware/`, `extractors/`, `ocr/`): pure
functions of bytes to the modules here, with nondeterministic results.

### 1.2 Notices

**Drafting, approval and export** (`services/notices.ts`, triggers of the slice
6 migration).
*State*: `notice_package` (status, active approved revision),
`notice_draft_revision` and its sections, export bundles.
*Operations*: assess evidence, generate, edit a section, submit, request
changes, reject, approve (which supersedes the active revision), withdraw,
export, dispatch snapshot.
*Hard*: overlapping approvals, edits and exports; handlers without a status
check that rely on a trigger.
*Correct when*: the active revision is approved and is the only approved one;
whatever is exported or pinned for dispatch is a text some approval validated;
a snapshot's revision and bundle say the same.

**Delivery** (`services/notice-delivery.ts`, `packages/notice-delivery`).
*State*: authorizations, attempts, recipients, provider events, receipt
assessments, the package's status.
*Operations*: request, authorize, reject, revoke; send, manual dispatch;
acknowledge, assess receipt, confirm service; provider webhooks.
*Hard*: the provider is called inside the transaction; statuses are checked
early and written late; webhooks repeat, overlap and come in any order.
*Correct when*: every transmission the provider can tell apart has its own human
authorization; an idempotency key is sent again only after a rollback; a
provider event takes effect once; a failed recipient is not hidden by an
aggregate; the package says what one of its attempts says.

### 1.3 From correspondence to deadlines

**Events and detection** (first half of `services/deadlines.ts`,
`services/detections.ts`).
*State*: `project_event` with its trigger date, `rule_applicability_assessment`,
`project_event_suggestion` with evidence and a date candidate.
*Operations*: create and confirm an event, add and verify its date, assess and
confirm a rule; run the detectors, accept, reject, merge a suggestion or ask for more
evidence; archive the project.
*Hard*: an acceptance creates an event from a suggestion whose status was read
earlier; two assessments of one event and rule have no unique index.
*Correct when*: a suggestion activates nothing by itself: an event has a
calculation only after a human confirmed it and its date, and a rule of a
once-approved configuration was confirmed for it.

**Deadlines and calendars** (second half of `services/deadlines.ts`).
*State*: calendar revisions and the calendar's pointer, `deadline_calculation`,
`tracked_deadline`.
*Operations*: create and approve a calendar revision, calculate, verify, track,
recalculate.
*Hard*: approvals and recalculations act on the revision or version they read; a
calculation may be verified or tracked while it is superseded.
*Correct when*: a verified calculation only ever becomes superseded; supersession
leaves a linked successor; without overlap one revision is approved and a
calculation has one live deadline.

**The engine** (`packages/contract-rules`) is pure: a date and a rule to a date.
*Correct when* it equals counting days on the calendar.

### 1.4 The other services

| component | state and operations | hard behaviour | what makes it correct |
|---|---|---|---|
| Contract configuration (`contracts.ts`, `structure-extract.ts`) | packages, clauses, rules, issues, configuration revisions, snapshots; analyse, review, correct, submit, request changes, approve, supersede | two approvals against a partial unique index; a change request over a stale read | what the engine may take was reviewed, and approved by someone else, and there is one answer to what it is |
| Connectors (`connectors.ts`) | accounts, scopes, sync runs, checkpoints, records, webhooks | the scope is read in a transaction of its own; a run that fails moves the checkpoint | nothing is imported outside an approved scope; every record passed by the checkpoint is accounted for |
| Operations (`operations.ts`) | alerts, tasks, escalation policies, summaries | find, then create; late writes of an old status | a condition has one alert; what is settled stays settled |
| Platform (`platform.ts`) | invitations, support requests and sessions, kill switches, pilot checklist, provider enablement | approve against revoke, accept against revoke, activation against a changed item | nobody approves a grant of their own; a session exists while its request is active; a pilot starts ready |
| Notice records (`notices.ts`) | evidence requirements, facts, questions, recipients, attachments, exceptions | an answer changes while it is verified; numbers are counted, then used | a satisfied requirement has a ground; what was reviewed still stands |
| Projects (`projects.ts`, `tenants.ts`, `packages/authz`, `authz/context.ts`) | project status, memberships, the active organization | the archived check precedes the write | an archived project is read-only |
| Rate limits (`auth/rate-limit.ts`) | Redis counters, memory buckets | INCR and EXPIRE are two commands; the fallback | no window admits more than its limit; only a cut-off call leaves a counter without expiry |

The pure packages these services call (`connectors`, `operations`,
`event-detection`, `notice-drafting`, `notice-delivery`, `platform`) decide scopes
and pages, candidate alerts and the dashboard, findings, drafts and archives, provider
answers and risk, configurations, deployments and readiness.

### 1.5 Not modelled

Sessions and cookies, row level security (each model is the life of one tenant's
rows), the audit log (append-only, never read back), health probes, the user
interface, API routes (one call each), infrastructure and scripts; the schema validation
of extracted durations (the engine's own check is modelled). Within modelled
services: rows of a single write that no modelled operation reads (comments, recommendations,
evidence links, tenant settings, feature flags, saved views, notifications,
dispatch evidence, metadata edits) and handlers that only list. Regular
expressions, wording, parsing of documents and the ClamAV protocol are nondeterministic
or a set of what matched. Capability, project and tenant checks refuse without
changing state: the state modules start after they have passed, and
`ProjectAccess` is about what they decide. Segregation of duties *is* modelled wherever an
actor is compared with another.

## 2. Modules

| module | models | state variables and what they are |
|---|---|---|
| `JobDelivery` | the abstract promise of the outbox (ADR-025) | `outcome`, `tries`, `handed` per event; `doubted` = the delivered events whose dispatcher does not know it |
| `OutboxDispatch` | web insert, dispatchers, ARQ (external) | the outbox row, `rows`/`current`/`strikes` = the locals of `dispatch_once` and `run_loop`, `job` = the queue |
| `DocumentUpload` | initiate, complete, cancel, reconcile, PUT | the rows, `object` = quarantine, `pc`/`op`/`seen`/`todo` = a request and what it read; `swapped` = completions whose object was replaced after their HEAD |
| `DocumentProcessing` | the worker statement by statement; retry, archive, download | the rows, `object` by key, `pc`/`local` = the job's next statement and locals, `req` = web requests |
| `NoticeApproval` | drafting to dispatch snapshot | package, revisions, texts, bundles, snapshots; `local` = what a handler has read |
| `NoticeDispatch` | authorization to confirmed service | authorizations, attempts, recipients, events; `local` = what a handler read or holds uncommitted |
| `Transactions` | `withTenantTransaction`: a handler's read, its commit, its rollback | `work` = what each handler has read, `raced` = two have overlapped |
| `ProjectEvents` | events, dates, rule assessments | `event`, `assessment`, `rule` = the approved configuration |
| `EventDetection` | detection runs and review of suggestions | `suggestion`, `archived` |
| `Deadlines` | calendars, calculations, tracked deadlines | `revision`, `current`, `calculation`, `deadline` |
| `EventAnalysis` | composes the three above over the same events | – |
| `ContractConfiguration` | `contracts.ts` for one package | `package`, `found` per analysis, `configuration`, `snapshot`, ... |
| `ConnectorSync` | one account with one scope | `account`, `scope`, `cursor`, `document`, `dropped`, ... |
| `Operations` | alerts, tasks, policies, summaries | `holds`, `alert`, `task`, `policy`, ... |
| `Platform` | invitations to provider enablement | `invitation`, `member`, `request`, `session`, `item`, `assessment`, ... |
| `NoticeRecords` | the working papers of a package | `requirement`, `fact`, `question`, `attachment`, ... |
| `ProjectAccess` | role tables, request context, projects and members | `tenantRole`, `memberRole`, `projectStatus`, `active` |
| `RateLimit` | both limiters; Redis is external | `counter`, `bucket`, `admitted` |
| `Services` | composes the seven above side by side | `busy` = the service this behaviour is about |
| `DeadlineEngine` | `packages/contract-rules` | pure; `FallsOnCountedDay` of `Algorithms` is the reference |
| `ConnectorRules`, `AlertRules`, `EventDetectors`, `NoticeDrafting`, `DeliveryRules`, `PlatformChecks` | the other pure packages | pure |
| `Lists` | `Array.prototype.filter`, external | pure; `Picked` is the filter the pure modules use |
| `Algorithms` | asks the pure modules one question after the other | `input`, `answer` = the last question and its answer |
| `*_proofs` | theorems about the module named | – |
| `MC_*` | model values, small sets, symmetry, the instances explored | – |

**Steps.** A handler whose write depends on an earlier read is two or three
actions, a read and a write, with the read value kept in a variable; a
handler whose write is unconditional, or decided by an index or a trigger, is
one. The first update of a row locks it to the commit, so what follows in the
same transaction is one action, with two exceptions. In `NoticeDispatch` the send holds its
locks across the call of the provider (`SendTransmit`, `SendCommit`), and a
webhook holds its recipients between update and commit (`WebhookUpdate`,
`WebhookCommit`). In `DocumentUpload` a completion asks the object store twice, and the
client may PUT in between: `CompleteHead` leaves it `"headed"`, with the session row
locked (`Locked`), until the step that has read the bytes. A call of the outbox that
fails is two behaviours: nothing happened, or the effect is there and the caller takes
the error path (`ClaimRaises`, `EnqueueUnheard`, `MarkDispatchedRaises`,
`MarkFailedRaises`). The worker's statements are separate actions because they are
separate transactions. The service modules take their steps from `Transactions`
(`Begin`, `End`, `AtOnce`, `RollBack`).

**How the modules fit together.** `DocumentUpload` sees the worker as
`WorkerSettles`; `DocumentProcessing` starts from the row that `CompleteAccepts`
inserts and sees the upload side as `OverwriteQuarantine`; the outbox sits between
them, and its at-least-once hand-over is `Redeliver` there. `EventDetection` and `Deadlines`
both extend `ProjectEvents`: an accepted suggestion becomes an event of it, a calculation
starts from one, and `EventAnalysis` interleaves all their handlers. It sees
`ContractConfiguration` as `rule`, the approved revision that may change at any time, and
`DeadlineEngine` as an arbitrary result. `NoticeRecords` feeds `NoticeApproval` through
validation; that sees the dispatch handlers as `DispatchMoves`, and `NoticeDispatch`
starts from its snapshot. `OutboxDispatch` implements `JobDelivery` under the mapping
`Outcome`. The services composed in `Services` share no rows, so a behaviour of all of them
is a shuffle of behaviours of each: `busy` picks one, and one run explores them all.

**Data.** Bytes, texts and keys are model values; a digest is the content it
was computed from. Time is a set (`available`, `expired`) that grows. The two
upload caps (user and project) are one. Sections of a draft are one text.
A segment of correspondence is the set of phrase patterns that match it; an instant in
the engine is the start, the middle or the end of a day in a table of month lengths.
External parts are modelled from how this code uses them: ARQ holds a job id
until its result is forgotten and runs a job again whose worker died (`arq_queue.py`,
`workers.py`), Postgres' row locks and
rollbacks, the process supervisor.

**Mutants.** Definitions commented `Mutant:` are plausible bugs (a dropped
guard, a missing reset, an off-by-one). Nothing uses them; substituted for the
definition they precede, each makes TLC refute the property it is listed for.

## 3. Runs

| run | instance | question and answer |
|---|---|---|
| `outbox` | 2 dispatchers, 2 events (1 malformed), 2 attempts, 2 strikes, 3 faults of any kind | claims are exclusive (`ExclusiveClaim`), outcomes are earned (`OutcomesAreEarned`: nothing is marked before it is handed over, dead letters are exhausted), runs of a job have causes (`RunsHaveCauses`: at least one, and more only where ARQ forgot the id or redelivered), `JobDelivery` is implemented, every event not abandoned by a failing batch is settled (`EventuallySettled`) |
| `outbox_redis_outage` | 1 refused connection | **violated** `NoLostJob` |
| `upload_races` | 3 sessions, 4 requests, 2 in flight, cap 1, good, short and spoofed bytes | one version per session, rows agree, bytes verified (`VersionWasVerified`), cap exceeded by at most one |
| `upload_sequential` | 2 sessions, 4 requests one at a time, one idempotency key, good, short and spoofed bytes | `UploadsAreFinal`: terminal is final, quarantined bytes of an accepted version stay |
| `processing_faults` | 3 runs (1 tampered), 2 jobs and 2 requests at a time, 3 copies, 2 faults of any kind | `OutputsAreSound`: downloads are verified, success has artifacts and is final |
| `processing_settles` | no faults, one request at a time | READY invariant, the document settles |
| `event_analysis` | 2 handlers, 2 users; seven instances of 1-2 events, suggestions, rules, assessments and calendar revisions, up to 3 calculations and 2 deadlines of each | no calculation without confirmed facts and supersession is linked, whatever overlaps; a verified calculation only becomes superseded; without overlap nothing is doubled |
| `services` | 2 handlers, 2 users, 2 projects; 1 analysis, 3 configurations, 3 records (in scope, filtered, excluded), 2 syncs, 1 task, 2 invitations, 1 support request, 2 checklist items, 2 attachments, limit 2 | section 1.4, last column: `ConfigurationIsReviewed`, `SyncIsAccounted`, `OneAlertPerCondition`, `GrantsAreBacked`, `PapersAreReviewed`, `LimitsHold`, and as action properties `DecisionsStand`, `GatesHold` |
| `algorithms` | the inputs of `MC_Algorithms` | the pure packages: see below |
| `notice_approval` | 2 handlers, 2 revisions, fit and unfit text, 1 snapshot | `ApprovalIsUnique`: the active revision is approved; without overlap it is the only one and nothing unvalidated leaves |
| `notice_dispatch` | 2 handlers, 1 email and 1 courier authorization, 2 recipients, 2 email attempts, 2 provider events, 1 lost send | keys are reused only after rollback, events apply once, the package follows an attempt; without overlap one transmission per authorization and no hidden failure |
| `notice_double_send` | 2 handlers | **violated** `FreshAuthorizationPerTransmission` |

The run `algorithms` asks each pure module questions of every kind it answers and compares
the answers with what the rule means, stated another way than the code computes it:
`DeadlinesAreAsCounted` (the walk over the calendar against counting the qualifying days;
month rolls against month lengths), `ScopesAdmitWhatTheyMean` (include and exclude globs
against "some split of the text fits", paging against the rest of the list, webhooks),
`AlertsAgreeWithDashboard`, `FindingsAreSupported`, `NoticesLeaveOnceAsApproved` and
`DeploymentsAreApproved`.

Everything but the outbox may
stop (requests are one-shot or bounded), hence `CHECK_DEADLOCK FALSE`; the outbox
polls for ever, and the run `outbox` checks deadlock too: with three faults at
most one dispatcher reaches its two strikes.

### Bounds and why they are enough

- *Two dispatchers, two events, three faults*: exclusivity concerns pairs. Three
  faults let an event fail to its last attempt (2) and one more fault hit
  somewhere else; two strikes and three faults let one dispatcher halt. A fault is a
  refused or unacknowledged claim, enqueue or mark, a lost Redis connection, the death of a
  dispatcher or of a worker, so a mark that is lost twice, on the last attempt too, and a
  redelivery beside a lost mark are among the behaviours.
- *Two requests in flight, three sessions, cap 1*: a race needs two requests on
  one session; the third session and cap 1 let a second initiation overshoot.
  The theorem `CapHolds` covers other numbers.
- *Two jobs, three runs, two faults*: the first run, a retry and a second retry;
  a crash plus a redelivery, or an overwrite between scan and copy plus a crash.
  `MaxCopies` = 3 is the number of promotions three runs can make without faults;
  behaviours that need a fourth copy (several crashes after promotion) are cut off.
- *Two revisions, two handlers*: superseding needs two; three handlers add no
  new pair of read and write.
- *Two email attempts, two recipients, two events*: one recipient's event succeeds
  and the other's bounces, in both orders, overlapping and repeated.
  `MaxGrants` = 1 in `notice_dispatch` bounds how often an authorization is given;
  `notice_double_send` allows 2, and still finds more transmissions than grants.
- *`MC_Instances`* in `event_analysis` and `services` is a state constraint: a state is
  explored further as long as it fits one of the small instances listed there, each of
  which has the rows one kind of race needs (two events from one suggestion, two calendar
  approvals, three calculations for a recalculation of a recalculation). The product of
  all rows of all tables adds no interaction, as handlers touch few tables at once.
- *Three records, two syncs*: a first sync and a later one with one record of each kind in
  between, each of which may fail. *Three configurations*: an approved one, its
  successor, and one more approval against the index.
- *Days*: deadlines are counted over the seven months of `MCMonths`, with triggers at the
  end of January and around a holiday, durations 0, 1 and 3 of each unit, an ordinary
  calendar, one with special working days, one without working day and an unknown zone.
- *Sequences* in `algorithms` are as short as one boundary needs: two attachments
  (swapped, missing, doubled), two facts, four alerts, texts of three letters.
- Symmetry is over handlers, requests and sessions, which the modules treat
  alike, and only in runs without liveness properties.

### Fairness

`outbox`: weak fairness of each dispatcher's non-failing steps (`run_loop` is
an endless loop), of back-off expiry (time passes) and of the worker's start
and end of jobs (the worker process runs). Not of the web application, and not
of faults, a redelivered job among them. `processing_settles`: weak fairness of each job's statements; jobs
are picked up by a running worker. Nothing forces a user to retry. No
fairness is assumed elsewhere, where only safety is checked.

### Properties under `~raced`

`OneApproved`, `NothingUnapprovedLeaves`, `OneTransmissionPerGrant`,
`NoHiddenFailure`, `OneAlertPerCondition`, `DecisionsStand`, `GatesHold` and parts of
`NothingIsDoubled`, `ConfigurationIsReviewed`, `SyncIsAccounted`, `GrantsAreBacked` and
`PapersAreReviewed` are stated for behaviours in which no two handlers have
overlapped so far (`raced` is a history variable). They are false otherwise:
section 5 says how. Their strength is in the sequences of legal calls
(approve, supersede, edit, approve again; send, fail, send again; events and
acknowledgments in any order). All other properties, and the other parts of these, hold
whatever overlaps.

## 4. Proofs

Each `_proofs` module states an inductive invariant `IInv`, proves `Init => IInv`
(`InitIInv`) and that steps keep it (one lemma per action or class of
actions), and derives the theorems. The only assumptions are the named ASSUMEs of
the modules, which TLC evaluates in every run; two theorems have a hypothesis of their
own about overlap, given below. TLC explored each invariant on the module's
small instance before it was proved. Every safety and action property of the passing runs
is a theorem. Five type invariants are proved
and not listed in a run; those of `EventAnalysis` and `Services` are both.

**OutboxDispatch** (any events, dispatchers, batch size, limits, faults):
type correctness, `ClaimsAreExclusive`, `DispatchedImpliesHandedOver` and
`DeadLettersAreExhausted` (together `OutcomesEarned`), and the refinement `OutboxImplementsDelivery`.
A held row is DISPATCHING, or it is `Unheard`: its mark landed, the dispatcher did not
hear of it, and the `mark_failed` that follows will overwrite its own DISPATCHED.
`ExclusiveClaim` alone is not inductive: a mark sets DISPATCHED, so one needs
that the marking dispatcher has enqueued (`HandedBeforeMark`), that the row in
progress left the rows to do (`CurrentLeftRows`), that a claimed row was tried
(`ClaimedTried`), and that an absent one was not (`UntriedBeforeWrite`).
In the refinement every step maps to one of `JobDelivery` or to a stutter: the
enqueue is `HandOver`, the claim of a batch is `Try`, a mark is `Deliver`, with a doubt if
it landed unheard. The doubt ends with `TakeBack`, when `mark_failed` overwrites the
mark, or with `Confirm`, when the dispatcher forgets the row. So the abstract delivery is
final except where an acknowledgement was lost, and then undone at most once, by the
dispatcher that made it.
`RunsAreCaused` needs the queue's books: runs so far and the one that is due never exceed
one, plus what the queue let go, plus what it took back (`RunsAreCounted`), and a job handed
over is in the queue or has run (`RunsAreKept`). A second enqueue of a job the queue knows
changes neither.

**DocumentUpload** (any sessions, requests, contents, caps): `IInv` joins the
row invariants (`RowsAlwaysAgree`) with `InsertedTogether` (session and document appear in one
transaction) and `WorkedOnExists`, what a request may still rely on: a completion past its
HEAD holds bytes of the declared size unless the client replaced them (`Works`). `CapHolds` uses a second invariant: active
sessions together with the targets of completions that could reactivate one
(`Pending`), plus initiations in flight, never exceed the cap plus
`MaxInFlight` - 1 (`CapMargin`). It is a counting argument over finite sets
with `FiniteSetTheorems`.
`UploadsStayFinal` assumes `MaxInFlight = 1`, as the run `upload_sequential` does: a
request between its read and its write is then alone (`Alone`), what it read is current
(`ReadIsCurrent`), and the session of a version stays ACCEPTED (`VersionsAreAccepted`), so
that no cancel deletes the bytes under it.

**DocumentProcessing** (any runs, jobs, requests, faults): `OutputsStaySound` joins
three facts. `DownloadsAreVerified` rests on `KeysVerified`, that every key a job carries is either quarantine or an original
below the next fresh key with verified bytes, and on `AcceptedIsPromoted`.
`SuccessIsFinal`, an action property, rests on `SucceededIsLeftAlone`: the job of a
succeeded run is before no statement that writes the run. `TamperedGoNowhere`,
`ExtractedBeforeReport` and `KnownBeforeReport` are what these need about
program counters.
`ReadyIsBacked`, the READY invariant, assumes `Sequential`: one request at a time and no
redelivery or crash, while statements may raise and the quarantine object may be
overwritten (the run `processing_settles` has no faults at all). At most one job is then
before the statement that closes the version (`OneEarly`, which holds because a retry is
let in only when the version is closed), what a job reports is so (`ReportsAreBacked`),
and a run that backs the version is not changed again.

**NoticeApproval** (any handlers, revisions, texts, formats): `Base` holds
whatever overlaps: an approved revision can only become superseded (the
trigger), and it does so in the very step that moves the pointer. `Calm`
holds while nothing has overlapped: one handler is busy (`OneBusy`), so what it
read is current (`WorkIsFresh`), so the active text and all output is validated.

**NoticeDispatch** (any handlers, authorizations, recipients, events, losses):
`KeysAreReusedAfterRollback`, `EventsApplyOnce`, `PackageAgreesWithAttempt`.
The invariant is a pair of balances. `KeyAccounts`: a key was sent as often as it
was lost, and once more exactly when its attempt is on record or its send is about to
commit. `AppliedAccounts`: an event was applied once if it is processed, else
never. The first needs that one send at a time is between the provider's answer and its
commit (`OneTransmits`, by the package's row lock) and that its attempt is not on
record (`WorkIsShaped`, by the unique index); the second that one webhook holds an event
(`OneInserts`). While nothing has overlapped, `Calm` holds too: what the one busy handler
read still stands (`Fresh`), an authorization that may yet be given or used has no
attempt, so that all that was sent under one was its first (`Granted`), and no attempt
on record hides a failure (`Shown`). `OneMessagePerGrant` and `FailuresAreShown` follow.

**EventAnalysis** (any handlers, events, suggestions, rules, calendar revisions,
calculations): what one handler read and uses later is not taken back by any other step
(`Grow`: confirmations, verified dates, assessments, who made and reviewed a
calculation), and `Shaped` says what each handler in progress may still rely on. That gives
`DeadlinesRest` and, with the links that recalculation leaves, `SupersessionStaysLinked`,
whatever overlaps. `NothingGetsDoubled` needs `Calm`: the version a handler chose is still
the next, the approved revision it read still the only one, the calculation it tracks
still verified and without a live deadline. `NextVersion`, the aggregate plus one, exists
because versions are dense (`VersionsAreDense`; `NextVersionIsNext` by finiteness and a
least-element argument). `VerifiedStaysFrozen` is an action property on the same facts.

**Services** (any handlers, users, projects, rows): the services share no rows and a
behaviour is about one of them (`busy`), so `IInv` is a conjunction with a part for each,
the others being as they began. Each part has facts about rows, what handlers still know
whatever overlaps (`...Shaped`), and what is fresh while nothing overlapped (`...Fresh`).
Whatever overlaps hold: one active configuration and its reviewed snapshots (the unique
index), approvals by someone else, imports by an approved scope, the checkpoint's account
(`plan` says what a run will import or drop before the checkpoint moves past it), satisfied
requirements being grounded. `LimitsStay` is again a balance: requests admitted, with those
Redis has counted and will admit (`Pending`), never exceed its counter or the limit.
`DecisionsStay` and `GatesStay` are the two action properties, from the same invariant.

**Algorithms** (any inputs of the packages' types, lists of any length): an answer given is
the answer the module computes, so each theorem is a fact about its functions. The library's
induction takes an operator as parameter; here induction is said of a set (`SetInduction`,
from `Least`), and a recursive function is shown to exist as the last of its partial
functions (`Iteration`). What is proved by it is what a loop has done after n rounds:
- `DeadlinesKeepCounting`: the walk of `addBusinessDays` has passed as many business days as
  it was asked for (`WalkCounts`, against `IsNthBusinessDay`, a cardinality), the adjustment
  stops at the nearest working day (`RestIsNearest`), a month roll keeps the day or the
  month's last (`MonthsCount`), and each is monotone in the trigger (`LaterWalk`, `LaterRest`,
  `LaterStart`). `CalendarAssumption` restricts the inputs to those where the code's loops
  meet what they look for before their guards: beyond them the code returns the day it gave
  up on, as section 5 says, and the months are those of the model's table.
- `ScopesKeepTheirMeaning`: the pieces of a glob placed left to right find a match exactly
  where the glob means one (`PatternsMeanWhatTheySay`), and the pages of a run make up the
  rest of the list (`Paging`).
- `DeploymentsStayApproved`: what passes in a pilot or in production (`ProductionConfigs`: both
  urls present and no two that name one role; a url without a readable role passes), and the record of an alert pipeline after any prefix of the stream
  holds the last alert sent for each fingerprint (`Pipelines`); the rest are case analyses.
- `AlertsKeepAgreeing`: an alert that a deadline has passed is raised exactly for the rows that
  are overdue (`RaisedAre`), the sort holds the same candidates with the worst first
  (`SortedBySeverity`), and a row's id ties its alert to the count (`OverdueDeadlines`). `AlertAssumption` asks for
  distinct ids, which the primary key gives.
- `FindingsStaySupported`: a finding comes from one segment and one category (`DetectedAre`),
  and its polarities, band and dates from that segment (`FindingsFit`, `DatesFit`).
- `NoticesKeepLeavingOnce`: every section of a draft rests on approved facts
  (`SectionsAssembled`), offsets of an archive follow one another (`ArchivesFollow`), as many
  attachments as were pinned with every pinned one among them are the pinned ones
  (`AttachmentsMatch`, by cardinality), and the cursor of the deemed receipt has passed no
  working day (`ReceiptIsFirst`, after each of its 14 rounds); a page has all lines at full
  length exactly when the notice fits, and then '?' exactly where it is not ASCII (`PagesShow`);
  the rest are case analyses.

A filter is written `Picked` (`Lists`): the provers take `SelectSeq` as uninterpreted, and
can expand a recursive function. `PickedAre` says what a filter returns, `FlattenedIs` what
a flattening does, `JoinedItems` what a concatenation does. `AlertAssumption`,
`DetectionAssumption` and `NoticeAssumption` give the inputs their types: lists are lists,
times, lengths and counts are numbers, states are among those the code declares.

**Only model-checked**: liveness (`EventuallySettled`, `DocumentSettles`), which is out of
the prover's reach. The two runs that expect a violation show one behaviour each.

## 5. What the code does that its documents do not say

Shown by a run:

1. *A lost batch* (`outbox_redis_outage`). `create_arq_redis` is called after the
   claim has committed and outside the `try` of the batch
   (`dispatcher.py:176`). One refused connection leaves its rows DISPATCHING, and
   nothing claims such a row again. ADR-025 promises the opposite.
2. *Two transmissions on one authorization* (`notice_double_send`). The attempts are
   counted after the status check without rereading it (`notice-delivery.ts:789`).

Seen while modelling, part of the modules' behaviour, without a run:

**Outbox**

- *A delivered job taken back*. When `mark_dispatched` commits and its acknowledgement is
  lost, the `except` branch calls `mark_failed`, which has no condition on the status: the
  DISPATCHED row is FAILED and dispatched again, or DEAD_LETTERED on its last attempt although
  its job runs (`dispatcher.py:199`, 100-118; `MarkDispatchedRaises`). The second dispatch
  starts no second run while ARQ knows the job id; after `keep_result` it does.
- A crash, or an acknowledgement lost by `claim_pending`, leaves rows DISPATCHING as a refused
  Redis connection does; `EventuallySettled` excepts them (`abandoned`).

**Documents**

- *Size of other bytes*. Completion compares the declared size with the HEAD and does not look
  at the length of what the GET returns (`documents.ts:450`, `:469`), so a PUT in between is
  accepted with any size when no checksum was declared.
- `headObject` failing for any reason, a storage outage too, ends the session as FAILED with
  OBJECT_MISSING (`documents.ts:433`; `CompleteMissing`).
- *Lost bytes*. A cancel, or the expiry pass, that read the session before its completion
  committed deletes the quarantine object of an accepted version (`documents.ts:774`), and
  overwrites ACCEPTED (`:770`); hence `UploadsAreFinal` is checked for one request at a time.
- *READY on a failed scan*. Two retries both pass their check, two runs overlap, and the
  later scan overwrites the status under the earlier run's READY (`documents.ts:935`).
- The duplicate dialogue does not continue: the surfaced session is VALIDATING, which the
  next completion refuses, and the decision `cancel` asserts a transition that the
  table lacks (`documents.ts:415`, `:553`; `CompleteRefused`,
  `CompleteCancelsDuplicate`).
- After a scanner ERROR a retry throws: the version is retryable, the document's
  REJECTED status is not (`documents.ts:935`, `RetryThrows`).
- A crashed or raised job can leave a document unsettled, and a redelivered one
  inserts its artifacts twice; `DocumentSettles` is stated without faults.
- An archived document is revived by the final statement of a run that was still
  going (`process_document.py:451`).

**Events, deadlines, detection**

- A recalculation that ends BLOCKED or in REVIEW_REQUIRED takes the live deadline with it,
  so a deadline can be UPCOMING on an unverified calculation. Tracking and recalculating at
  the same time leaves a live deadline on a superseded one, and a late verification
  overwrites SUPERSEDED.
- Two overlapping calendar approvals leave two APPROVED revisions (`deadlines.ts:669`).
- `requestMoreEvidence` has no status guard (ADR-056:12: accepted and rejected
  suggestions stay durable): an ACCEPTED suggestion can be reopened and accepted into a second event.
- The comment at `detectors.ts:128` says that negated, disclosed and contractor-caused language
  skips the positive suggestion. The condition below it (`:129`) leaves contractor-caused language out:
  the suggestion is made, with a contradiction and low confidence (`:145`).
- A calendar without a working weekday makes the engine walk to its limit and return that
  date; with BACKWARD or START_OF_DAY a deadline can precede its trigger.

**Contracts**

- No service writes `countingConvention`, so no rule configured through them is executable
  (ADR-031:7, ADR-037:10).
- A supersession overlapping an approval leaves a revision active while the package points
  to none; the DRAFT a supersession makes can never leave DRAFT; an analysis sets the package
  to REVIEW_REQUIRED under an active revision; a change request can overwrite SUPERSEDED, and
  two approvals at once double the snapshots.

**Connectors**

- A FAILED run advances the checkpoint (ADR-092:10), and failed records are never retried.
- The first sync overwrites `lastCheckpoint`, where the scope's filters are kept.
- With an ACTIVE scope every webhook rolls back: the handler updates a row that the
  append-only trigger protects (`connectors.ts:947`, slice 8 migration 692-706).
- The FAILED status of a sync is written inside the transaction that rolls back
  (`connectors.ts:424`). Disabled accounts still sync.

**Operations and platform**

- REVIEW_QUEUE_BACKLOG has one dedupe key for all projects (ADR-095:10); a settled alert is
  never raised again when its condition comes back; two evaluations at once double an alert;
  assignments write an old status back. `nextEscalationStep` reports no due step that has a
  successor.
- The alert of `assertTenantLimit` rolls back with its refusal, and no service calls it, nor
  consults a kill switch; row level security refuses a global switch.
- Approval and revocation of support access overlap to an active session on a revoked
  request; two approvals make two sessions; expiry is not enforced.
- The configuration check compares the roles of the two database urls only if both can be
  read: a url without a user, or one that does not parse, passes as separate
  (`production-validate.ts:64-72`, `:105-119`).
- The provider factories of connectors and notice delivery refuse fakes only when APP_ENV says
  `staging` or `production` (`connectors/src/providers.ts:352`,
  `notice-delivery/src/providers.ts:226`); they resolve no environment, so a pilot, or
  CONTRACTRADAR_ENV alone, gets one. ADR-103:45-46 says that factories must resolve the environment
  and that fakes are "blocked in PILOT/PRODUCTION". The policy table itself allows none.
- `isDeployAllowed` does not look at the approval's environment; readiness may say
  READY_WITH_EXCEPTIONS while `canActivate` is false; the configuration check passes
  without a malware scanner being set.

**Notices**

- *Snapshot of two texts*. Only APPROVED revisions refuse edits, so a superseded one can be
  edited and approved again, and a dispatch snapshot selects its old bundle
  (`notice-delivery.ts:353`).
- Two overlapping approvals both stay APPROVED; an edit that passed its check before an
  approval commits after it (ADR-069 calls the revision immutable).
- A requirement stays SATISFIED when its fact is disputed afterwards, a DISPUTED fact can be
  approved for drafting, and one verified recipient satisfies the requirement for all.
- An answer changed while it is verified is resolved unread; attachments added at the same
  time share a sequence number.
- AI text is searched for dates only when an event date is approved, and a foreign date is
  reported only when a deadline is approved too (`ai-schema.ts:84-101`); the comment there and
  ADR-066:10 ("Reject invented facts/dates") make no such exception.
- `validateDispatchReadiness` compares the pinned checksums with themselves. The PDF shows
  40 lines of 90 characters and '?' for what is not ASCII.
- Two webhooks on different recipients of one attempt aggregate without
  each other's update, and the later commit can say DELIVERED over a bounce. A
  webhook before the send's commit finds no attempt. A webhook after
  `confirmContractualService` overwrites RECEIPT_CONFIRMED (ADR-080).
- An authorization or revocation that waited for a send writes over USED. The
  send does not look at the package, so a withdrawn notice can be sent.
- Recipients {FAILED, SUBMITTED} aggregate to DELIVERY_PENDING: a failure
  beside a submission is not shown as partial (`domain.ts:26`).

**Projects and limits**

- The archived check precedes the write, so a change that overlaps an archiving lands in an
  archived project. The last PROJECT_ADMIN may be demoted.
- A crash between INCR and EXPIRE leaves a counter that never expires and, once full,
  refuses its key for good.

## 6. Plan

Done in this order: `OutboxDispatch` with `JobDelivery`, `DocumentUpload`,
`DocumentProcessing`, `NoticeApproval`, `NoticeDispatch`, each with its proofs; then
`EventAnalysis` with its three parts, `DeadlineEngine` and the other pure modules under
`Algorithms`, and the seven services under `Services`; then the proofs for `EventAnalysis`
and `Services`, of the properties that hold while handlers do not overlap, and of what the
pure packages compute.

Next, the most important first:

1. `IngestionPipeline`, composing upload, outbox and worker over the abstract
   `JobDelivery`: an accepted version is eventually settled, without assuming the
   hand-over.
2. An abstract specification of tracked deadlines, a chain of dates that moves only by a
   recorded recalculation, implemented by `Deadlines`.
3. The single-row operations listed in section 1.5, as far as another operation comes to
   read them.

The runs take from a few seconds to two minutes each. The run `services` is meant to take
further small components; one that comes to share rows with another leaves it for a
composition of its own, as `EventAnalysis` is.
