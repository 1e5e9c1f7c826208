# Smart-Bill-AI: a TLA+ model of billing, from the delivered file to the printed page

Smart-Bill-AI takes billing files (GMF files: bulk text files of customer
bills, or spreadsheets of letters), lets administrators approve them,
renders one PDF per customer document into batch folders for print or mail, and
notifies the customers. This directory holds TLA+ modules for the parts of it
where a mistake costs most and is hardest to test: the **generation queue**, in
which API requests and worker processes share database rows and a directory
and nothing else; the **intake** in front of it; the **parsers and renderers** that
turn a document into pages; and what stands beside it: the notification
outbox, the cache of users, the self-seal artwork and the test runs.

`worker_queue.py` is `app/billing/worker_queue.py`, `billing.py` is
`app/api/routers/billing.py`, `<layout>/parser.py` and `<layout>/renderer.py` are in
`Models/SmartAI_Bill/templates/`; paths are relative to the repository.

1. Inventory of the system
2. Modules and how they follow the code
3. Runs
4. Fairness
5. Proofs
6. Disagreements between code and documentation
7. Abstractions, and what is not modelled

## 1. Inventory

| component | state it keeps | operations | interacts through |
|---|---|---|---|
| Ingestion (`uploads/watcher.py`, `upload-gmf` in `billing.py`, `sftp/sftp_poller.py`) | rows `gmf_uploads`, directories `queue/pending`, `queue/incoming`, drive folders | detect a file, identify its template, register or re-register its row, move it | rows and directories of the queue |
| Template approval (`update_template_status`) | `invoice_templates`, and the rows of the files concerned | approve, reject | moves files, rewrites rows, opens runs in auto mode |
| Run and upload deletion (`billing.py`) | none of its own | delete an upload, a run, all of them | removes rows and files others may hold |
| Generation requests (`billing.py`) | rows `gmf_uploads`, `billing_runs`, `billing_run_failures`; sidecars `<name>.meta.json` | `generate-batch`, `generate/{id}`, `runs/{id}/retry`, `approve`, `reject` | writes rows, stages files for the workers |
| Generation workers (`worker_queue.py`) | the file held, its offset, what is left of its limit | claim, read the sidecar, render a chunk, copy PDFs, count, put the source away, fail | rows, `queue/incoming`, batch folders |
| Document slicing (`core/gmf_splitter.py`, `processing/batch_processor.py`) | none | filter by approved template, slice by offset and limit, render | called by the workers and by the retry task |
| Bill parsing (`<layout>/parser.py`, `core/bill_common.py`) | a dict of the bill, a dozen loop variables | one line after the other | called for each document |
| Rendering (`<layout>/renderer.py`, `core/pdf_renderer.py`) | page, column, height | draw part after part | takes the parsed bill |
| Run ledger (`billing_runs`) | status, total, succeeded, failed | opened, counted, closed, retried, deleted | written by six places in two programs, read by every view |
| Batch folders (`_copy_pdf_to_batch`, `output_manager.py`) | `Batch_1`, `Batch_2`, ..., a lock file | choose a folder with room, choose a free name, copy | all workers at once |
| Archiver and summary groups (`output_manager.py`) | batch folders, `manifest.json` | regroup PDFs | moves PDFs out of batch folders without the lock |
| Notification outbox (`app/notifications`) | `notification_outbox` | scan invoices, send, retry | mail and SMS gateways |
| User cache, permission requests (`auth/dependencies.py`, `users.py`) | accounts, grants, requests, a cache of 60 s per process | read through, change, decide, invalidate | every request |
| Envelope artwork, test runs, reset (`envelope.py`, `self_seal_appender.py`, `super_admin.py`) | `envelope_artworks`, `gmf_test_runs`, composite and report files | upload, submit, approve, reject, delete; append a seal; start and carry out a run; reset | files; the print of a bill asks for the seal |
| Billing schedules (`billing/schedules.py`, `billing_scheduler.py`) | `billing_schedules`, approvals | evaluate, approve, reject, trigger | starts batches |

Hard behaviours. *Concurrency*: several worker processes (and four worker threads
inside the API), several requests, watcher threads, background tasks; transactions of
a few statements, one row lock in the whole generation path (`with_for_update`,
worker_queue.py:258). *Files against rows*: every handler changes a directory
and the database in some order, and a failure falls between. *Stale reads*: a
request decides on rows it read long before it writes; sessions run with
`autoflush=False, expire_on_commit=False` (`app/db/base.py`), so a value read
before a commit is still used after it, and a commit writes only the columns that
differ from what was read. *Messages*: a mail leaves before the row that says so
is committed. *Arithmetic of progress*: one counter per file is at once "documents
done" and "where to resume", under a set of approved templates that may change.
*Loops over lines*: what a line of a bill means depends on flags set by lines far
above it, and where it is printed on the exact height of everything above it.
*Time*: a lock given up after 30 s, a cache of a minute, workers that poll.

What makes each component correct: a delivered file is never lost; every approved
document is printed once and counted once; what is printed carries every charge,
event and subtotal at its place and nothing over anything else; a run's row tells the truth
and comes to an end; a file has one holder; a batch folder respects its cap and no
PDF is written over; a message is sent, recorded, and not sent again without a
reason; a caller is answered with roles the account has or had a moment ago; a bill
carries the seal in force; a test run ends. `PROJECT.json` lists the hazards line by
line with the properties that watch them.

## 2. Modules and how they follow the code

```
DocumentSlicing ── MCDocumentSlicing          GmfParsing ── BillLayouts ── BillParser ── MCBillParser
      │                                       PageFlow ── PageLayouts ── BillRenderer ──┬── MCBillRenderer
 QueueState ──┬── QueueWorker ───┐
              └── QueueRequests ─┴── GenerationQueue ──┬── MCGenerationQueue      └── BillRendererProofs
                                       │ INSTANCE      └── GenerationQueueProofs
                                   RunLedger                       └── DocumentProofs
 Intake ──┬── MCIntake                        NotificationOutbox ── OutboxProofs
          └── IntakeProofs                         │ INSTANCE
 UserAccess ──┬── MCUserAccess                OutboxPromise
              └── UserAccessProofs            BatchFolders ── BatchFolderProofs
 AdminPortal ── AdminPortalProofs
```

The documents of a file are data to the queue (which documents render), lines to the
parser, and numbers of lines to the renderer; a file is one value in Intake and
becomes a sequence of documents in the queue.

### The generation queue

**DocumentSlicing** - pure operators. A file is a sequence of templates, one per
document; a slice is the set of indices it holds. `Slice` filters first and then
cuts, as `split_gmf_documents` does. `RenderText` gives one PDF per document
that renders; `RenderSheet` is all or nothing, as a spreadsheet is one
document for `process_single_file`. `RemainingByTemplate` and `RemainingRows` are
the two branches of `_calculate_upload_approved_counts`.

**QueueState** - the shared variables. `status, upRun, processed, procBy, path` are
the columns of `gmf_uploads`; `rstatus, rtotal, rsucc, rfail, failures` those of
`billing_runs` and `billing_run_failures`; `disk[u]` the directories that hold a
copy of file u, `meta[u]` its sidecar in the queue. `job[w]` holds the local
variables of a worker with a program counter, `req[q]` those of a request. The
writers of the counters (`Tally`, `UpdateBillingRun`, `RecordFailure`) stand here
because both programs use them. Four history variables, read by no action's guard,
serve the properties: `printed`, `copied`, `retried`, and `raced` (files a request
took while they were queued or being rendered, or with an offset that was stale at
its commit).

**QueueWorker** - `_worker_process`, one action per transaction, rename or rendering
step:

| pc | action | code |
|---|---|---|
| idle | `Claim` | rename of a queued file (449-475) |
| meta | `ReadMetadata` | sidecar read and unlinked, defaults without one (477-510) |
| lookup | `LookupUpload` | row, run, fallback limit (512-537) |
| unknown | `UnknownTemplate` | file without a template (539-572) |
| open | `CreateBillingRun`, `CreateBillingRunFails` | a run of its own (597-614) |
| gate | `CheckRunFull` | the file is given back (649-668) |
| loop | `NextChunk` | what the run still wants, rendering (671-694) |
| cap | `CapPdfs` | second look at the run, PDFs cut (708-740) |
| copy | `CopyPdf` | one PDF at a time (742-746) |
| count | `LockRun` | row lock on the run, unlocked read of the upload (769-780) |
| write | `CountChunk` | the commit; offset moved (780-803) |
| finish | `Finish`, `FinishFails` | source file and row put away (819-935) |
| failed | `HandleFailedUpload` | Failed/, failure row, one failed account (317-408) |

`Raise` may send a worker from any step whose exceptions reach the outer handler
to `failed`; `WorkerCrash` may kill it anywhere.

**QueueRequests** - `generate-batch` is `FilterBatch` (everything is decided on
rows read now), `CommitBatch` (run inserted, rows marked), then for each file
`StageMeta` and `StageData`, and `FinishBatch`, with `StageFails` for an exception.
`generate/{id}` is `GenerateSingle`, then `MoveToQueue` or `MoveToQueueFails`.
`Approve` and `Reject` are one transaction each. `ApiCrash` ends a request
wherever it is. The retry of a run is two transactions of the request and a background task
with a session of its own:

| pc | action | code |
|---|---|---|
| idle | `RetryFailedRun` | the check of failures and status (1300-1305) |
| retrycommit | `CommitRetry` | RUNNING is committed, if it was not what was read (1307-1311) |
| retryload | `LoadFailures`, `UploadsGone` | failures and uploads read; without one the task returns (1223-1232) |
| | `RetryLoadFails` | an exception before the `try`: nobody handles it |
| retrysave | `SaveRetry` | counters, failure rows and verdict from the values read (1239-1281) |
| | `RetryFails` | an exception of rendering or copying: FAILED (1283-1286) |
| | `RetrySaveFails` | the database fails, and so does the handler's commit of the same session |

A retry that ends in `BreakOff` (no upload found, no handler, a failed commit, process death)
stays `"dead"` with the run it was for: whatever that run reads then, nothing corrects it.

**GenerationQueue** - the composition and the properties. **RunLedger** - the
abstract specification of a run's row: it is opened once for a fixed total, its
counters only grow, `succeeded` stays within the total, it closes only when every
account has an outcome, with the verdict the failures call for. The queue implements
it under the identity mapping of `rstatus, rtotal, rsucc, rfail, retried`.
**BatchFolders** - `_copy_pdf_to_batch` under its lock; `CopyPdf` of the queue
is one passage through it.

### Intake

**Intake** - how a file gets into the queue and a row. `drive` and `queue` say which
delivery stands under which name; `rows` is `gmf_uploads` with an id of its own per
row, for rows are deleted and names come again.

| actor | actions | code |
|---|---|---|
| watcher thread | `OnEvent`, `ScanExistingFiles`; `Plan` (under the lock of its process), `MoveToQueue`, `CommitRow` or `CommitFails` | watcher.py:176-477 |
| background task, a file | `Upload`, `StageRow`, `StageMove`, `StageCommit` | billing.py:2104-2225 |
| background task, a ZIP | `Upload`, `ZipRow` (row first), `ZipCopy` | billing.py:2242-2351 |
| template approval | `SetTemplate`, `CascadeLoad`, `CascadeMove` file by file, `CascadeCommit` | billing.py:1731-1928 |
| deletion | `DeleteUpload` | billing.py:2421-2452 |
| worker | `Claim`, `LookUpRow`, `DeleteOrphan`, `WorkDone` | worker_queue.py:449-521, 819-928 |

A read and the commit based on it are two actions; `Over` writes the columns that
differ from what was read, as the ORM does. What the worker does with a file that has
a row is one step with three outcomes here; QueueWorker tells it in full.

### From lines to pages

**GmfParsing** holds the data and the helpers the parsers share (or copy from each
other): blocks of charges, usage sections with tables, the phone number finder, the
discount collector. A dict is an entry of a sequence, a reference to it an index.
**BillLayouts** has, for each of the eight layouts, what its loop does with a line of
each kind, in the order its `if`s try them. **BillParser** is the loop; its actions are
the writer of the document, which appends a line where the billing system writes such
a line, and the parser takes the line in the same step. So every prefix of every
document within the bounds is parsed.

**PageFlow** has the vocabulary of the renderers: a command asks for room, moves the
cursor, draws. **PageLayouts** gives for each of ten layouts the commands it draws a
bill with, in the order of its `render()`, with the heights of the code in
hundredths of a point. **BillRenderer** carries them out, one command per step. `line`
is the line drawn last, with how far it is below the floor of its page (`over`) and whether
it is a heading that found the room it asked for; `rows` counts the rows of tables.

### Beside the queue

**NotificationOutbox** - `scan_and_send`: `Scan`, `Take`/`InsertRow` per invoice,
`ScanSms`, `CommitRows`; then `ReadRows`, `Send`/`RecordAnswer` per row,
`FinishScan` (service.py:64-256). Rows a scan has flushed and not committed (`dirty`)
block the statements of another scan on the same key (`Wait`, `Granted`);
`DeadlockVictim` is what the database does about a circle of waits, `Crash` ends a
scan anywhere, and the answer of the provider may be lost. Beat does not keep
scans from overlapping, and the command line starts them as well. **OutboxPromise** is
the abstract specification: per invoice and channel a phase (none, queued, sent,
failed, dead, unreachable), what a transaction may make of it, and when a message may
leave. `Phase(outbox[k])` and `delivered` are the refinement mapping.

**UserAccess** - one account. A management call is `CreateUser`, `DeleteUser`,
`UpdateUserRoles`, `ApproveRequest` or `RejectRequest` (the read), `Prepare` (its
statements), `Commit` or `Refuse` (unique or foreign key), `Invalidate` (users.py:113-482).
`get_current_user` is `BeginCall`, `LookUp`, `ReadUser`, `ReadGrants`, `Fill`
(dependencies.py:203-299). `past` remembers which roles the account had until when.

**AdminPortal** - artwork: `BeginUpload`/`UploadArtwork`, `OpenArtwork` (read) and
`SubmitForApproval`, `ApproveArtwork`, `RejectArtwork` (commit), `RemoveArtwork` or
`DeleteAllArtworks` (files) and `CommitDelete` (rows). A bill: `DrawBill`, and two
passes of `AskSeal`/`AppendSeal` (batch_processor.py:286-297, worker_queue.py:696-706).
A test run: `CheckTestRun`, `StartTestRun`, and its thread. `ResetRows`, then
`ResetFiles`. `seen` collects the seals in force while a bill is printed.

## 3. Runs

All runs but Outbox say `CHECK_DEADLOCK FALSE`: requests are made at most once or a
bounded number of times and nobody must make one, a document or bill ends, so these
systems may come to rest. In Outbox beat goes on for ever, and a deadlock of the
scans would be a real one.

| run | instance | states | shows |
|---|---|---|---|
| Slicing | all files of 1-4 documents, 2 templates, any approved set, any bad documents | 3 436 | slice = list code; partial runs resume exactly |
| BatchRace | 2 files (mixed text, spreadsheet), 2 requests, 2 workers, limits 1 and none | 660 000 | documents once, counters = output, one holder, sidecars, COMPLETED undone by stale commits only |
| BatchFaults | the same files, 1 request, limits 1, 3, none, approve and reject at any time, ≤ 1 of worker death, exception, failed last transaction, API death; fair | 110 000 | types, counters against copies, runs do not overprint, files survive, full runs close; without a fault, runs end and files leave GENERATING |
| Ledger | 2 files (one of unknown template, the other with a document that does not render), batch, single and retry, 3 requests, 1 worker, ≤ 1 fault of any kind | 920 000 | failed against failure rows, a retry leaves a verdict, refinement of RunLedger |
| BatchFolders | 3 workers, 1 name, cap 2, 5 copies, fair | 131 000 | exclusion, cap, names, bounded overrun, every copy ends |
| Outbox | 2 invoices without an address, one with a telephone, 2 scans, 2 attempts, ≤ 1 crash or lost answer, fair | 45 900 | refinement of OutboxPromise, no double from a rerun, rows for every invoice, every row settles, no deadlock |
| Access | an account, 2 management calls, 1 reader, 2 processes, 1 request, lists of none, one role, ADMIN; 3 instants, cache of 1 | 3 126 000 | an answer is at most one cache lifetime old |
| Intake | 2 deliveries (a cycle, Test_GMFs) of 1 template, 2 watcher threads of one process, 1 task, 2 rows, 2 lookups, 1 decision, failing work | 693 000 | no delivery lost, COMPLETED was printed |
| Parse | 8 layouts; 3 blocks, 2 labels, 2 charges / 2 items of 2 groups, 1 event, 2 families / 2 closing lines | 1 896 000 | charges, events, subtotals, phone number at their place |
| Pages | 10 layouts; 0-40 charges with and without products, 0, 1 or 3 of each other list, usage tables up to 4 rows, with and without arrears notice; and bills one list or table of which has 1-75 lines | 1 864 000 | reading order, floor, headings, every row once |
| Portal | 2 artworks, 2 administrators, 1 bill at a time, 2 test runs of ≤ 1 file, 5 requests, fair threads | 523 000 | the seal in force, test runs end |
| SameFamily | nonvat_home, bounds of Parse | - | section 6 |

*Why these bounds.* Two templates and two or three documents give every offset,
limit and per-template counter a document before, at and after it, and let a
limit end inside a file and between two files. One spreadsheet and one text file
exercise both branches of rendering and counting; `ChunkSize = 1` (50 in the code)
makes a spreadsheet take several turns of the loop. Two workers and two requests
are the least that race, and Ledger has a third because two retries of one run need a
request that opened it; the faults are counted (`MaxFaults`) because each fault
takes a file out of play. Three copiers make two of them give up on the lock held
by a third, and with a cap of two, five copies of one name meet a taken name, a full
folder and a folder overfilled by all three. Two scans with two keys each can wait for
each other in a circle; two attempts make a row fail, be tried again and die. Mails
and texts are sent by the same actions, so one kind of message that leaves is enough to
see them, beside rows that nobody can be reached by; the theorems hold for any mix.
Access begins where a first call has created an account, a state `Spec` reaches, for the
two calls left must both find it to race. There
an instant before, at and after the end of a cache entry are enough to tell a hit
from a miss, and two processes one that is told from one that is not. In Intake two
deliveries under two names meet every path (the lookup of a worker goes by name
alone, Test_GMFs files stay on the drive), and one decision is a whole cascade; two
lookups instead of three only shorten the time the watcher has. In Parse three blocks
make an open, a nested and a repeated one; two groups an empty and a full one; the three
parts of a document use different variables of the parser and are written
separately. In Pages 40 charges run over the first page and well into the second in each
layout, so every part after them begins at each height a line apart; 75 lines of one list
are more than a page holds, so a list that asks for its room once, or never, runs out of it. `MaxCopies`,
`MaxFaults`, `MaxRequests`, `MaxDecisions`, `MaxTime`, `RowIds`, `Runs`,
`Requests`, `Tickets` and the `Max...` of Parse and Pages are the only bounds on
behaviours. Workers, requests, threads, handlers and processes are symmetric in the
safety runs; the runs with liveness use no symmetry.

*Conditions in properties.* `raced` exempts a file from the moment a request takes it in one
of two ways, both of which the code allows and section 6 shows. Either the file is *in hand*:
queued, being rendered or about to be queued (two requests that race, `OneRunAtATime`, or one
that follows an approval or a single request of a queued file). Or it is *stale*: nobody holds
it, but it was rendered further after the filter, and the offset that goes into the sidecar
(billing.py:1169) is older than the row; the row may even read COMPLETED, and no status tells.
In both cases documents are printed twice (`SkipsProcessed`), and nothing that rests on
offsets holds any more. `CompletedIsFinal` is about the second case: it takes the exemption of
the state before, so the stale commit is in it, named as the one step that undoes COMPLETED.
`retried` excludes runs whose counters the retry task rewrites. `gaveUp` splits the batch
folder properties into what the lock gives and what is left (`OverrunBounded`) when somebody
gives up on it. `overlapped` does the same for scans: RerunNeverDoubles is about scans one
after the other, the rest of the promise about all. `BatchRace` uses files whose documents all
render and a fixed set of approved templates; section 6 says what happens otherwise.
`Superseded` in `RowsKept`, and `Overhang` and `Unasked` in `FloorKept`, are the cases where
the code loses events or goes below the floor. `Overhang` says how far below a line may be
that is drawn without asking: 12 points for the first line of a second column or the heading
of the charges in detail, 34.2 for the first table of nonvat_home and 44.1 for a usage table
of the grouping layouts, these two after the first page only. `Unasked` names the parts that
ask for nothing however long their list is, and the bills that hold more in one piece than a
page does (68 payments, a name of 36 lines); there no floor is promised. The theorem shows
that nothing else goes below; section 6 has the places in the code.

## 4. Fairness

`WF(WorkerStep(w))` for each worker: the loop polls for ever and the supervisor
starts a new process in place of a dead one (worker_queue.py:1010-1021).
`WF(RequestStep(q))` for each request that was accepted: a request or background
task runs to its end. No fairness on making requests, approvals or faults. In
`BatchFolders`, weak fairness of the part of a worker that is inside
`_copy_pdf_to_batch`: it polls every 10 ms until it has the lock or 30 s are
over. No lock fairness is assumed; `PlacementEnds` holds because of the 30 s. In
`NotificationOutbox`, `WF(ScanStep(s))`: beat starts a scan every 15 minutes
(celery_app.py:13-22), a scan that was started runs on, and the database serves those
that wait in order (`Granted`) and breaks circles. In `AdminPortal`,
`WF(ThreadStep(r))`: the thread of a test run runs to its end; nothing else there is
obliged to happen. Intake, UserAccess, parsers and renderers are checked for safety.

Progress of the queue is claimed **until something fails** (`faults = 0` in `RunsEnd`
and `QueueDrains`) and with documents that render. The code recovers nothing: a
worker killed with a file leaves the row GENERATING and the run RUNNING for good, and
generate-batch then refuses the file. The outbox does recover: its progress is
claimed with crashes and lost answers.

## 5. Proofs

All theorems hold for every value of the constants that satisfies the named
assumptions (`QueueAssumption`: finitely many files and workers, documents over the
templates, NULL values outside their types; `BatchAssumption`: finitely many workers, a positive
cap; `UnlimitedAssumption`; `OutboxAssumption`, `OutboxNulls`; `AccessAssumption`;
`ArtworkAssumption`: artworks are numbered, and among any of them one is the newest;
`IntakeAssumption`, `IntakeNulls`: NULL values outside their types, no thread is both a
watcher and an upload task; `RenderAssumption`: the ten layouts, and bills of the shape the
parsers give them, of any size).

**BatchFolderProofs.** `TypeCorrect`, `LockExcludes`, `NothingLost`,
`OverrunWithinWorkers`, `CapHolds`. The cap alone is not inductive, for between
the count of a folder and the copy into it other workers may count it too. The
invariant counts them: the *load* of folder n is the number of its PDFs plus
the number of workers that have chosen n and not written yet. With the lock
respected at most one worker is choosing, so load ≤ cap; without it each worker adds
at most one to a folder it saw below the cap, hence the bound cap - 1 + workers.
`LockInv` ties the program counters to the owner of the lock and, while nobody has
given up, the name chosen to its absence from the folder.

**GenerationQueueProofs.** `TypeCorrect`. `TypeOK` alone is not inductive:
`Holding` adds that a worker outside `idle` holds a file and rendered documents
of it, and `Running` what a request remembers in each phase. One lemma per action.
The second half is the ledger. `QueueKeepsLedger`: the queue implements RunLedger, and from it
`CountersWithinTotal` and `ClosedRunsAccounted`. The steps need to know that a run
a row, a job, a sidecar or a request refers to has been opened (`RowsRefer`,
`JobsRefer`, `SidecarsRefer`, `RequestsRefer`), that a retried run has, and that
the counters of other runs are natural numbers with succeeded ≤ total
(`Counted`); `LedgerInv` is their conjunction. A request's
second write of `total_accounts` is a stutter because `RequestsRefer` says it writes the
value it inserted. Three theorems about the counters and the verdict follow:

- `FailuresAgree` (no hypothesis): `failed` is the number of failure rows. The property
  counts the rows as a set of pairs, one set per file; the `Pairs...` lemmas say how its
  cardinality moves when one row is added.
- `RetriesEnd` (no hypothesis): a retried run is RUNNING only while a retry is under way, or
  after one broke off. What a retry writes at its end depends on the status it read, because
  the ORM leaves an equal value out; the invariant (`RetryUnderWay`) therefore asks of a
  retry at its last step that it read RUNNING. Such a retry exists although another one
  may have closed the run meanwhile: each task reads the run again before it renders. The mutant
  that goes on in the session of the request loses the verdict of a run it read as PARTIAL.
- `CountedArePrinted`: nothing is counted before it is copied. What is counted and what
  is copied differ by what workers have copied and not yet written (`Due`), so the
  invariant is succeeded + all that is due ≤ copied, a sum over the workers. Hypothesis:
  a worker never goes on without a run (`"openrun"` is not in `Faults`). What such a worker
  copies is on no run's account, and is then counted on the run the row names by that
  time: with three requests TLC finds the run that counts what was not copied for it.

**DocumentProofs.** What becomes of the documents and of the file, whoever
takes it. *Raced* is short for a file taken while in hand or with a stale offset (section 3).
`OneHolderAlways` has no hypothesis: `OneInstance` says that a file which was
not raced is with at most one of the queue, a worker and a request that is about to
queue it. `FilesKept`: batch requests copy the file, so its master copy stays in
pending or Processed (`MasterKept`). The others rest on one invariant, `CountInv`, that
ties five views of the progress of a file together: the counter of the row
and the breakdown by template (`CountersOK`), the offset, chunk and pending PDFs of the
worker that holds it (`HeldOK`), the offset in the sidecar (`SidecarOK`), the offset a
request has computed and not yet queued (`ChosenOK`), and the status (`StatusOK`).
Its core is that the documents already done are an *initial part* of the approved ones
(`Initial`), and an initial part is determined by its size: that is why a single
number can stand for what was printed. `Initial...` and `Render...` are the lemmas on
slices this needs. `PrintInv` adds that what is in the output is exactly what is
counted, plus the chunk the holder has copied and not yet counted.

| theorem | hypotheses besides batch requests | why they are needed |
|---|---|---|
| `CompletedStaysCompleted` | steady files, no failed staging, no approve or reject of a file | a failed staging writes FAILED, a decision APPROVED or FAILED, over any status; the stale commit that drags a finished file back is not excluded but named (`TakenStale`), and `FinishedKept` shows that every other step keeps COMPLETED |
| `AccountedRunsClose` | steady files, no failed staging, no file raced | the request adds the files it could not stage to `failed` without looking at the sum; a raced file may have lost its source by then, which is one more way not to be staged |
| `SidecarsOwned` | steady files, no failed staging, no death of a process | whoever dies between sidecar and file leaves the sidecar behind |
| `PrintedOnce` | steady files, no death and no exception of a worker | between copy and count they leave documents in the output that no counter knows, and whoever takes the file next prints them again; raced files are exempt in the property, for the code prints them twice |
| `CompletedIsWhole` | steady files | what is counted was printed (`WholeInv`), so a file whose counter is full is whole, whatever crashes or raises; raced files are exempt |

*Batch requests* (`BatchOnly`): a single request starts at document 1 whatever was
printed and moves the master copy itself; the retry of a run renders whole files
again. *Steady files* (`SteadyFiles`): the approved templates stay the same and every
document renders, because the offset counts approved documents that rendered - when
the approvals change, the same offset means other documents; section 6 shows both. All
other faults are in, as are any number of files, runs, requests, workers, limits and
chunk sizes.

The hypotheses were lifted one at a time in small instances. Most are limits of the
code: TLC then finds the property violated. Some are only what the common
invariant needs, and TLC finds no violation in those instances without them:
changing approvals and single requests for `SidecarsOwned` and `AccountedRunsClose`,
single requests for `CompletedStaysCompleted`, and the retry of a run for `PrintedOnce` and
`CompletedIsWhole`. (Retries and
`SidecarsOwned`, and changing approvals or retries and `CompletedStaysCompleted`,
showed no violation either, in searches that did not end.)

*What a run may print.* The second half of the module. What a run may still print is spread over requests that have not
queued a file yet, sidecars in the queue and workers, each with a limit of its own, and
a worker compares only `succeeded` with the total before it copies. `Granted(r, u)` is
the set of documents of u that somebody has been given a limit for on account of r;
`Owed(r)` collects them over the files, and `Unprinted(r)` leaves out what a worker has
copied and not counted. The invariant `WithinBudget` is

    rsucc[r] + |Owed(r)| <= rtotal[r]    and    copied[r] + |Unprinted(r)| <= rtotal[r].

It is a set of documents, not a sum of limits, because a limit may exceed what is left of
the file, and because handing the file on leaves the set as it is. A request spends its
budget file by file (`FirstPairs`: documents that stand among the first n of the pool are n at
most), so what it asks for is within the total it inserts (`AskedWithin`). For that its
count of what is left must be right: `Exact` says that the breakdown by template counts
the documents that are done. `HeldBudget` says that the chunk of a worker lies
within its limit, so that the cap at copying cuts nothing off and `gen` is what was rendered.

- `RunsPrintWithin` (`PrintedWithinRun`): batch requests, steady files, no file raced.
  Any crash, exception or failed commit may come in between.
- `CountersTellOutput` (`CountsMatchOutput`): besides, no death and no exception of a
  worker, as for `PrintedOnce`, and a template recognised in every file: in a
  file without one billing.py finds nothing left, whatever was printed.

Both suppose fewer documents than `Unlimited`, the number that stands for
`float('inf')` in the code. The invariant was checked by TLC on several instances, up to 1.5
million states, before it was proved.

**IntakeProofs.** `IntakeInvariant` says what everything at the intake stands for:
what lies on the drive or in the queue was delivered under that name
(`FilesOK`), a row belongs to a key that was delivered (`RowsOK`), a thread or task
knows a row of its own key, or one that is deleted by now, and a watcher between move
and commit holds the lock of its process (`RegOK`), the worker's row has the name of its
file (`HandOK`), and what the cascade remembers of a row has that row's key (`CascOK`).
Each step is one lemma, and a second one where the step moves rows, which says what it
does to them: rows keep their key and once deleted stay so (`RowsKept`), and only
the worker writes COMPLETED (`NoneCompleted`).

- `CompletedOnlyPrinted`. Hypothesis (`NamesTell`): deliveries of one name come under one
  folder, for the worker looks a row up by the name alone; two cycles with a file of the same
  name exchange their COMPLETED.
- `DeliveriesKept`: what has its name for itself is never lost. The watcher unlinks what
  stands at its destination before it moves the file, so the invariant must show that
  what it unlinks is not the file itself, queued by somebody else. `BillOK` follows a
  delivery: once it has left the drive somebody answers for it - a row, a watcher about
  to write one, an upload task (`Followed`); so a watcher that found no row under the
  lock still finds the file on the drive, and the row a thread refers to is gone only if
  somebody deleted the upload. Hypotheses: all watchers are threads of one process
  (`OneLock`), and no commit fails after the move; with either lifted TLC loses a file.

**OutboxProofs.** `RerunIsSafe` and `KeepsPromise`, the refinement the run Outbox checks,
and `TypeCorrect`. What a scan has flushed is not in the table yet, so the
invariant speaks of both: rows fit their key and do not claim a send that did not
happen, committed or not (`Committed`, `Pending`); no two transactions hold a row
(`Exclusive`); what a scan inserts is new, and what it sends it has read sendable
(`Inserting`, `Sending`). For the count of messages, `Alone` says that as long as scans
have not overlapped at most one is under way, and what it has read is what the
table says; `Counted` adds up: a message that left and is not recorded as sent stands
for a fault, or is about to be recorded.

**UserAccessProofs.** `TypeCorrect` and `AnswersAreRecent`. The claim about an answer is
not inductive: it rests on the age of the cache entry it came from. `CacheFresh` says of an
entry that its roles were held since TTL before it ends, `Fresh` says the same of a call
from the moment it read the account, and of the grants it has not read yet nothing. Every
commit keeps both, for `Write` puts what the account had until now into `past`.

**AdminPortalProofs.** `SealIsApproved`: while a bill is printed, the answer the worker
holds was in force if its file is still there, and is the seal in force if that never
changed (`Printing`); the query's newest approved artwork and the seal in force are
the same (`NewestIsMax`).

**BillRendererProofs.** The four properties of the renderers for every bill: any number
of references and products, any lists, any tables in any sections, names of any length. What
a layout draws is a sequence of commands computed from the bill, so the argument has two halves.

- *Rules.* `Rule(k, P, ops, Q)`: from every spot in P (cursor, last line, rows counted) the
  commands `ops` can be drawn one after the other, each in order, with its heading and within
  the floors of frame k (`Good`), and end in Q. A rule of a command comes from what the command
  asks for (`TextFits`, `RoomFits`, ...); rules compose like the commands do: `RuleJoin` for two
  blocks, `RuleEach` for a list, `RuleCount` for tables that add to the rows. Sets of spots are
  named by *facts* (`Facts`, `Holds`): one column or two, the first page left or not, a heading
  just drawn and the room kept below it, the room that is known above the floor, the rows so far.
  There is a rule for each list, table and section of each layout, and one for each part.
- *The invariant.* `LeadingInv`: what is left of the part being drawn leads from the present
  spot to where the flow may be when the part ends (`Between`), and `FloorKept`. A step takes
  one command off the rule; when a part has ended, the next one starts from there (`LeadsOn`).
  Nothing weaker is inductive: whether a line fits depends on what was asked for several
  commands before, in two columns on another page.

`RendererFloorKept`, `RendererReadingOrder` and `RendererHeadingKept` are what `Good` says of
each line, `RendererRowsDrawnOnce` is what the last `Between` says of the rows. Induction over the
bill is on a number: the library's induction theorems cannot be instantiated with an operator,
but well-foundedness of the natural numbers can be cited for a set (`Induction`), and that is
enough for sums (`AddedIs`), for blocks put one after another (`FlattenIs`), for the accounts
summary_statement has placed (`SplitIs`), and for a rule repeated over a list. To make this possible
the model computes sums and pages by recursive functions where it had folds.

The proof corrected the property. `FloorKept` once said that only the first line of a second column
goes below a floor; where a rule could not be proved, TLC found the bill that breaks it as soon as
one list was allowed to be longer than a page, and those bills are now in Pages (`LongBills`).

*Only model-checked*: liveness (`RunsEnd`, `QueueDrains`, `PlacementEnds`,
`EveryInvoiceQueued`, `OutboxSettles`, `TestRunEnds`); the slices of a file against the list
code (`SliceIsListSlice`, `ResumeIsExact`); and the parsers (`ChargesKept`, `RowsKept`,
`SubtotalsBelong`, `PhoneHasCharge`), whose state is a record of sequences rewritten by
eight loops: what a document's later lines find there depends on the whole document, and the
properties compare two sequences element by element. The safety invariants of the
queue, the intake, the outbox, the accounts, the portal, the batch folders and the
renderers are all proved, under the hypotheses named above.

## 6. Disagreements between code and documentation

One is a run that TLC must refute.

1. **SameFamily** - vat_home/parser.py:6-11 and invoice_of_summary/parser.py:161-169
   describe it and do better: five layouts (nonvat_home, vat_enterprise,
   nonvat_enterprise, subscription_ref_grouping, product_label_grouping) key their usage
   sections by the family of the item tag, so a second item block of a family replaces
   the first and its events are printed nowhere (nonvat_home/parser.py:125-131).

The others have no configuration of their own; the property is in its module, and
the instance given makes TLC refute it.

2. README.md:202 "Batch jobs skip already processed accounts". The offset advances by
   PDFs copied, not by documents consumed (worker_queue.py:794-797): after a document
   that fails to render, the next chunk repeats one that was printed.
   (`NoDocumentTwice`, one batch request, Docs <- Mixed, Bad <- FirstBad.)
3. billing.py:345 "records still pending generation for approved templates". The offset
   counts documents among the templates approved *then* and cuts among those approved
   *now*: one document is printed twice, another never. (`CountsMatchOutput`, two
   batch requests with limit 1, Docs <- Interleaved, ApprovedChoices <- AnyApproved.)
4. billing.py:1194 "so the run status stays consistent". A run whose last outcome is a
   staging failure is never closed (billing.py:1209-1217 counts and does not look).
   (`AccountedIsClosed`, one batch request, Faults = {"stage"}.)
5. billing.py:1115 "already actively generating ... Please wait". Check, then act,
   without a lock: two requests both pass. (`OneRunAtATime`, two batch requests, no faults.)
6. billing.py:945 "blocks generation". The worker never looks at the status of the
   file it prints. (`RejectBlocksGeneration`, Endpoints = {"batch", "reject"}.)
7. docs/NOTIFICATIONS.md:14-16 "emailed once and texted once - ever". A scan cut off
   between the send and its commit, or overlapping with another, sends again; the
   constraint is on rows, not on messages. (`SentOnceEver` in the Outbox instance;
   `RerunNeverDoubles` says what is left of it.)
8. users.py:231 "Update primary role to first in list": assigned against a stale row the
   column is not written when it equals what was read, so after two overlapping updates
   the primary role may be the one of the call that committed first. (`PrimaryFollowsList` in the
   Access instance.)
9. billing.py:1768 "Cascade status update to pending uploads": the cascade writes rows it
   read at its start, and a file taken up and finished meanwhile is pending again.
   (`CascadeTouchesPending` in the Intake instance.)
10. watcher.py:241 "Avoid duplicate records": the lock is one per process, and the
    tasks of upload-gmf do not take it. (`OneRowPerKey`, ProcessOf <- TwoProcesses.)
11. vat_enterprise/renderer.py:592-593 "so the header never gets stranded alone at the bottom of
    a column" and vat_home/renderer.py:422-425 "Orphan control": a break into the second
    column does not ask again, and where the first column starts low the heading
    is drawn there without room. (`NoStrandedHeading` in the Pages instance, for vat_home,
    nonvat_home, vat_enterprise, nonvat_enterprise; `HeadingKept` is what holds.)

12. billing.py:984 "GMF is already generating/completed" of a single request; a batch request
    too takes only what waits (billing.py:1089). A request passes a file in its filter (1081-1099), a worker
    finishes it, and the commit (1149-1152) writes GENERATING over COMPLETED. (`CompletedStays`,
    two batch requests, no faults; `CompletedIsFinal` is what holds.)
13. README.md:202 "Batch jobs skip already processed accounts" once more, with documents that all
    render: the sidecar of that request carries the offset of its filter (billing.py:1169), so a
    file that moved on meanwhile is printed again from there, though nobody else holds it.
    So is a file taken while in hand. (`SkipsProcessed`, two batch requests, no faults.)
14. bill_common.py:187 "Must be a 10-digit SLTPRODUCTLABEL": the loops offer the finder the labels
    of groups, promotions and references as well (vat_home/parser.py:247, 262, 391,
    nonvat_home/parser.py:197, 213), and one of those may become the number of the bill.
    (`PhoneIsProductLabel` in the Parse instance; `PhoneHasCharge` is what holds.)

Met while modelling, without a property of their own:

- *Queue.* Two requests that raced share a run's room and may print beyond it
  (worker_queue.py:721 against the unlocked read at 726-734); a failed move leaves the
  run of a single request RUNNING (billing.py:1030); a single request is accepted
  again while its file is queued (billing.py:1005 sets APPROVED); a file whose last
  documents all fail ends with no outcome for them and the run stays RUNNING
  (worker_queue.py:739); the cap of a batch folder is exceeded when the lock times out
  (worker_queue.py:142-146 against the docstring at 180-183), within `OverrunBounded`; a
  retry re-renders a whole file, counts documents where `failed` counts files, and
  can leave `failed` negative. A retry may leave its run RUNNING with nobody at work on it,
  which the docstring of the task does not say ("retry only the failed files", billing.py:1222):
  it returns without a word when the uploads are gone (1231-1232) or when another retry has cleared
  the failures after the unlocked check (1304-1308); an exception of its first queries is
  outside the `try` (1223-1234); a failed statement or commit fails the handler's commit on the
  same session too (1281-1286); and a process that dies leaves it so.
- *Intake.* The rejection of any template rejects every waiting upload without an
  approved one, whatever its own templates, and takes approved queued files back
  (billing.py:1900-1925); a worker may throw away as an orphan a file whose row the watcher
  is about to commit (worker_queue.py:512-521); a commit that fails after the move leaves
  a file in the queue without a row; a ZIP rewrites rows that are GENERATING or COMPLETED
  (billing.py:2304-2312). `NothingLost` counts an orphan as thrown away on purpose.
- *Users.* An approval and a rejection of one request that overlap leave it REJECTED with
  its roles granted; "take effect immediately" (dependencies.py:52) is not true of
  the other processes, where it takes up to a minute.
- *Parsers.* product_label_grouping/parser.py:745 says "10 or 11 digits" and takes ten.
- *Renderers.* product_label_grouping draws adjustments and discounts without asking for
  room, and below its floor; it and subscription_ref_grouping draw cancelled payments
  and messages at fixed heights that the flow may have reached; the usage of
  invoice_of_summary flows over the payment slip of its first page; the first line of a second column
  may stand up to 12 points below the floor. Its "Charges in Detail" asks for no room either
  (invoice_of_summary/renderer.py:353-375). In the grouping layouts a usage table after the first
  page looks whether the cursor has *passed* the floor and then draws heading, column heads and,
  below the rows, totals (subscription_ref_grouping/renderer.py:541-624, where the docstring at
  506 says "Identical logic to nonvat_enterprise"; there every row asks): up to 44.1 points
  below. nonvat_home does the same with the first table when it is moved off the first page
  (nonvat_home/renderer.py:553-574), up to 34.2. The total of product_label_grouping asks for 9
  points and moves down 10 (product_label_grouping/renderer.py:354-362). The payments of the
  grouping layouts are asked for in one piece, which a page cannot give to more than 68, and
  summary_statement draws a name of more than 36 lines past the foot of its page.
- *Portal.* The seal is chosen by `created_at`, the start of its upload, where the docstring
  says "most-recently approved" and "valid composite PDF on disk" (self_seal_appender.py:52,
  79): there is no second choice when the file of the first is missing. The worker's pass has
  no address for the seal it appends. Two starts of a test run both pass the check for a
  running one (super_admin.py:239). The history of decisions is listed by the start of their
  transactions (models.py:301, envelope.py:616), so an approval opened before and committed
  after a rejection is shown below it while the artwork reads APPROVED; a stale approval is
  logged while the status stays what another session made of it. The reset removes files after
  its commit, so what is written in between loses its file, and a test run in its thread
  leaves its report behind a reset ("Completely wipes ...", super_admin_service.py:941-946). A
  process that dies leaves its test run RUNNING, and 409 from then on.

## 7. Abstractions, and what is not modelled

*Queue.* `pending` stands for queue/pending, Staged and the cycle folder, searched in turn. A
transaction is one action where nothing it read unlocked matters; where it does
(`LockRun`/`CountChunk`), it is two. `Finish` and `CheckRunFull` are one action each. The
number of documents in a row (`total_records_count`) is taken to be exact. Spreadsheets are
both cut into chunks and rendered as rows; text files in No_Cycle or Test_GMFs, which are
chunked too, are not modelled. Run breakdowns, output paths, timestamps and the deletion of
the remote copy are left out: no decision of the queue reads them. A retry reads run, failures
and uploads in one step, and a flush or commit of it fails after all its PDFs were copied.
`UnknownTemplate` does not fail in the model. In `Finish`, the repair of an empty breakdown
(worker_queue.py:833-834) is left out: breakdown and count are written together, so one is not
empty alone.

*Intake.* The content of a delivery is its set of templates. Counters and breakdown of a
row are one flag, `proc`. The work on a file with a row is one step. Files are dropped, not
half written (watcher.py:222 waits a tenth of a second for the copy to end).

*Users.* One account: transactions of different accounts do not meet. The two accounts
with fixed roles and the roles ADMIN1 and SUPER_ADMIN are left out.

*Parsers.* A line has a number, a kind, an amount that is zero, something or ROLLUP, and a
name that is a phone number or not. Rental and initiation amount of a promotion group
are one. Descriptions, dates, `detail_name`, the subtotals inside the blocks of
subscription_ref_grouping and product_label_grouping, marketing and suspension messages are left out.
Documents have what the billing system writes: every event group ends with a
subtotal line, promotion groups stand inside reference blocks, usd_open_item documents
have none and close each product, the lines around the amounts of taxes are present. No usage
detail of a product (SLTPRODLABELUSAGEDET) stands inside a promotion group: nonvat_home
(nonvat_home/parser.py:185-250) and others would drop it silently there, subscription_ref_grouping
would charge it.

*Renderers.* A bill is its numbers of lines. Head, address, payment slip and QR code at
fixed coordinates are not modelled. A cell of invoice_of_summary is one line high, and so is
a heading; its page-1 flag is "on page 1". References are all named in
subscription_ref_grouping; a tax is printed when it is there. A section without tables is not in
`Bill`, for the parser or the renderer drops it (nonvat_enterprise/renderer.py:480,
usd_open_item/parser.py:456); a table may have no rows.

*Portal.* Composites have names of their own (two uploads of one type in one second would
share one). Validation of a test file and the address overlay are left out, and so is the log
of decisions (`EnvelopeHistory`, its listing and deletion, envelope.py:612-635): nothing else
reads it. The folder of the composites is not cleared by the reset, as in the code.

*Not modelled:*

- **Billing schedules.** There is no behaviour to check. `schedules.py` sets
  `send_email` and `send_sms`, which `BillingSchedule` does not have (models.py:187-201),
  and inserts approvals without `batch_name`, which is NOT NULL; `batch.py` is a stub. The
  older cron scheduler (billing_scheduler.py:15-58) sets GENERATING, opens a RUNNING run, commits,
  and then asks for the event loop in a thread that has none; the function it would start,
  `_background_generate`, consists of a docstring (billing.py:967-968). Whatever it
  picks stays GENERATING.
- **delete_run, delete_all_runs, delete_all_uploads** (billing.py:1508-1563, 2455-2497): one
  transaction each over rows the other models keep apart.
- **SFTP poller** (`sftp_poller.py`): fetches files into the watched folders, where it is `Drop`.
- **Archiver and summary groups**: regroup printed PDFs by a manifest; only that PDFs leave
  batch folders without the lock is in BatchFolders.
- **Template identification, GMF reading**: pattern matching over text; its result is data here.
- **Credit notes, letters of demand, VAT confirmations**: parsers and renderers of a page
  each, without the blocks, breaks and repetitions the properties are about.
- **Legacy GMF core**, **frontend**, **migrations and seed data**.

## Running

`tlc -config BatchRace.cfg MCGenerationQueue.tla` (also BatchFaults, Ledger);
`MCDocumentSlicing.cfg`, `BatchFolders.cfg` with the module of that name; `Outbox.cfg` with
`NotificationOutbox.tla`, `Access.cfg` with `MCUserAccess.tla`, `Intake.cfg` with
`MCIntake.tla`, `Parse.cfg` and `SameFamily.cfg` with `MCBillParser.tla`, `Pages.cfg` with
`MCBillRenderer.tla`, `Portal.cfg` with `AdminPortal.tla`. `tlapm` on each module that ends in
`Proofs`. `PROJECT.json` maps every definition to the lines it models and names, for
each property of a passing run, a plausible bug that breaks it.
