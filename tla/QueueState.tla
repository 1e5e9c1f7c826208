----------------------------- MODULE QueueState -----------------------------
(***************************************************************************)
(* Invoice generation: the endpoints of app/api/routers/billing.py that     *)
(* queue GMF files, the worker processes of app/billing/worker_queue.py     *)
(* that take them, and the state both share with nothing but database rows  *)
(* and a directory between them:                                           *)
(*   - the rows gmf_uploads (one per file) and billing_runs (one per        *)
(*     request), written in transactions of a few statements each;          *)
(*   - queue/incoming, where a file is claimed by renaming it, with a       *)
(*     sidecar <name>.meta.json beside it.                                  *)
(* An action is one transaction, one rename or one rendering step: what the *)
(* code does between two points where another process may be seen.  Row     *)
(* locks are the only mutual exclusion (Locked).                            *)
(*                                                                         *)
(* The names of the files are the ids of their rows (a file registered      *)
(* again keeps its row), and a document is an index into its file.          *)
(***************************************************************************)
EXTENDS DocumentSlicing

CONSTANTS
  Uploads,           \* ids of gmf_uploads rows
  Workers,           \* worker processes
  Runs,              \* ids billing_runs rows may take, in order of creation
  Requests,          \* the requests administrators make, each made once
  Templates,         \* template codes
  Docs,              \* the documents of each file, by template
  Sheets,            \* the files that are spreadsheets
  Undetected,        \* the files whose template was not recognised
  Bad,               \* the documents of each file whose rendering raises
  ApprovedChoices,   \* what the set of approved templates may be
  Limits,            \* the batch sizes asked for
  ChunkSize,         \* rows of a spreadsheet rendered at a time (50)
  NoRun,             \* billing_run_id is NULL
  NoUpload,          \* a worker that holds no file
  Endpoints,         \* the endpoints in use
  Faults,            \* the kinds of fault that may happen
  MaxFaults          \* how many of them (bound of the model)

ASSUME QueueAssumption ==
  /\ Uploads \subseteq Nat /\ IsFiniteSet(Uploads)
  /\ Runs \subseteq Nat
  /\ IsFiniteSet(Workers)
  /\ Docs \in [Uploads -> Seq(Templates)]
  /\ Sheets \subseteq Uploads
  /\ Undetected \subseteq Uploads
  /\ Bad \in [Uploads -> SUBSET Nat]
  /\ ApprovedChoices \subseteq SUBSET Templates
  /\ Limits \subseteq Nat \ {0}
  /\ ChunkSize \in Nat \ {0}
  /\ NoRun \notin Runs
  /\ NoUpload \notin Uploads
  /\ MaxFaults \in Nat

VARIABLES
  \* gmf_uploads
  status,            \* status
  upRun,             \* billing_run_id
  processed,         \* processed_records_count
  procBy,            \* processed_breakdown: documents by template
  path,              \* file_path: the place it names
  \* billing_runs and billing_run_failures
  rstatus, rtotal, rsucc, rfail,
  failures,          \* failure rows of each run, by file
  \* the file system
  disk,              \* the places that hold a copy of the file
  meta,              \* the sidecar waiting in queue/incoming, if any
  stray,             \* a copy no row and no process refers to any more
  \* processes
  job,               \* what each worker is doing
  req,               \* how far each request is
  faults,            \* faults so far
  \* history
  printed,           \* how often each document was copied to the output
  copied,            \* PDFs copied to the output on account of each run
  retried,           \* runs for which a retry was requested
  raced              \* files a request took while they were in hand, or idle files
                     \* it took with an offset that was no longer theirs

row == <<status, upRun, processed, procBy, path>>
run == <<rstatus, rtotal, rsucc, rfail>>
files == <<disk, meta, stray>>
history == <<printed, copied, retried, raced>>
vars == <<row, run, failures, files, job, req, faults, history>>
-----------------------------------------------------------------------------
(* Types *)

UploadStatus ==
  {"PENDING_APPROVAL", "APPROVED", "GENERATING", "PARTIALLY_PROCESSED",
   "COMPLETED", "FAILED"}

\* The statuses from which a file may be queued.
Ready == {"APPROVED", "PENDING_APPROVAL", "PARTIALLY_PROCESSED"}

\* "pending" stands for queue/pending, Staged and the cycle folder, which the
\* code searches one after the other for the master copy.
Places == {"pending", "incoming", "Processed", "Failed"}

RunId == Runs \cup {NoRun}

SidecarType ==
  [off : Nat, lim : Nat, run : RunId, appr : SUBSET Templates]

WorkerPC ==
  {"idle", "meta", "lookup", "unknown", "open", "gate", "loop", "cap", "copy",
   "count", "write", "finish", "failed"}

JobType ==
  [pc : WorkerPC, up : Uploads \cup {NoUpload}, known : BOOLEAN,
   run : RunId, off : Nat, rem : Int, appr : SUBSET Templates,
   rend : SUBSET Nat, pdfs : SUBSET Nat, gen : Nat, tgt : RunId,
   seenP : Nat, seenB : [Templates -> Nat], seenS : UploadStatus,
   made : [Templates -> Nat]]

IdleJob ==
  [pc |-> "idle", up |-> NoUpload, known |-> FALSE,
   run |-> NoRun, off |-> 0, rem |-> 0, appr |-> {},
   rend |-> {}, pdfs |-> {}, gen |-> 0, tgt |-> NoRun,
   seenP |-> 0, seenB |-> [t \in Templates |-> 0], seenS |-> "APPROVED",
   made |-> [t \in Templates |-> 0]]

RequestPC ==
  {"idle", "commit", "meta", "data", "finish", "move", "retrycommit",
   "retryload", "retrysave", "done", "dead"}

RunStatus == {"absent", "RUNNING", "DONE", "PARTIAL", "FAILED"}

RequestType ==
  [pc : RequestPC, todo : SUBSET Uploads, bad : SUBSET Uploads, run : RunId,
   total : Nat, off : [Uploads -> Nat], lim : [Uploads -> Nat],
   appr : SUBSET Templates, clear : SUBSET Uploads, repath : SUBSET Uploads,
   src : [Uploads -> Places], seenS : Int, seenF : Int, seenR : RunStatus,
   seenC : SUBSET Uploads]

NewRequest ==
  [pc |-> "idle", todo |-> {}, bad |-> {}, run |-> NoRun,
   total |-> 0, off |-> [u \in Uploads |-> 0], lim |-> [u \in Uploads |-> 0],
   appr |-> {}, clear |-> {}, repath |-> {},
   src |-> [u \in Uploads |-> "pending"], seenS |-> 0, seenF |-> 0,
   seenR |-> "absent", seenC |-> {}]

DoneRequest == [NewRequest EXCEPT !.pc = "done"]

\* A retry that ended before its last transaction, and the run it was for.
DeadRequest(r) == [NewRequest EXCEPT !.pc = "dead", !.run = r]

\* Every document of every file.
DocIds == UNION {{u} \X DOMAIN Docs[u] : u \in Uploads}

TypeOK ==
  /\ status \in [Uploads -> UploadStatus]
  /\ upRun \in [Uploads -> RunId]
  /\ processed \in [Uploads -> Nat]
  /\ procBy \in [Uploads -> [Templates -> Nat]]
  /\ path \in [Uploads -> Places]
  /\ rstatus \in [Runs -> RunStatus]
  /\ rtotal \in [Runs -> Nat]
  /\ rsucc \in [Runs -> Int]
  /\ rfail \in [Runs -> Int]
  /\ failures \in [Runs -> [Uploads -> Nat]]
  /\ disk \in [Uploads -> SUBSET Places]
  /\ meta \in [Uploads -> SUBSET SidecarType]
  /\ stray \in [Uploads -> BOOLEAN]
  /\ job \in [Workers -> JobType]
  /\ req \in [Requests -> RequestType]
  /\ faults \in Nat
  /\ printed \in [DocIds -> Nat]
  /\ copied \in [Runs -> Nat]
  /\ retried \in SUBSET Runs
  /\ raced \in SUBSET Uploads

Init ==
  /\ status \in [Uploads -> {"PENDING_APPROVAL", "APPROVED"}]
  /\ upRun = [u \in Uploads |-> NoRun]
  /\ processed = [u \in Uploads |-> 0]
  /\ procBy = [u \in Uploads |-> [t \in Templates |-> 0]]
  /\ path = [u \in Uploads |-> "pending"]
  /\ rstatus = [r \in Runs |-> "absent"]
  /\ rtotal = [r \in Runs |-> 0]
  /\ rsucc = [r \in Runs |-> 0]
  /\ rfail = [r \in Runs |-> 0]
  /\ failures = [r \in Runs |-> [u \in Uploads |-> 0]]
  /\ disk = [u \in Uploads |-> {"pending"}]
  /\ meta = [u \in Uploads |-> {}]
  /\ stray = [u \in Uploads |-> FALSE]
  /\ job = [w \in Workers |-> IdleJob]
  /\ req = [q \in Requests |-> NewRequest]
  /\ faults = 0
  /\ printed = [p \in DocIds |-> 0]
  /\ copied = [r \in Runs |-> 0]
  /\ retried = {}
  /\ raced = {}
-----------------------------------------------------------------------------
(* The rows of billing_runs, as every writer touches them *)

\* SELECT ... FOR UPDATE in _update_billing_run: from the read of the row to
\* the commit, nobody else writes it.
Locked(r) ==
  r # NoRun /\ \E w \in Workers : job[w].pc = "write" /\ job[w].tgt = r

\* What the run may still count.
Room(r) == LargerOf(0, rtotal[r] - rsucc[r])

Verdict(failed) == IF failed = 0 THEN "DONE" ELSE "PARTIAL"

\* The next id of the billing_runs sequence.
NextRun(r) ==
  /\ rstatus[r] = "absent"
  /\ \A s \in Runs : s < r => rstatus[s] # "absent"

InsertRun(r, total) ==
  /\ rstatus' = [rstatus EXCEPT ![r] = "RUNNING"]
  /\ rtotal' = [rtotal EXCEPT ![r] = total]
  /\ UNCHANGED <<rsucc, rfail>>

\* (mutant) the run is closed one outcome too early
TallyEarly(r, succ, fail) ==
  /\ rsucc' = [rsucc EXCEPT ![r] = succ]
  /\ rfail' = [rfail EXCEPT ![r] = fail]
  /\ rstatus' = [rstatus EXCEPT ![r] =
                   IF succ + fail + 1 >= rtotal[r] THEN Verdict(fail) ELSE @]
  /\ UNCHANGED rtotal

\* (mutant) the run is closed by the outcome after the last
TallyLate(r, succ, fail) ==
  /\ rsucc' = [rsucc EXCEPT ![r] = succ]
  /\ rfail' = [rfail EXCEPT ![r] = fail]
  /\ rstatus' = [rstatus EXCEPT ![r] =
                   IF succ + fail > rtotal[r] THEN Verdict(fail) ELSE @]
  /\ UNCHANGED rtotal

\* Write the counters, and close the run once every account has an outcome.
Tally(r, succ, fail) ==
  /\ rsucc' = [rsucc EXCEPT ![r] = succ]
  /\ rfail' = [rfail EXCEPT ![r] = fail]
  /\ rstatus' = [rstatus EXCEPT ![r] =
                   IF succ + fail >= rtotal[r] THEN Verdict(fail) ELSE @]
  /\ UNCHANGED rtotal

\* _update_billing_run.  With nothing generated it only looks whether the run
\* is complete.
UpdateBillingRun(r, generated) ==
  IF r = NoRun
  THEN UNCHANGED run
  ELSE Tally(r,
             IF generated > 0
             THEN SmallerOf(rtotal[r], rsucc[r] + generated)
             ELSE rsucc[r],
             rfail[r])

\* (mutant) the failure is counted and not recorded
RecordFailureNoRow(u) ==
  LET r == upRun[u]
  IN  IF r = NoRun
      THEN UNCHANGED <<run, failures>>
      ELSE /\ ~Locked(r)
           /\ Tally(r, rsucc[r], rfail[r] + 1)
           /\ UNCHANGED failures

\* Both failure handlers: one failed file is one failed account, whatever the
\* file holds.
RecordFailure(u) ==
  LET r == upRun[u]
  IN  IF r = NoRun
      THEN UNCHANGED <<run, failures>>
      ELSE /\ ~Locked(r)
           /\ Tally(r, rsucc[r], rfail[r] + 1)
           /\ failures' = [failures EXCEPT ![r][u] = @ + 1]
-----------------------------------------------------------------------------
(* What both sides use *)

\* The faults of a run of the model are counted.
Fault(kind) ==
  /\ kind \in Faults
  /\ faults < MaxFaults
  /\ faults' = faults + 1

Holds(w, u) == job[w].pc # "idle" /\ job[w].up = u

\* process_single_file on the whole file or a slice of it.
Render(u, approved, offset, limit) ==
  IF u \in Sheets
  THEN RenderSheet(Docs[u], Bad[u], approved, offset, limit)
  ELSE RenderText(Docs[u], Bad[u], approved, offset, limit)
=============================================================================
