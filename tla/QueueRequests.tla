--------------------------- MODULE QueueRequests ----------------------------
(***************************************************************************)
(* The administrators' requests of app/api/routers/billing.py that queue    *)
(* files, retry a run, approve or reject a file.  A request is a sequence   *)
(* of transactions and file operations of one API process.                 *)
(***************************************************************************)
EXTENDS QueueState

(* POST /generate-batch *)

At(q, pc) == req[q].pc = pc

\* _resolve_upload_file_path: file_path unless it names the queue, then the
\* places in this order.
Resolvable(u) == disk[u] # {}

Resolved(u) ==
  IF path[u] \in disk[u] \ {"incoming"} THEN path[u]
  ELSE IF "pending" \in disk[u] THEN "pending"
  ELSE IF "Processed" \in disk[u] THEN "Processed"
  ELSE IF "incoming" \in disk[u] THEN "incoming"
  ELSE "Failed"

\* _calculate_upload_approved_counts, as the documents it counts.
Remaining(u, approved) ==
  IF u \in Undetected THEN {}
  ELSE IF u \in Sheets THEN RemainingRows(Docs[u], approved, processed[u])
  ELSE RemainingByTemplate(Docs[u], approved, procBy[u])

Generating(u) == status[u] = "GENERATING"

InActiveRun(u) == upRun[u] # NoRun /\ rstatus[upRun[u]] = "RUNNING"

\* The part of the filter that may touch the row before it is rejected.
Considered(u) == ~Generating(u) /\ ~InActiveRun(u)

Eligible(u, approved) ==
  /\ Considered(u)
  /\ status[u] \in Ready
  /\ Resolvable(u)
  /\ Remaining(u, approved) # {}

\* The documents that wait in the eligible files among ids; the budget is
\* spent on them file by file in the order of the ids.
Pool(ids, approved) ==
  UNION {{u} \X Remaining(u, approved) :
           u \in {v \in ids : Eligible(v, approved)}}

Before(pool, u) == Cardinality({p \in pool : p[1] < u})

\* (mutant) the budget is read after the loop, not at the file
FileLimitLate(pool, u, limit) ==
  IF limit = Unlimited THEN Unlimited ELSE limit - Cardinality(pool)

\* (mutant) the file's own count, whatever is left of the budget
FileLimitUnbudgeted(pool, u, limit) == Cardinality({p \in pool : p[1] = u})

FileLimit(pool, u, limit) ==
  IF limit = Unlimited
  THEN Unlimited
  ELSE SmallerOf(Cardinality({p \in pool : p[1] = u}), limit - Before(pool, u))

\* The files that will be generated, and the rows the loop reaches before the
\* budget ends.
Chosen(ids, limit, approved) ==
  {u \in ids : /\ Eligible(u, approved)
              /\ Before(Pool(ids, approved), u) < limit}

Reached(ids, limit, approved) ==
  {u \in ids : /\ Considered(u)
              /\ \A v \in ids : v < u /\ Eligible(v, approved)
                                => Before(Pool(ids, approved), v) < limit}

\* What the request holds in memory after the filter: budget, offsets and
\* limits, the run ids it will drop and the paths it will correct.
BatchRequest(ids, limit, approved) ==
  LET pool == Pool(ids, approved)
      chosen == Chosen(ids, limit, approved)
      reached == Reached(ids, limit, approved)
  IN  [NewRequest EXCEPT
         !.pc = "commit",
         !.todo = chosen,
         !.total = LargerOf(1, SmallerOf(limit, Cardinality(pool))),
         !.off = processed,
         !.lim = [u \in Uploads |-> IF u \in chosen
                                    THEN FileLimit(pool, u, limit) ELSE 0],
         !.appr = approved,
         !.clear = {u \in reached : upRun[u] # NoRun},
         !.repath = {u \in reached : status[u] \in Ready /\ Resolvable(u)
                                       /\ Resolved(u) # path[u]},
         !.src = [u \in Uploads |->
                    IF Resolvable(u) THEN Resolved(u) ELSE path[u]]]

\* The filter: everything is decided on the rows as they are now, and nothing
\* is written yet.  A file in an active run is passed over; a run id that is
\* not active is dropped from the rows reached before the budget ends.
FilterBatch(q) ==
  /\ "batch" \in Endpoints
  /\ At(q, "idle")
  /\ \E ids \in SUBSET Uploads, limit \in Limits, approved \in ApprovedChoices :
       /\ Chosen(ids, limit, approved) # {}
       /\ req' = [req EXCEPT ![q] = BatchRequest(ids, limit, approved)]
  /\ UNCHANGED <<row, run, failures, files, job, faults, history>>

\* The file is queued, rendered or about to be queued by another request.
InHand(u) ==
  \/ "incoming" \in disk[u]
  \/ \E w \in Workers : Holds(w, u)
  \/ \E q \in Requests : u \in req[q].todo /\ req[q].pc \in {"meta", "data", "move"}

\* The first commit: the run row, and the chosen rows marked.  Only changed
\* columns are written.
CommitBatch(q) ==
  /\ At(q, "commit")
  /\ \E r \in Runs :
       /\ NextRun(r)
       /\ InsertRun(r, req[q].total)
       /\ status' = [u \in Uploads |->
                       IF u \in req[q].todo THEN "GENERATING" ELSE status[u]]
       /\ upRun' = [u \in Uploads |->
                      IF u \in req[q].todo THEN r
                      ELSE IF u \in req[q].clear THEN NoRun
                      ELSE upRun[u]]
       /\ path' = [u \in Uploads |->
                     IF u \in req[q].repath THEN req[q].src[u] ELSE path[u]]
       /\ req' = [req EXCEPT ![q] = [@ EXCEPT !.pc = "meta", !.run = r]]
  /\ raced' = raced \cup {u \in req[q].todo :
                          InHand(u) \/ processed[u] # req[q].off[u]}
  /\ UNCHANGED <<processed, procBy, failures, files, job, faults, printed,
                 copied, retried>>

\* What of the request is left once its last step is over, and of a retry that
\* breaks off.
Close(q) == req' = [req EXCEPT ![q] = DoneRequest]

BreakOff(q) == req' = [req EXCEPT ![q] = DeadRequest(req[q].run)]

\* The files are staged in the order of their ids, after the commit.
Staging(q, u) == u \in req[q].todo /\ \A v \in req[q].todo : u <= v

Sidecar(q, u) ==
  [off |-> req[q].off[u], lim |-> req[q].lim[u], run |-> req[q].run,
   appr |-> req[q].appr]

\* os.replace of <name>.meta.json: whatever was there is overwritten.  The
\* offset is the one read before the commit.
StageMeta(q) ==
  /\ At(q, "meta")
  /\ \E u \in Uploads :
       /\ Staging(q, u)
       /\ meta' = [meta EXCEPT ![u] = {Sidecar(q, u)}]
  /\ req' = [req EXCEPT ![q] = [@ EXCEPT !.pc = "data"]]
  /\ UNCHANGED <<row, run, failures, disk, stray, job, faults, history>>

\* The file is dealt with: the next one, or the last transaction.
Staged(q, u, bad) ==
  LET rest == req[q].todo \ {u}
  IN  req' = [req EXCEPT ![q] = [@ EXCEPT !.todo = rest, !.bad = req[q].bad \cup bad,
                !.pc = IF rest = {} THEN "finish" ELSE "meta"]]

\* (mutant) the copy stays under its temporary name
StageDataUnderTmp(q) ==
  /\ At(q, "data")
  /\ \E u \in Uploads : Staging(q, u) /\ Staged(q, u, {})
  /\ UNCHANGED <<row, run, failures, files, job, faults, history>>

\* Copy under a temporary name, then os.replace into the queue; a file that is
\* already there by its file_path is left as it is.
StageData(q) ==
  /\ At(q, "data")
  /\ \E u \in Uploads :
       LET src == req[q].src[u]
       IN  /\ Staging(q, u)
           /\ IF src = "incoming" \/ src \notin disk[u]
              THEN UNCHANGED disk
              ELSE disk' = [disk EXCEPT ![u] = @ \cup {"incoming"}]
           /\ Staged(q, u, IF src = "incoming" \/ src \in disk[u] THEN {} ELSE {u})
  /\ UNCHANGED <<row, run, failures, meta, stray, job, faults, history>>

\* Any exception while staging, before or after the sidecar is in place.
StageFails(q) ==
  /\ At(q, "meta") \/ At(q, "data")
  /\ Fault("stage")
  /\ \E u \in Uploads : Staging(q, u) /\ Staged(q, u, {u})
  /\ UNCHANGED <<row, run, failures, files, job, history>>

\* (mutant) the session writes back the GENERATING it still holds in memory
FinishBatchWritesBack(q) ==
  LET r == req[q].run
      bad == req[q].bad
  IN  /\ At(q, "finish")
      /\ ~Locked(r)
      /\ status' = [u \in Uploads |->
           IF u \in bad THEN "FAILED"
           ELSE IF req[q].lim[u] > 0 THEN "GENERATING" ELSE status[u]]
      /\ failures' = [failures EXCEPT ![r] =
                        [u \in Uploads |-> IF u \in bad THEN @[u] + 1 ELSE @[u]]]
      /\ rtotal' = [rtotal EXCEPT ![r] = req[q].total]
      /\ rfail' = [rfail EXCEPT ![r] = @ + Cardinality(bad)]
      /\ Close(q)
      /\ UNCHANGED <<upRun, processed, procBy, path, rstatus, rsucc, files,
                     job, faults, history>>

\* The second commit: total_accounts again, and the staging failures.
FinishBatch(q) ==
  LET r == req[q].run
      bad == req[q].bad
  IN  /\ At(q, "finish")
      /\ ~Locked(r)
      /\ status' = [u \in Uploads |-> IF u \in bad THEN "FAILED" ELSE status[u]]
      /\ failures' = [failures EXCEPT ![r] =
                        [u \in Uploads |-> IF u \in bad THEN @[u] + 1 ELSE @[u]]]
      /\ rtotal' = [rtotal EXCEPT ![r] = req[q].total]
      /\ rfail' = [rfail EXCEPT ![r] = @ + Cardinality(bad)]
      /\ Close(q)
      /\ UNCHANGED <<upRun, processed, procBy, path, rstatus, rsucc, files,
                     job, faults, history>>

\* The API process dies in the middle of a request or of a background task.
ApiCrash(q) ==
  /\ req[q].pc \notin {"idle", "done", "dead"}
  /\ Fault("apicrash")
  /\ IF req[q].pc \in {"retrycommit", "retryload", "retrysave"}
     THEN BreakOff(q) ELSE Close(q)
  /\ UNCHANGED <<row, run, failures, files, job, history>>
-----------------------------------------------------------------------------
(* POST /generate/{upload_id} *)

\* One file, one account.  The run the file may already be in is not asked.
GenerateSingle(q) ==
  /\ "single" \in Endpoints
  /\ At(q, "idle")
  /\ \E u \in Uploads, r \in Runs :
       /\ status[u] \in Ready
       /\ path[u] \in disk[u]
       /\ NextRun(r)
       /\ InsertRun(r, 1)
       /\ status' = [status EXCEPT ![u] = "APPROVED"]
       /\ upRun' = [upRun EXCEPT ![u] = r]
       /\ req' = [req EXCEPT ![q] = [@ EXCEPT !.pc = "move", !.todo = {u},
                    !.src = path]]
       /\ raced' = IF InHand(u) THEN raced \cup {u} ELSE raced
  /\ UNCHANGED <<processed, procBy, path, failures, files, job, faults,
                 printed, copied, retried>>

\* The master copy itself is MOVED into the queue, without a sidecar; a file
\* of the same name in the queue is deleted first.
MoveToQueue(q) ==
  /\ At(q, "move")
  /\ \E u \in req[q].todo :
       LET src == req[q].src[u]
       IN  /\ src = "incoming" \/ src \in disk[u]
           /\ disk' = IF src = "incoming" THEN disk
                      ELSE [disk EXCEPT ![u] = (@ \ {src}) \cup {"incoming"}]
           /\ path' = [path EXCEPT ![u] = "incoming"]
  /\ Close(q)
  /\ UNCHANGED <<status, upRun, processed, procBy, run, failures, meta, stray,
                 job, faults, history>>

\* The move raises, because the file is gone or for a reason of its own: the
\* row is put back, the run that was opened is not.
MoveToQueueFails(q) ==
  /\ At(q, "move")
  /\ \E u \in req[q].todo :
       LET src == req[q].src[u]
       IN  /\ src # "incoming"
           /\ IF src \in disk[u] THEN Fault("move") ELSE UNCHANGED faults
           /\ disk' = [disk EXCEPT ![u] = @ \ {"incoming"}]
           /\ status' = [status EXCEPT ![u] = "PENDING_APPROVAL"]
           /\ upRun' = [upRun EXCEPT ![u] = NoRun]
  /\ Close(q)
  /\ UNCHANGED <<processed, procBy, path, run, failures, meta, stray, job,
                 history>>
-----------------------------------------------------------------------------
(* POST /runs/{run_id}/retry and its background task *)

FailedFiles(r) == {u \in Uploads : failures[r][u] > 0}

\* The request looks at the run; nothing locks what it saw.
RetryFailedRun(q) ==
  /\ "retry" \in Endpoints
  /\ At(q, "idle")
  /\ \E r \in Runs :
       /\ rfail[r] # 0
       /\ FailedFiles(r) # {}
       /\ retried' = retried \cup {r}
       /\ req' = [req EXCEPT ![q] = [@ EXCEPT !.pc = "retrycommit", !.run = r,
                    !.seenR = rstatus[r]]]
  /\ UNCHANGED <<row, run, failures, files, job, faults, printed, copied, raced>>

\* Its commit sets the run to RUNNING, whatever it has become; there is no
\* UPDATE at all when the run that was read was RUNNING.
CommitRetry(q) ==
  LET r == req[q].run
  IN  /\ At(q, "retrycommit")
      /\ IF req[q].seenR = "RUNNING"
         THEN UNCHANGED rstatus
         ELSE ~Locked(r) /\ rstatus' = [rstatus EXCEPT ![r] = "RUNNING"]
      /\ req' = [req EXCEPT ![q] = [@ EXCEPT !.pc = "retryload"]]
      /\ UNCHANGED <<row, rtotal, rsucc, rfail, failures, files, job, faults,
                     history>>

\* (mutant) the task goes on in the session of the request, on the run it read
TakeUpOldRun(q, found) ==
  LET r == req[q].run
  IN  IF found = {}
      THEN BreakOff(q)
      ELSE req' = [req EXCEPT ![q] = [@ EXCEPT !.pc = "retrysave", !.todo = found,
                     !.src = path, !.seenS = rsucc[r], !.seenF = rfail[r],
                     !.seenC = {u \in found : status[u] = "COMPLETED"}]]

\* The task has found the rows of these files: it remembers them, the run and
\* its counters as they are now, and renders the files whole: every template,
\* from the first document.  Without a file it returns, and leaves the run as
\* the request has set it.
TakeUp(q, found) ==
  LET r == req[q].run
  IN  IF found = {}
      THEN BreakOff(q)
      ELSE req' = [req EXCEPT ![q] = [@ EXCEPT !.pc = "retrysave", !.todo = found,
                     !.src = path, !.seenS = rsucc[r], !.seenF = rfail[r],
                     !.seenR = rstatus[r],
                     !.seenC = {u \in found : status[u] = "COMPLETED"}]]

\* The failed files of the run, which another retry may have cleared meanwhile.
LoadFailures(q) ==
  /\ At(q, "retryload")
  /\ TakeUp(q, FailedFiles(req[q].run))
  /\ UNCHANGED <<row, run, failures, files, job, faults, history>>

\* Some of the names have no upload any more (it was deleted).
UploadsGone(q) ==
  /\ At(q, "retryload")
  /\ Fault("gone")
  /\ \E found \in SUBSET FailedFiles(req[q].run) :
       found # FailedFiles(req[q].run) /\ TakeUp(q, found)
  /\ UNCHANGED <<row, run, failures, files, job, history>>

\* An exception before the try: nothing handles it.
RetryLoadFails(q) ==
  /\ At(q, "retryload")
  /\ Fault("retryload")
  /\ BreakOff(q)
  /\ UNCHANGED <<row, run, failures, files, job, history>>

AllDocs(u) == DOMAIN Docs[u]

\* The documents of a file that render, none when file_path leads nowhere.
Rerendered(q, u) ==
  IF req[q].src[u] \notin disk[u] \/ u \in Undetected THEN {}
  ELSE Render(u, Templates, 0, Len(Docs[u]))

\* A file with a document that fails is rendered MAX_RETRIES times over, and
\* all its PDFs are kept.
Attempts(u) == IF AllDocs(u) \cap Bad[u] = {} THEN 1 ELSE 3

\* Successful results: one for each document, one for a whole spreadsheet.
Successes(q, u) ==
  IF u \in Sheets
  THEN IF Rerendered(q, u) = {} THEN {} ELSE {<<u, 1>>}
  ELSE {u} \X Rerendered(q, u)

\* The PDFs the task has made are copied to the output.
Outputs(q) ==
  {p \in DocIds : p[1] \in req[q].todo /\ p[2] \in Rerendered(q, p[1])}

CopyOut(out) ==
  printed' = [p \in DocIds |->
                IF p \in out THEN printed[p] + Attempts(p[1]) ELSE printed[p]]

\* The status of the run is left out of the UPDATE when it is the one read.
WriteVerdict(q, verdict) ==
  rstatus' = IF verdict = req[q].seenR THEN rstatus
             ELSE [rstatus EXCEPT ![req[q].run] = verdict]

\* A counter that is given the value it was read with is not written either.
Changed(read, value, now) == IF value = read THEN now ELSE value

\* The counters are moved by the number of successful DOCUMENTS, on the values
\* read before the rendering.  The rows updated are those in the folder of the
\* first file, and one failure row a file is deleted: without autoflush
\* every success finds the same row.
SaveRetry(q) ==
  LET r == req[q].run
      todo == req[q].todo
      good == UNION {Successes(q, u) : u \in todo}
      n == Cardinality(good)
      got(u) == Cardinality({p \in good : p[1] = u})
  IN  /\ At(q, "retrysave")
      /\ ~Locked(r)
      /\ CopyOut(Outputs(q))
      /\ rsucc' = [rsucc EXCEPT ![r] = Changed(req[q].seenS, req[q].seenS + n, @)]
      /\ rfail' = [rfail EXCEPT ![r] = Changed(req[q].seenF, req[q].seenF - n, @)]
      /\ WriteVerdict(q, Verdict(req[q].seenF - n))
      /\ failures' = [failures EXCEPT ![r] =
           [u \in Uploads |-> IF u \in todo /\ got(u) > 0
                            THEN LargerOf(0, @[u] - 1) ELSE @[u]]]
      /\ \E first \in todo :
           status' = [u \in Uploads |->
             IF /\ u \in todo \ req[q].seenC /\ got(u) > 0
                /\ (u \in Sheets <=> first \in Sheets)
             THEN "COMPLETED" ELSE status[u]]
      /\ Close(q)
      /\ UNCHANGED <<upRun, processed, procBy, path, rtotal, files, job, faults,
                     copied, retried, raced>>

\* An exception of the rendering or of the copying, when the output holds any
\* of the PDFs.
RetryFails(q) ==
  /\ At(q, "retrysave")
  /\ Fault("retry")
  /\ ~Locked(req[q].run)
  /\ \E out \in SUBSET Outputs(q) : CopyOut(out)
  /\ WriteVerdict(q, "FAILED")
  /\ Close(q)
  /\ UNCHANGED <<row, rtotal, rsucc, rfail, failures, files, job, copied,
                 retried, raced>>

\* A statement or the commit fails, after the output is complete: the handler
\* commits the same session without a rollback, and that raises as well.
RetrySaveFails(q) ==
  /\ At(q, "retrysave")
  /\ Fault("retrydb")
  /\ CopyOut(Outputs(q))
  /\ BreakOff(q)
  /\ UNCHANGED <<row, run, failures, files, job, copied, retried, raced>>
-----------------------------------------------------------------------------
(* POST /approve/{upload_id} and /reject/{upload_id}: from any status *)

Approve(u) ==
  /\ "approve" \in Endpoints
  /\ status' = [status EXCEPT ![u] = "APPROVED"]
  /\ UNCHANGED <<upRun, processed, procBy, path, run, failures, files, job,
                 req, faults, history>>

Reject(u) ==
  /\ "reject" \in Endpoints
  /\ status' = [status EXCEPT ![u] = "FAILED"]
  /\ UNCHANGED <<upRun, processed, procBy, path, run, failures, files, job,
                 req, faults, history>>

\* A request that was accepted goes on by itself.
RequestStep(q) ==
  \/ CommitBatch(q) \/ StageMeta(q) \/ StageData(q) \/ FinishBatch(q)
  \/ MoveToQueue(q) \/ MoveToQueueFails(q)
  \/ CommitRetry(q) \/ LoadFailures(q) \/ SaveRetry(q)

NewRequestStep(q) == FilterBatch(q) \/ GenerateSingle(q) \/ RetryFailedRun(q)

RequestFault(q) ==
  \/ StageFails(q) \/ ApiCrash(q)
  \/ UploadsGone(q) \/ RetryLoadFails(q) \/ RetryFails(q) \/ RetrySaveFails(q)
=============================================================================
