---------------------------- MODULE QueueWorker -----------------------------
(***************************************************************************)
(* The loop of one worker process, _worker_process of                       *)
(* app/billing/worker_queue.py: claim a file of queue/incoming, render it   *)
(* chunk by chunk, copy the PDFs, count them, put the source file away.     *)
(***************************************************************************)
EXTENDS QueueState

(* The worker loop: claiming a file *)

Goto(w, pc) == job' = [job EXCEPT ![w] = [@ EXCEPT !.pc = pc]]

Release(w) == job' = [job EXCEPT ![w] = IdleJob]

\* (mutant) the file is copied out of the queue instead of renamed
ClaimByCopy(w) ==
  /\ job[w].pc = "idle"
  /\ \E u \in Uploads :
       /\ "incoming" \in disk[u]
       /\ job' = [job EXCEPT ![w] =
                    [IdleJob EXCEPT !.pc = "meta", !.up = u]]
  /\ UNCHANGED <<row, run, failures, files, req, faults, history>>

\* os.rename of a queued file: of several workers that try, one succeeds.
Claim(w) ==
  /\ job[w].pc = "idle"
  /\ \E u \in Uploads :
       /\ "incoming" \in disk[u]
       /\ disk' = [disk EXCEPT ![u] = @ \ {"incoming"}]
       /\ job' = [job EXCEPT ![w] =
                    [IdleJob EXCEPT !.pc = "meta", !.up = u]]
  /\ UNCHANGED <<row, run, failures, meta, stray, req, faults, history>>

\* (mutant) the sidecar is read and left in the queue
ReadMetadataOnly(w) ==
  /\ job[w].pc = "meta"
  /\ LET u == job[w].up
     IN  \/ \E m \in meta[u] :
              job' = [job EXCEPT ![w] = [@ EXCEPT !.pc = "lookup", !.run = m.run,
                        !.off = m.off, !.rem = m.lim,
                        !.appr = m.appr]]
         \/ /\ meta[u] = {}
            /\ \E approved \in ApprovedChoices :
                 job' = [job EXCEPT ![w] = [@ EXCEPT !.pc = "lookup", !.rem = Unlimited,
                           !.appr = approved]]
  /\ UNCHANGED <<row, run, failures, files, req, faults, history>>

\* Read and unlink the sidecar.  Without one the worker starts at the first
\* document, has no limit, and takes the templates approved at this time.
ReadMetadata(w) ==
  /\ job[w].pc = "meta"
  /\ LET u == job[w].up
     IN  \/ \E m \in meta[u] :
              job' = [job EXCEPT ![w] = [@ EXCEPT !.pc = "lookup", !.run = m.run,
                        !.off = m.off, !.rem = m.lim,
                        !.appr = m.appr]]
         \/ /\ meta[u] = {}
            /\ \E approved \in ApprovedChoices :
                 job' = [job EXCEPT ![w] = [@ EXCEPT !.pc = "lookup", !.rem = Unlimited,
                           !.appr = approved]]
  /\ meta' = [meta EXCEPT ![job[w].up] = {}]
  /\ UNCHANGED <<row, run, failures, disk, stray, req, faults, history>>

\* The upload row, and the limit left in its run when the sidecar had none.
LookupUpload(w) ==
  /\ job[w].pc = "lookup"
  /\ LET u == job[w].up
         r == IF upRun[u] # NoRun THEN upRun[u] ELSE job[w].run
         next == IF u \in Undetected THEN "unknown"
                 ELSE IF r = NoRun THEN "open"
                 ELSE "gate"
         left == IF job[w].rem = Unlimited /\ r # NoRun THEN Room(r)
                 ELSE job[w].rem
     IN  job' = [job EXCEPT ![w] = [@ EXCEPT !.pc = next, !.known = TRUE,
                   !.run = r, !.rem = left]]
  /\ UNCHANGED <<row, run, failures, files, req, faults, history>>

\* "Template unknown": the working file is removed, and the row fails if it
\* still belongs to the run the worker saw.
UnknownTemplate(w) ==
  /\ job[w].pc = "unknown"
  /\ LET u == job[w].up
     IN  IF upRun[u] = job[w].run
         THEN /\ status' = [status EXCEPT ![u] = "FAILED"]
              /\ RecordFailure(u)
              /\ UNCHANGED <<upRun, processed, procBy, path>>
         ELSE UNCHANGED <<row, run, failures>>
  /\ Release(w)
  /\ UNCHANGED <<files, req, faults, history>>

\* A file with no run gets one of its own ("Auto Gen").
CreateBillingRun(w) ==
  /\ job[w].pc = "open"
  /\ \E r \in Runs :
       LET u == job[w].up
           rest == Len(Docs[u]) - job[w].off
       IN  /\ NextRun(r)
           /\ InsertRun(r, LargerOf(1, IF job[w].rem \in {0, Unlimited}
                                       THEN rest
                                       ELSE SmallerOf(rest, job[w].rem)))
           /\ upRun' = [upRun EXCEPT ![u] = r]
           /\ job' = [job EXCEPT ![w] = [@ EXCEPT !.pc = "gate", !.run = r]]
  /\ UNCHANGED <<status, processed, procBy, path, failures, files, req,
                 faults, history>>

\* The exception is logged and the worker goes on without a run.
CreateBillingRunFails(w) ==
  /\ job[w].pc = "open"
  /\ Fault("openrun")
  /\ Goto(w, "gate")
  /\ UNCHANGED <<row, run, failures, files, req, history>>

\* A full run: the file goes back to the state it was queued from and the
\* working copy is dropped.
CheckRunFull(w) ==
  /\ job[w].pc = "gate"
  /\ LET u == job[w].up
         full == job[w].run # NoRun /\ Room(job[w].run) = 0
     IN  IF full
         THEN /\ IF status[u] = "GENERATING"
                 THEN /\ status' = [status EXCEPT ![u] =
                           IF processed[u] > 0 THEN "PARTIALLY_PROCESSED"
                           ELSE "APPROVED"]
                      /\ upRun' = [upRun EXCEPT ![u] = NoRun]
                      /\ UNCHANGED <<processed, procBy, path>>
                 ELSE UNCHANGED row
              /\ Release(w)
         ELSE Goto(w, "loop") /\ UNCHANGED row
  /\ UNCHANGED <<run, failures, files, req, faults, history>>
-----------------------------------------------------------------------------
(* The worker loop: one chunk *)

\* The head of the while loop: how much the run still wants, and the rendering
\* of the next chunk into a temporary directory.
NextChunk(w) ==
  /\ job[w].pc = "loop"
  /\ LET u == job[w].up
         r == job[w].run
         rem == IF r = NoRun THEN job[w].rem ELSE SmallerOf(job[w].rem, Room(r))
         limit == IF u \in Sheets THEN SmallerOf(ChunkSize, rem) ELSE rem
     IN  IF rem <= 0
         THEN Goto(w, "finish")
         ELSE job' = [job EXCEPT ![w] = [@ EXCEPT !.pc = "cap", !.rem = rem,
                        !.rend = Render(u, job[w].appr, job[w].off, limit)]]
  /\ UNCHANGED <<row, run, failures, files, req, faults, history>>

\* (mutant) the results of the chunk are counted, failed ones included
CapCountsResults(w) ==
  /\ job[w].pc = "cap"
  /\ LET u == job[w].up
         r == job[w].run
         allowed == IF r = NoRun THEN job[w].rem
                    ELSE SmallerOf(job[w].rem, Room(r))
         pdfs == FirstOf(job[w].rend, allowed)
     IN  IF pdfs = {}
         THEN Goto(w, "finish")
         ELSE job' = [job EXCEPT ![w] = [@ EXCEPT !.pc = "copy", !.pdfs = pdfs,
                        !.gen = Cardinality(Slice(Docs[u], job[w].appr, job[w].off, job[w].rem))]]
  /\ UNCHANGED <<row, run, failures, files, req, faults, history>>

\* "Strictly cap pdf_files": a second look at the run, without a lock.
CapPdfs(w) ==
  /\ job[w].pc = "cap"
  /\ LET r == job[w].run
         allowed == IF r = NoRun THEN job[w].rem
                    ELSE SmallerOf(job[w].rem, Room(r))
         pdfs == FirstOf(job[w].rend, allowed)
     IN  IF pdfs = {}
         THEN Goto(w, "finish")
         ELSE job' = [job EXCEPT ![w] = [@ EXCEPT !.pc = "copy", !.pdfs = pdfs,
                        !.gen = Cardinality(pdfs)]]
  /\ UNCHANGED <<row, run, failures, files, req, faults, history>>

\* One PDF into its batch folder (module BatchFolders), in document order.
CopyPdf(w) ==
  /\ job[w].pc = "copy"
  /\ \E d \in job[w].pdfs :
       LET u == job[w].up
           rest == job[w].pdfs \ {d}
       IN  /\ \A e \in rest : d < e
           /\ printed' = [printed EXCEPT ![<<u, d>>] = @ + 1]
           /\ job' = [job EXCEPT ![w] = [@ EXCEPT !.pdfs = rest,
                        !.pc = IF rest = {} THEN "count" ELSE "copy"]]
  /\ copied' = IF job[w].run = NoRun THEN copied
               ELSE [copied EXCEPT ![job[w].run] = @ + 1]
  /\ UNCHANGED <<row, run, failures, files, req, faults, retried, raced>>

\* The transaction that counts a chunk takes the lock on the run's row (the
\* upload's run when the worker has none) and then reads the upload's row,
\* which nothing locks.
LockRun(w) ==
  /\ job[w].pc = "count"
  /\ LET u == job[w].up
         r == IF job[w].run # NoRun THEN job[w].run ELSE upRun[u]
     IN  /\ ~Locked(r)
         /\ job' = [job EXCEPT ![w] = [@ EXCEPT !.pc = "write", !.tgt = r,
                      !.seenP = processed[u], !.seenB = procBy[u],
                      !.seenS = status[u]]]
  /\ UNCHANGED <<row, run, failures, files, req, faults, history>>

\* The documents of one chunk, by template: a spreadsheet is one result with
\* as many PDFs as were copied, a text file one result a document, the ones
\* cut off by the cap included.
ChunkCount(u, rend, gen, t) ==
  IF u \in Sheets
  THEN IF t = Docs[u][1] THEN gen ELSE 0
  ELSE Cardinality({d \in rend : Docs[u][d] = t})

\* (mutant) the offset is not moved past the chunk
AdvanceSameOffset(j) ==
  [j EXCEPT !.pc = "loop", !.rem = IF @ = Unlimited THEN @ ELSE @ - j.gen,
     !.made = [t \in Templates |-> j.made[t] + ChunkCount(j.up, j.rend, j.gen, t)],
     !.rend = {}, !.gen = 0, !.tgt = NoRun, !.seenP = 0,
     !.seenB = [t \in Templates |-> 0], !.seenS = "APPROVED"]

\* The chunk's job as the next turn of the loop finds it.
Advance(j) ==
  [j EXCEPT !.pc = "loop", !.off = @ + j.gen,
     !.rem = IF @ = Unlimited THEN @ ELSE @ - j.gen,
     !.made = [t \in Templates |-> j.made[t] + ChunkCount(j.up, j.rend, j.gen, t)],
     !.rend = {}, !.gen = 0, !.tgt = NoRun, !.seenP = 0,
     !.seenB = [t \in Templates |-> 0], !.seenS = "APPROVED"]

\* The transaction commits.  The counters of the upload are the ones read,
\* plus the chunk; its status column is left out of the UPDATE when the row
\* read was PARTIALLY_PROCESSED already.
CountChunk(w) ==
  LET u == job[w].up
  IN  /\ job[w].pc = "write"
      /\ UpdateBillingRun(job[w].tgt, job[w].gen)
      /\ processed' = [processed EXCEPT ![u] = job[w].seenP + job[w].gen]
      /\ procBy' = [procBy EXCEPT ![u] = [t \in Templates |->
           job[w].seenB[t] + ChunkCount(u, job[w].rend, job[w].gen, t)]]
      /\ status' = [status EXCEPT ![u] =
           IF job[w].seenS = "PARTIALLY_PROCESSED" THEN @
           ELSE "PARTIALLY_PROCESSED"]
      /\ job' = [job EXCEPT ![w] = Advance(@)]
      /\ UNCHANGED <<upRun, path, failures, files, req, faults, history>>
-----------------------------------------------------------------------------
(* The worker loop: the end of a file *)

\* The master copy is at file_path, or wherever the search finds it.
MasterAt(u) == path[u] \in disk[u]

\* (mutant) the earlier result is unlinked after the move, not before
FileProcessedUnlinkedLast(u) == disk[u] \ {path[u], "pending", "Processed"}

\* Every document counted: the master copy (or, without one, the working copy)
\* becomes Processed/<name>, a leftover in queue/pending is deleted.
FileProcessed(u) ==
  LET kept == disk[u] \ {"Processed"}
  IN  (kept \ {path[u], "pending"}) \cup {"Processed"}

\* Otherwise the master copy stays, or the working copy takes its place.
FileKept(u) == IF MasterAt(u) THEN disk[u] ELSE disk[u] \cup {"pending"}

\* (mutant) complete one document too early
IsProcessedEarly(u) == processed[u] + 1 >= Len(Docs[u])

IsProcessed(u) == processed[u] >= Len(Docs[u])

\* The transaction that ends a file.  A template another worker's write lost
\* from processed_breakdown is put back with the count of this worker.
Finish(w) ==
  LET u == job[w].up
  IN  /\ job[w].pc = "finish"
      /\ ~Locked(job[w].run)
      /\ IF IsProcessed(u)
         THEN /\ status' = [status EXCEPT ![u] = "COMPLETED"]
              /\ path' = [path EXCEPT ![u] = "Processed"]
              /\ disk' = [disk EXCEPT ![u] = FileProcessed(u)]
         ELSE /\ status' = [status EXCEPT ![u] =
                   IF processed[u] > 0 THEN "PARTIALLY_PROCESSED"
                   ELSE "APPROVED"]
              /\ path' = [path EXCEPT ![u] = IF MasterAt(u) THEN @ ELSE "pending"]
              /\ disk' = [disk EXCEPT ![u] = FileKept(u)]
      /\ procBy' = [procBy EXCEPT ![u] = [t \in Templates |->
           IF procBy[u][t] = 0 THEN job[w].made[t] ELSE procBy[u][t]]]
      /\ upRun' = [upRun EXCEPT ![u] = NoRun]
      /\ UpdateBillingRun(job[w].run, 0)
      /\ Release(w)
      /\ UNCHANGED <<processed, meta, stray, failures, req, faults,
                     history>>

\* The exception of this last transaction is caught on the spot: the row keeps
\* its state, the working copy is removed, the files may have moved already.
FinishFails(w) ==
  LET u == job[w].up
  IN  /\ job[w].pc = "finish"
      /\ Fault("finish")
      /\ \E moved \in BOOLEAN :
           disk' = [disk EXCEPT ![u] =
                      IF ~moved THEN @
                      ELSE IF IsProcessed(u) THEN FileProcessed(u)
                      ELSE FileKept(u)]
      /\ Release(w)
      /\ UNCHANGED <<row, run, failures, meta, stray, req, history>>

\* Any other exception while a file is held ends in _handle_failed_upload.  A
\* transaction in progress is rolled back.
Raise(w) ==
  /\ job[w].pc \in {"lookup", "loop", "cap", "copy", "count", "write"}
  /\ Fault("raise")
  /\ Goto(w, "failed")
  /\ UNCHANGED <<row, run, failures, files, req, history>>

\* The file moves to Failed/; the row (by id, or by name among the APPROVED
\* ones when the exception came before the lookup) fails, and so does one
\* account of the run it belongs to NOW.  Without a row the file ends in
\* Failed/unknown.
HandleFailedUpload(w) ==
  LET u == job[w].up
  IN  /\ job[w].pc = "failed"
      /\ IF job[w].known \/ status[u] = "APPROVED"
         THEN /\ status' = [status EXCEPT ![u] = "FAILED"]
              /\ path' = [path EXCEPT ![u] = "Failed"]
              /\ disk' = [disk EXCEPT ![u] = @ \cup {"Failed"}]
              /\ RecordFailure(u)
              /\ UNCHANGED <<upRun, processed, procBy, stray>>
         ELSE /\ stray' = [stray EXCEPT ![u] = TRUE]
              /\ UNCHANGED <<row, run, failures, disk>>
      /\ Release(w)
      /\ UNCHANGED <<meta, req, faults, history>>

\* The process dies and the supervisor starts another in its place; the
\* working copy keeps a name no worker lists.
WorkerCrash(w) ==
  /\ job[w].pc # "idle"
  /\ Fault("crash")
  /\ stray' = [stray EXCEPT ![job[w].up] = TRUE]
  /\ Release(w)
  /\ UNCHANGED <<row, run, failures, disk, meta, req, history>>

\* Every step of the loop when nothing goes wrong.
WorkerStep(w) ==
  \/ Claim(w) \/ ReadMetadata(w) \/ LookupUpload(w) \/ UnknownTemplate(w)
  \/ CreateBillingRun(w) \/ CheckRunFull(w) \/ NextChunk(w) \/ CapPdfs(w)
  \/ CopyPdf(w) \/ LockRun(w) \/ CountChunk(w) \/ Finish(w)
  \/ HandleFailedUpload(w)

WorkerFault(w) ==
  \/ CreateBillingRunFails(w) \/ FinishFails(w) \/ Raise(w) \/ WorkerCrash(w)
=============================================================================
