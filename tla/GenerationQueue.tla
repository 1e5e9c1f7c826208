-------------------------- MODULE GenerationQueue ---------------------------
(***************************************************************************)
(* The generation queue as a whole: the requests and the workers over the   *)
(* rows and directories of QueueState, and what is expected of them.        *)
(***************************************************************************)
EXTENDS QueueWorker, QueueRequests

Next ==
  \/ \E w \in Workers : WorkerStep(w) \/ WorkerFault(w)
  \/ \E q \in Requests : NewRequestStep(q) \/ RequestStep(q) \/ RequestFault(q)
  \/ \E u \in Uploads : Approve(u) \/ Reject(u)

Spec == Init /\ [][Next]_vars

\* A worker never stops polling and a request that was accepted runs to its
\* end; nobody is obliged to make a request, and nothing is obliged to fail.
Fairness ==
  /\ \A w \in Workers : WF_vars(WorkerStep(w))
  /\ \A q \in Requests : WF_vars(RequestStep(q))

FairSpec == Spec /\ Fairness
-----------------------------------------------------------------------------
(* The run rows *)

RL == INSTANCE RunLedger

\* Every interleaving of requests, workers, retries and faults changes the rows
\* of billing_runs only as RunLedger allows: counters grow, succeeded stays
\* within total_accounts, DONE and PARTIAL are read only once every account has
\* an outcome.  The counters have six writers in two programs
\* (worker_queue.py:251-291, 384-406, 545-571; billing.py:1130-1217, 1233-1308).
LedgerPromise == RL!LedgerSpec

\* A run never counts a document that is not in the output: succeeded follows
\* the copies (worker_queue.py:742-791), on whichever side of a crash or of
\* another worker's transaction they fall.
CountedWerePrinted == \A r \in Runs \ retried : rsucc[r] <= copied[r]

\* failed and the rows of billing_run_failures agree, whoever recorded the
\* failure: a worker in one of its two handlers, or the request that could not
\* stage the file.
FailuresRecorded ==
  \A r \in Runs \ retried :
    rfail[r] = Cardinality(UNION {{u} \X (1..failures[r][u]) : u \in Uploads})

\* A run all of whose accounts have an outcome is closed in the transaction
\* that records the last one (worker_queue.py:288-290, 402-405): it never stays
\* RUNNING for good.
AccountedIsClosed ==
  \A r \in Runs : rstatus[r] = "RUNNING" => ~RL!Accounted(r)

\* No run prints more documents than the accounts it was opened for, as long as
\* no second request takes its files, whatever fails meanwhile ("Strictly cap
\* pdf_files so we NEVER copy or succeed more than remaining budget or run
\* capacity!", worker_queue.py:721).
PrintedWithinRun == \A r \in Runs \ retried : copied[r] <= rtotal[r]

\* A retry that reaches its last transaction leaves a verdict, however long ago
\* it read the run and whatever another retry of the same run has written since
\* (billing.py:1223-1286, 1304-1308): a retried run is RUNNING only while a
\* retry of it is under way, or when one broke off - the process died, the task
\* found no failed file any more, or an exception came before its try or from the
\* database.  What broke off leaves the run RUNNING for good.
RetryLeavesVerdict ==
  \A r \in retried :
    rstatus[r] = "RUNNING" =>
      \E q \in Requests :
        /\ req[q].run = r
        /\ req[q].pc \in {"retrycommit", "retryload", "retrysave", "dead"}

-----------------------------------------------------------------------------
(* The documents *)

Idle(u) == \A w \in Workers : ~Holds(w, u)

Printed(u) == {d \in DOMAIN Docs[u] : printed[<<u, d>>] > 0}

\* A customer's document is printed at most once, over any number of batch
\* requests, chunks, limits and workers ("Batch jobs skip already processed
\* accounts for a period", README.md:202).  It rests on the offset of the sidecar,
\* the offset of the chunks and the counters agreeing on what is done.  Exempt is
\* a file from the moment (raced) when a request takes it that is still queued or
\* being rendered, or takes it with the offset it read in the filter although
\* the file has moved on since: billing.py:1169 hands that offset to the worker,
\* and documents are printed twice.
NoDocumentTwice ==
  \A u \in Uploads \ raced : \A d \in DOMAIN Docs[u] : printed[<<u, d>>] <= 1

\* A file reads COMPLETED only when each of its documents is in the output, over
\* limits, chunks and files given back.  Files taken while in hand or with a
\* stale offset are exempt (raced).
CompletedPrintedAll ==
  \A u \in Uploads \ raced : status[u] = "COMPLETED" => Printed(u) = DOMAIN Docs[u]

\* While no worker holds a file, its counters say what was printed, and the
\* remaining count of _calculate_upload_approved_counts is the number of
\* approved documents that were not ("records still pending generation for
\* approved templates", billing.py:345).  Stated for histories in which no file
\* was taken while in hand or with a stale offset: the room of a run is shared
\* by its files.
CountsMatchOutput ==
  raced = {} =>
    \A u \in Uploads : Idle(u) =>
      /\ processed[u] = Cardinality(Printed(u))
      /\ \A approved \in ApprovedChoices :
           Cardinality(Remaining(u, approved)) =
             Cardinality(ApprovedDocs(Docs[u], approved) \ Printed(u))

\* The commit of a batch request marks a file it found waiting in its filter, and
\* that has moved on since.
TakenStale(u) ==
  \E q \in Requests :
    /\ At(q, "commit") /\ At(q, "meta")'
    /\ u \in req[q].todo /\ processed[u] # req[q].off[u]

\* A finished file is dragged back by one step only: the commit of a batch
\* request whose filter had passed the file before it was finished
\* (billing.py:1081 against 1149-1152).  A request that reads the row after that
\* does not take it, and no worker, staging step or second commit undoes
\* COMPLETED out of something it remembers.  Said of files that were not taken
\* while in hand, nor once dragged back already.
CompletedIsFinal ==
  [][\A u \in Uploads \ raced :
       status[u] = "COMPLETED" => status'[u] = "COMPLETED" \/ TakenStale(u)]_vars
-----------------------------------------------------------------------------
(* The files *)

\* The rename that claims a file and the copy that queues it keep one instance
\* of it in the queue or in a worker's hands, never two.
OneHolder ==
  \A u \in Uploads \ raced :
    Cardinality({w \in Workers : Holds(w, u)})
      + Cardinality(disk[u] \cap {"incoming"}) <= 1

\* A sidecar in the queue belongs to a file that is there, about to be there or
\* just claimed: no later claim can pick up an offset meant for another run.
SidecarOwned ==
  \A u \in Uploads \ raced :
    meta[u] # {} =>
      \/ "incoming" \in disk[u]
      \/ \E w \in Workers : job[w].pc = "meta" /\ job[w].up = u
      \/ \E q \in Requests : req[q].pc = "data" /\ u \in req[q].todo

\* The source file is never lost: it stands in one of the directories, in a
\* worker's hands, or under the name a worker left behind when it died.
FileNotLost == \A u \in Uploads : disk[u] # {} \/ stray[u] \/ ~Idle(u)
-----------------------------------------------------------------------------
(* Progress *)

\* A run that was opened comes to a verdict, unless something failed: the code
\* recovers neither a dead worker nor an exception between two transactions
\* (worker_queue.py:288-290, 1010-1021).
RunsEnd ==
  \A r \in Runs :
    rstatus[r] = "RUNNING" /\ faults = 0 ~> rstatus[r] # "RUNNING" \/ faults > 0

\* A file that was queued does not stay GENERATING, unless something failed.
QueueDrains ==
  \A u \in Uploads :
    status[u] = "GENERATING" /\ faults = 0 ~> status[u] # "GENERATING" \/ faults > 0
-----------------------------------------------------------------------------
(* What comments and messages of the code say, and the code does not do *)

\* "Batch jobs skip already processed accounts for a period" (README.md:202): no
\* document is printed twice, whoever takes its file and when.
SkipsProcessed == \A p \in DocIds : printed[p] <= 1

\* "GMF is already generating/completed" (billing.py:984), and a batch request
\* passes over what is not waiting (billing.py:1089): a finished file stays so.
CompletedStays ==
  [][\A u \in Uploads : status[u] = "COMPLETED" => status'[u] = "COMPLETED"]_vars

\* "The selected batch is already actively generating ... Please wait for the
\* current run to finish" (billing.py:1115): a file that is GENERATING does not
\* move to another run.
OneRunAtATime ==
  [][\A u \in Uploads :
       status[u] = "GENERATING" => upRun'[u] \in {upRun[u], NoRun}]_vars

\* "Reject a GMF file - blocks generation" (billing.py:945): nothing of a
\* rejected file is printed until it is approved again.
RejectBlocksGeneration ==
  [][\A u \in Uploads :
       status[u] = "FAILED" => \A d \in DOMAIN Docs[u] :
                                 printed'[<<u, d>>] = printed[<<u, d>>]]_vars
=============================================================================
