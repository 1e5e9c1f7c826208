------------------------ MODULE GenerationQueueProofs ------------------------
(***************************************************************************)
(* Proofs about the generation queue and its run rows, for any set of       *)
(* files, workers and requests, any documents, limits and kinds of fault:   *)
(*   - type correctness;                                                   *)
(*   - the queue implements RunLedger: every step of it is a step of the    *)
(*     ledger or leaves it alone;                                          *)
(*   - the failures a run counts are the rows that record them;             *)
(*   - a retried run is RUNNING only while a retry is under way or after    *)
(*     one broke off;                                                      *)
(*   - a run never counts a document that was not copied.                   *)
(***************************************************************************)
EXTENDS GenerationQueue, FiniteSetTheorems, FunctionTheorems, TLAPS

(***************************************************************************)
(* The invariant, by the variables it speaks of                            *)
(***************************************************************************)

RowOK ==
  /\ status \in [Uploads -> UploadStatus]
  /\ upRun \in [Uploads -> RunId]
  /\ processed \in [Uploads -> Nat]
  /\ procBy \in [Uploads -> [Templates -> Nat]]
  /\ path \in [Uploads -> Places]

RunOK ==
  /\ rstatus \in [Runs -> {"absent", "RUNNING", "DONE", "PARTIAL", "FAILED"}]
  /\ rtotal \in [Runs -> Nat]
  /\ rsucc \in [Runs -> Int]
  /\ rfail \in [Runs -> Int]

FailuresOK == failures \in [Runs -> [Uploads -> Nat]]

FilesOK ==
  /\ disk \in [Uploads -> SUBSET Places]
  /\ meta \in [Uploads -> SUBSET SidecarType]
  /\ stray \in [Uploads -> BOOLEAN]

JobOK == job \in [Workers -> JobType]

ReqOK == req \in [Requests -> RequestType]

HistoryOK ==
  /\ printed \in [DocIds -> Nat]
  /\ copied \in [Runs -> Nat]
  /\ retried \in SUBSET Runs
  /\ raced \in SUBSET Uploads

\* A worker that is not idle holds a file, and what it has rendered of it are
\* documents of that file.
Holding ==
  \A w \in Workers :
    job[w].pc # "idle" =>
      /\ job[w].up \in Uploads
      /\ job[w].rend \subseteq DOMAIN Docs[job[w].up]
      /\ job[w].pdfs \subseteq DOMAIN Docs[job[w].up]

\* A request that has committed has a run.
Running ==
  \A q \in Requests :
    req[q].pc \in {"meta", "data", "finish", "retrycommit", "retryload", "retrysave"} =>
      req[q].run \in Runs

TypeInv == TypeOK /\ Holding /\ Running

LEMMA TypeSplit ==
  TypeOK <=> /\ RowOK /\ RunOK /\ FailuresOK /\ FilesOK /\ JobOK /\ ReqOK
             /\ faults \in Nat /\ HistoryOK
BY DEF TypeOK, RowOK, RunOK, RunStatus, FailuresOK, FilesOK, JobOK, ReqOK, HistoryOK

LEMMA TypeSplitPrime ==
  TypeOK' <=> /\ RowOK' /\ RunOK' /\ FailuresOK' /\ FilesOK' /\ JobOK' /\ ReqOK'
              /\ faults' \in Nat /\ HistoryOK'
BY DEF TypeOK, RowOK, RunOK, RunStatus, FailuresOK, FilesOK, JobOK, ReqOK, HistoryOK
-----------------------------------------------------------------------------
(***************************************************************************)
(* The operators the actions are built from                                *)
(***************************************************************************)

LEMMA SmallerType ==
  ASSUME NEW m \in Int, NEW n \in Int
  PROVE  /\ SmallerOf(m, n) \in Int
         /\ SmallerOf(m, n) <= m /\ SmallerOf(m, n) <= n
         /\ m \in Nat /\ n \in Nat => SmallerOf(m, n) \in Nat
BY DEF SmallerOf

LEMMA LargerType ==
  ASSUME NEW m \in Int, NEW n \in Int
  PROVE  /\ LargerOf(m, n) \in Int
         /\ m <= LargerOf(m, n) /\ n <= LargerOf(m, n)
         /\ m \in Nat => LargerOf(m, n) \in Nat
BY DEF LargerOf

LEMMA RoomType ==
  ASSUME RunOK, NEW r \in Runs
  PROVE  Room(r) \in Nat
BY DEF RunOK, Room, LargerOf

\* The documents of a file are finitely many numbers.
LEMMA DocsFinite ==
  ASSUME NEW u \in Uploads
  PROVE  /\ DOMAIN Docs[u] \subseteq Nat
         /\ IsFiniteSet(DOMAIN Docs[u])
         /\ Len(Docs[u]) \in Nat
<1>1. Docs[u] \in Seq(Templates)
  BY QueueAssumption
<1>2. DOMAIN Docs[u] = 1..Len(Docs[u]) /\ Len(Docs[u]) \in Nat
  BY <1>1
<1> QED BY <1>2, FS_Interval

LEMMA SubsetCount ==
  ASSUME NEW u \in Uploads, NEW S \in SUBSET (DOMAIN Docs[u])
  PROVE  IsFiniteSet(S) /\ Cardinality(S) \in Nat /\ S \in SUBSET Nat
BY DocsFinite, FS_Subset, FS_CardinalityType

\* Whatever is rendered is a document of the file.
LEMMA RenderType ==
  ASSUME NEW u \in Uploads, NEW approved, NEW offset, NEW limit
  PROVE  Render(u, approved, offset, limit) \in SUBSET (DOMAIN Docs[u])
BY DEF Render, RenderSheet, SheetRows, RenderText, Slice, FirstOf, ApprovedDocs

LEMMA RemainingType ==
  ASSUME NEW u \in Uploads, NEW approved
  PROVE  Remaining(u, approved) \in SUBSET (DOMAIN Docs[u])
BY DEF Remaining, RemainingRows, RemainingByTemplate, ApprovedDocs

LEMMA TallyType ==
  ASSUME RunOK, NEW r \in Runs, NEW succ \in Int, NEW fail \in Int,
         Tally(r, succ, fail)
  PROVE  RunOK'
BY DEF RunOK, Tally, Verdict

LEMMA InsertType ==
  ASSUME RunOK, NEW r \in Runs, NEW total \in Nat, InsertRun(r, total)
  PROVE  RunOK'
BY DEF RunOK, InsertRun

LEMMA UpdateType ==
  ASSUME RunOK, NEW r \in RunId, NEW n \in Int, UpdateBillingRun(r, n)
  PROVE  RunOK'
<1>1. CASE r = NoRun
  BY <1>1 DEF UpdateBillingRun, RunOK, run
<1>2. CASE r # NoRun
  <2>1. r \in Runs /\ rsucc[r] \in Int /\ rfail[r] \in Int /\ rtotal[r] \in Int
    BY <1>2 DEF RunId, RunOK
  <2> DEFINE succ == IF n > 0 THEN SmallerOf(rtotal[r], rsucc[r] + n) ELSE rsucc[r]
  <2>2. succ \in Int
    BY <2>1 DEF SmallerOf
  <2>3. Tally(r, succ, rfail[r])
    BY <1>2 DEF UpdateBillingRun
  <2> QED BY <2>1, <2>2, <2>3, TallyType
<1> QED BY <1>1, <1>2

LEMMA RecordType ==
  ASSUME RowOK, RunOK, FailuresOK, NEW u \in Uploads, RecordFailure(u)
  PROVE  RunOK' /\ FailuresOK'
<1>1. CASE upRun[u] = NoRun
  BY <1>1 DEF RecordFailure, RunOK, FailuresOK, run
<1>2. CASE upRun[u] # NoRun
  <2> DEFINE r == upRun[u]
  <2>1. r \in Runs /\ rsucc[r] \in Int /\ rfail[r] \in Int
    BY <1>2 DEF RowOK, RunId, RunOK
  <2>2. Tally(r, rsucc[r], rfail[r] + 1)
    BY <1>2 DEF RecordFailure
  <2>3. RunOK'
    BY <2>1, <2>2, TallyType
  <2>4. FailuresOK'
    BY <1>2, <2>1 DEF RecordFailure, FailuresOK
  <2> QED BY <2>3, <2>4
<1> QED BY <1>1, <1>2

LEMMA InitType == Init => TypeInv
<1> SUFFICES ASSUME Init PROVE TypeInv
  OBVIOUS
<1>1. RowOK
  BY DEF Init, RowOK, UploadStatus, RunId, Places
<1>2. RunOK /\ FailuresOK
  BY DEF Init, RunOK, FailuresOK
<1>3. FilesOK
  BY DEF Init, FilesOK, Places
<1>4. IdleJob \in JobType
  BY DEF IdleJob, JobType, WorkerPC, RunId, UploadStatus
<1>5. JobOK /\ Holding
  BY <1>4 DEF Init, JobOK, Holding, IdleJob
<1>6. NewRequest \in RequestType
  BY DEF NewRequest, RequestType, RequestPC, RunId, RunStatus, Places
<1>7. ReqOK /\ Running
  BY <1>6 DEF Init, ReqOK, Running, NewRequest
<1>8. faults \in Nat /\ HistoryOK
  BY DEF Init, HistoryOK
<1> QED BY <1>1, <1>2, <1>3, <1>5, <1>7, <1>8, TypeSplit DEF TypeInv
-----------------------------------------------------------------------------
(***************************************************************************)
(* The steps of a worker                                                   *)
(***************************************************************************)

LEMMA IdleJobType == IdleJob \in JobType
BY DEF IdleJob, JobType, WorkerPC, RunId, UploadStatus

\* A field of a record is set to a value of its type.
LEMMA JobUpdate ==
  ASSUME NEW j \in JobType
  PROVE  /\ \A x \in WorkerPC : [j EXCEPT !.pc = x] \in JobType
         /\ \A x \in Uploads \cup {NoUpload} : [j EXCEPT !.up = x] \in JobType
         /\ \A x \in BOOLEAN : [j EXCEPT !.known = x] \in JobType
         /\ \A x \in RunId : [j EXCEPT !.run = x] \in JobType
         /\ \A x \in Nat : [j EXCEPT !.off = x] \in JobType
         /\ \A x \in Int : [j EXCEPT !.rem = x] \in JobType
         /\ \A x \in SUBSET Templates : [j EXCEPT !.appr = x] \in JobType
         /\ \A x \in SUBSET Nat : [j EXCEPT !.rend = x] \in JobType
         /\ \A x \in SUBSET Nat : [j EXCEPT !.pdfs = x] \in JobType
         /\ \A x \in Nat : [j EXCEPT !.gen = x] \in JobType
         /\ \A x \in RunId : [j EXCEPT !.tgt = x] \in JobType
         /\ \A x \in Nat : [j EXCEPT !.seenP = x] \in JobType
         /\ \A x \in [Templates -> Nat] : [j EXCEPT !.seenB = x] \in JobType
         /\ \A x \in UploadStatus : [j EXCEPT !.seenS = x] \in JobType
         /\ \A x \in [Templates -> Nat] : [j EXCEPT !.made = x] \in JobType
BY SMTT(30) DEF JobType

\* One worker has a new record.
LEMMA JobSet ==
  ASSUME JobOK, Holding, NEW w \in Workers, NEW j \in JobType,
         j.pc # "idle" => /\ j.up \in Uploads
                          /\ j.rend \subseteq DOMAIN Docs[j.up]
                          /\ j.pdfs \subseteq DOMAIN Docs[j.up],
         job' = [job EXCEPT ![w] = j]
  PROVE  JobOK' /\ Holding'
BY DEF JobOK, Holding

\* The worker lets go of its file.
LEMMA ReleaseType ==
  ASSUME JobOK, Holding, NEW w \in Workers, Release(w)
  PROVE  JobOK' /\ Holding'
<1>1. IdleJob.pc = "idle"
  BY DEF IdleJob
<1> QED BY <1>1, IdleJobType, JobSet DEF Release

\* The worker goes on to another point of the loop.
LEMMA GotoType ==
  ASSUME JobOK, Holding, NEW w \in Workers, NEW pc \in WorkerPC,
         job[w].pc # "idle", Goto(w, pc)
  PROVE  JobOK' /\ Holding'
<1> DEFINE j == [job[w] EXCEPT !.pc = pc]
<1>1. job[w] \in JobType
  BY DEF JobOK
<1>2. j \in JobType /\ j.up = job[w].up /\ j.rend = job[w].rend /\ j.pdfs = job[w].pdfs
  BY <1>1 DEF JobType
<1>3. job' = [job EXCEPT ![w] = j]
  BY DEF Goto
<1> HIDE DEF j
<1> QED BY <1>2, <1>3, JobSet DEF Holding

LEMMA ClaimType ==
  ASSUME TypeInv, NEW w \in Workers, Claim(w)
  PROVE  TypeInv'
<1> USE TypeSplit DEF TypeInv
<1>1. PICK u \in Uploads :
        /\ disk' = [disk EXCEPT ![u] = @ \ {"incoming"}]
        /\ job' = [job EXCEPT ![w] = [IdleJob EXCEPT !.pc = "meta", !.up = u]]
  BY DEF Claim
<1>2. RowOK' /\ RunOK' /\ FailuresOK' /\ ReqOK' /\ HistoryOK' /\ faults' \in Nat
  BY DEF Claim, row, run, history, RowOK, RunOK, FailuresOK, ReqOK, HistoryOK
<1>3. FilesOK'
  BY <1>1 DEF Claim, FilesOK
<1>4. JobOK' /\ Holding'
  <2> DEFINE j == [IdleJob EXCEPT !.pc = "meta", !.up = u]
  <2>1. j \in JobType /\ j.up = u
    BY IdleJobType DEF JobType, WorkerPC
  <2>2. j.rend = {} /\ j.pdfs = {}
    BY DEF IdleJob
  <2> HIDE DEF j
  <2> QED BY <1>1, <2>1, <2>2, JobSet DEF j
<1>5. Running'
  BY DEF Claim, Running
<1> QED BY <1>2, <1>3, <1>4, <1>5, TypeSplitPrime

LEMMA ReadMetadataType ==
  ASSUME TypeInv, NEW w \in Workers, ReadMetadata(w)
  PROVE  TypeInv'
<1> USE TypeSplit DEF TypeInv
<1>0. /\ job[w] \in JobType /\ job[w].up \in Uploads
      /\ job[w].rend \subseteq DOMAIN Docs[job[w].up]
      /\ job[w].pdfs \subseteq DOMAIN Docs[job[w].up]
  BY DEF ReadMetadata, JobOK, Holding
<1>1. RowOK' /\ RunOK' /\ FailuresOK' /\ ReqOK' /\ HistoryOK' /\ faults' \in Nat
  BY DEF ReadMetadata, row, run, history, RowOK, RunOK, FailuresOK, ReqOK, HistoryOK
<1>2. FilesOK'
  BY DEF ReadMetadata, FilesOK
<1>3. ASSUME NEW m \in meta[job[w].up],
             job' = [job EXCEPT ![w] = [@ EXCEPT !.pc = "lookup", !.run = m.run,
                       !.off = m.off, !.rem = m.lim, !.appr = m.appr]]
      PROVE  JobOK' /\ Holding'
  <2> DEFINE j == [job[w] EXCEPT !.pc = "lookup", !.run = m.run,
                     !.off = m.off, !.rem = m.lim, !.appr = m.appr]
  <2>1. m \in SidecarType
    BY <1>0 DEF FilesOK
  <2>2. m.run \in RunId /\ m.off \in Nat /\ m.lim \in Int /\ m.appr \in SUBSET Templates
    BY <2>1 DEF SidecarType
  <2>3. j.up = job[w].up /\ j.rend = job[w].rend /\ j.pdfs = job[w].pdfs
    BY <1>0 DEF JobType
  <2>4. j \in JobType
    <3>1. "lookup" \in WorkerPC
      BY DEF WorkerPC
    <3> QED BY <1>0, <2>2, <3>1, JobUpdate
  <2>5. job' = [job EXCEPT ![w] = j]
    BY <1>3
  <2> HIDE DEF j
  <2> QED BY <1>0, <2>3, <2>4, <2>5, JobSet
<1>4. ASSUME NEW approved \in ApprovedChoices,
             job' = [job EXCEPT ![w] = [@ EXCEPT !.pc = "lookup",
                       !.rem = Unlimited, !.appr = approved]]
      PROVE  JobOK' /\ Holding'
  <2> DEFINE j == [job[w] EXCEPT !.pc = "lookup", !.rem = Unlimited,
                     !.appr = approved]
  <2>1. j.up = job[w].up /\ j.rend = job[w].rend /\ j.pdfs = job[w].pdfs
    BY <1>0 DEF JobType
  <2>2. j \in JobType
    <3>1. "lookup" \in WorkerPC /\ Unlimited \in Int /\ approved \in SUBSET Templates
      BY QueueAssumption, UnlimitedAssumption DEF WorkerPC
    <3> QED BY <1>0, <3>1, JobUpdate
  <2>3. job' = [job EXCEPT ![w] = j]
    BY <1>4
  <2> HIDE DEF j
  <2> QED BY <1>0, <2>1, <2>2, <2>3, JobSet
<1>5. JobOK' /\ Holding'
  BY <1>3, <1>4 DEF ReadMetadata
<1>6. Running'
  BY DEF ReadMetadata, Running
<1> QED BY <1>1, <1>2, <1>5, <1>6, TypeSplitPrime

LEMMA LookupUploadType ==
  ASSUME TypeInv, NEW w \in Workers, LookupUpload(w)
  PROVE  TypeInv'
<1> USE TypeSplit DEF TypeInv
<1> DEFINE u == job[w].up
           r == IF upRun[u] # NoRun THEN upRun[u] ELSE job[w].run
           next == IF u \in Undetected THEN "unknown"
                   ELSE IF r = NoRun THEN "open"
                   ELSE "gate"
           left == IF job[w].rem = Unlimited /\ r # NoRun THEN Room(r)
                   ELSE job[w].rem
           j == [job[w] EXCEPT !.pc = next, !.known = TRUE, !.run = r, !.rem = left]
<1>0. /\ job[w] \in JobType /\ u \in Uploads
      /\ job[w].rend \subseteq DOMAIN Docs[u] /\ job[w].pdfs \subseteq DOMAIN Docs[job[w].up]
  BY DEF LookupUpload, JobOK, Holding
<1>1. r \in RunId
  BY <1>0 DEF RowOK, JobType
<1>2. left \in Int
  <2>1. r # NoRun => Room(r) \in Nat
    BY <1>1, RoomType DEF RunId
  <2> QED BY <1>0, <2>1 DEF JobType
<1>3. next \in WorkerPC
  BY DEF WorkerPC
<1>4. /\ RowOK' /\ RunOK' /\ FailuresOK' /\ FilesOK' /\ ReqOK' /\ HistoryOK'
      /\ faults' \in Nat /\ Running'
  BY DEF LookupUpload, row, run, files, history, RowOK, RunOK, FailuresOK,
         FilesOK, ReqOK, HistoryOK, Running
<1>5. job' = [job EXCEPT ![w] = j]
  BY DEF LookupUpload
<1>6. j \in JobType /\ j.up = u /\ j.rend = job[w].rend /\ j.pdfs = job[w].pdfs
  <2> HIDE DEF r, next, left
  <2>1. j.up = u /\ j.rend = job[w].rend /\ j.pdfs = job[w].pdfs
    BY <1>0 DEF JobType
  <2>2. j \in JobType
    BY <1>0, <1>1, <1>2, <1>3, JobUpdate
  <2> QED BY <2>1, <2>2
<1>7. JobOK' /\ Holding'
  <2> HIDE DEF j
  <2> QED BY <1>0, <1>5, <1>6, JobSet
<1> QED BY <1>4, <1>7, TypeSplitPrime

LEMMA UnknownTemplateType ==
  ASSUME TypeInv, NEW w \in Workers, UnknownTemplate(w)
  PROVE  TypeInv'
<1> USE TypeSplit DEF TypeInv
<1>0. job[w] \in JobType /\ job[w].up \in Uploads
  BY DEF UnknownTemplate, JobOK, Holding
<1>1. RowOK' /\ RunOK' /\ FailuresOK'
  <2>1. CASE upRun[job[w].up] = job[w].run
    <3>1. RecordFailure(job[w].up)
      BY <2>1 DEF UnknownTemplate
    <3>2. RowOK'
      BY <1>0, <2>1 DEF UnknownTemplate, RowOK, UploadStatus
    <3> QED BY <1>0, <3>1, <3>2, RecordType
  <2>2. CASE upRun[job[w].up] # job[w].run
    BY <2>2 DEF UnknownTemplate, row, run, RowOK, RunOK, FailuresOK
  <2> QED BY <2>1, <2>2
<1>2. FilesOK' /\ ReqOK' /\ HistoryOK' /\ faults' \in Nat /\ Running'
  BY DEF UnknownTemplate, files, history, FilesOK, ReqOK, HistoryOK, Running
<1>3. JobOK' /\ Holding'
  BY ReleaseType DEF UnknownTemplate
<1> QED BY <1>1, <1>2, <1>3, TypeSplitPrime

LEMMA CreateBillingRunType ==
  ASSUME TypeInv, NEW w \in Workers, CreateBillingRun(w)
  PROVE  TypeInv'
<1> USE TypeSplit DEF TypeInv
<1> DEFINE u == job[w].up
           rest == Len(Docs[u]) - job[w].off
           total == LargerOf(1, IF job[w].rem \in {0, Unlimited}
                                THEN rest ELSE SmallerOf(rest, job[w].rem))
<1>0. /\ job[w] \in JobType /\ u \in Uploads
      /\ job[w].rend \subseteq DOMAIN Docs[u] /\ job[w].pdfs \subseteq DOMAIN Docs[job[w].up]
  BY DEF CreateBillingRun, JobOK, Holding
<1>1. PICK r \in Runs :
        /\ InsertRun(r, total)
        /\ upRun' = [upRun EXCEPT ![u] = r]
        /\ job' = [job EXCEPT ![w] = [@ EXCEPT !.pc = "gate", !.run = r]]
  BY DEF CreateBillingRun
<1>2. total \in Nat
  BY <1>0, DocsFinite DEF JobType, LargerOf, SmallerOf
<1>3. RunOK'
  <2> HIDE DEF total
  <2> QED BY <1>1, <1>2, InsertType
<1>4. RowOK'
  BY <1>1 DEF CreateBillingRun, RowOK, RunId
<1>5. /\ FailuresOK' /\ FilesOK' /\ ReqOK' /\ HistoryOK' /\ faults' \in Nat
      /\ Running'
  BY DEF CreateBillingRun, files, history, FailuresOK, FilesOK, ReqOK,
         HistoryOK, Running
<1>6. JobOK' /\ Holding'
  <2> DEFINE j == [job[w] EXCEPT !.pc = "gate", !.run = r]
  <2>1. /\ j \in JobType /\ j.up = u
        /\ j.rend = job[w].rend /\ j.pdfs = job[w].pdfs
    BY <1>0 DEF JobType, WorkerPC, RunId
  <2>2. job' = [job EXCEPT ![w] = j]
    BY <1>1
  <2> HIDE DEF j
  <2> QED BY <1>0, <2>1, <2>2, JobSet
<1> QED BY <1>3, <1>4, <1>5, <1>6, TypeSplitPrime

LEMMA CheckRunFullType ==
  ASSUME TypeInv, NEW w \in Workers, CheckRunFull(w)
  PROVE  TypeInv'
<1> USE TypeSplit DEF TypeInv
<1>0. job[w] \in JobType /\ job[w].up \in Uploads
  BY DEF CheckRunFull, JobOK, Holding
<1>1. RowOK'
  BY <1>0 DEF CheckRunFull, row, RowOK, UploadStatus, RunId
<1>2. JobOK' /\ Holding'
  <2>1. Release(w) \/ Goto(w, "loop")
    BY DEF CheckRunFull
  <2>2. job[w].pc # "idle" /\ "loop" \in WorkerPC
    BY DEF CheckRunFull, WorkerPC
  <2> QED BY <2>1, <2>2, ReleaseType, GotoType
<1>3. /\ RunOK' /\ FailuresOK' /\ FilesOK' /\ ReqOK' /\ HistoryOK'
      /\ faults' \in Nat /\ Running'
  BY DEF CheckRunFull, run, files, history, RunOK, FailuresOK, FilesOK, ReqOK,
         HistoryOK, Running
<1> QED BY <1>1, <1>2, <1>3, TypeSplitPrime

LEMMA NextChunkType ==
  ASSUME TypeInv, NEW w \in Workers, NextChunk(w)
  PROVE  TypeInv'
<1> USE TypeSplit DEF TypeInv
<1> DEFINE u == job[w].up
           r == job[w].run
           rem == IF r = NoRun THEN job[w].rem ELSE SmallerOf(job[w].rem, Room(r))
           limit == IF u \in Sheets THEN SmallerOf(ChunkSize, rem) ELSE rem
           docs == Render(u, job[w].appr, job[w].off, limit)
           j == [job[w] EXCEPT !.pc = "cap", !.rem = rem, !.rend = docs]
<1>0. /\ job[w] \in JobType /\ u \in Uploads /\ job[w].pc = "loop"
      /\ job[w].pdfs \subseteq DOMAIN Docs[u]
  BY DEF NextChunk, JobOK, Holding
<1>1. rem \in Int
  BY <1>0, RoomType DEF JobType, RunId, SmallerOf
<1>2. docs \in SUBSET (DOMAIN Docs[u]) /\ docs \in SUBSET Nat
  BY <1>0, RenderType, DocsFinite
<1>3. JobOK' /\ Holding'
  <2>1. CASE rem <= 0
    <3>1. Goto(w, "finish") /\ "finish" \in WorkerPC
      BY <2>1 DEF NextChunk, WorkerPC
    <3> QED BY <1>0, <3>1, GotoType
  <2>2. CASE ~(rem <= 0)
    <3>1. job' = [job EXCEPT ![w] = j]
      BY <2>2 DEF NextChunk
    <3>2. j \in JobType
      <4>1. "cap" \in WorkerPC
        BY DEF WorkerPC
      <4> HIDE DEF rem, docs
      <4> QED BY <1>0, <1>1, <1>2, <4>1, JobUpdate
    <3>3. j.up = u /\ j.rend = docs /\ j.pdfs = job[w].pdfs
      <4> HIDE DEF rem, docs
      <4> QED BY <1>0 DEF JobType
    <3> HIDE DEF j
    <3> QED BY <1>0, <1>2, <3>1, <3>2, <3>3, JobSet
  <2> QED BY <2>1, <2>2
<1>4. /\ RowOK' /\ RunOK' /\ FailuresOK' /\ FilesOK' /\ ReqOK' /\ HistoryOK'
      /\ faults' \in Nat /\ Running'
  BY DEF NextChunk, row, run, files, history, RowOK, RunOK, FailuresOK,
         FilesOK, ReqOK, HistoryOK, Running
<1> QED BY <1>3, <1>4, TypeSplitPrime

LEMMA CapPdfsType ==
  ASSUME TypeInv, NEW w \in Workers, CapPdfs(w)
  PROVE  TypeInv'
<1> USE TypeSplit DEF TypeInv
<1> DEFINE u == job[w].up
           r == job[w].run
           allowed == IF r = NoRun THEN job[w].rem
                      ELSE SmallerOf(job[w].rem, Room(r))
           pdfs == FirstOf(job[w].rend, allowed)
           j == [job[w] EXCEPT !.pc = "copy", !.pdfs = pdfs,
                   !.gen = Cardinality(pdfs)]
<1>0. /\ job[w] \in JobType /\ u \in Uploads /\ job[w].pc = "cap"
      /\ job[w].rend \subseteq DOMAIN Docs[u]
  BY DEF CapPdfs, JobOK, Holding
<1>1. pdfs \in SUBSET (DOMAIN Docs[u])
  BY <1>0 DEF FirstOf
<1>2. Cardinality(pdfs) \in Nat /\ pdfs \in SUBSET Nat
  <2> HIDE DEF pdfs
  <2> QED BY <1>0, <1>1, SubsetCount
<1>3. JobOK' /\ Holding'
  <2>1. CASE pdfs = {}
    <3>1. Goto(w, "finish") /\ "finish" \in WorkerPC
      BY <2>1 DEF CapPdfs, WorkerPC
    <3> QED BY <1>0, <3>1, GotoType
  <2>2. CASE pdfs # {}
    <3>1. job' = [job EXCEPT ![w] = j]
      BY <2>2 DEF CapPdfs
    <3>2. j \in JobType
      <4>1. "copy" \in WorkerPC
        BY DEF WorkerPC
      <4> HIDE DEF pdfs
      <4> QED BY <1>0, <1>2, <4>1, JobUpdate
    <3>3. j.up = u /\ j.rend = job[w].rend /\ j.pdfs = pdfs
      <4> HIDE DEF pdfs
      <4> QED BY <1>0 DEF JobType
    <3> HIDE DEF j
    <3> QED BY <1>0, <1>1, <3>1, <3>2, <3>3, JobSet
  <2> QED BY <2>1, <2>2
<1>4. /\ RowOK' /\ RunOK' /\ FailuresOK' /\ FilesOK' /\ ReqOK' /\ HistoryOK'
      /\ faults' \in Nat /\ Running'
  BY DEF CapPdfs, row, run, files, history, RowOK, RunOK, FailuresOK,
         FilesOK, ReqOK, HistoryOK, Running
<1> QED BY <1>3, <1>4, TypeSplitPrime

LEMMA CopyPdfType ==
  ASSUME TypeInv, NEW w \in Workers, CopyPdf(w)
  PROVE  TypeInv'
<1> USE TypeSplit DEF TypeInv
<1> DEFINE u == job[w].up
<1>0. /\ job[w] \in JobType /\ u \in Uploads /\ job[w].pc = "copy"
      /\ job[w].rend \subseteq DOMAIN Docs[u]
      /\ job[w].pdfs \subseteq DOMAIN Docs[u]
  BY DEF CopyPdf, JobOK, Holding
<1>1. PICK d \in job[w].pdfs :
        /\ printed' = [printed EXCEPT ![<<u, d>>] = @ + 1]
        /\ job' = [job EXCEPT ![w] = [@ EXCEPT !.pdfs = job[w].pdfs \ {d},
                     !.pc = IF job[w].pdfs \ {d} = {} THEN "count" ELSE "copy"]]
  BY DEF CopyPdf
<1> DEFINE rest == job[w].pdfs \ {d}
           next == IF rest = {} THEN "count" ELSE "copy"
           j == [job[w] EXCEPT !.pdfs = rest, !.pc = next]
<1>2. JobOK' /\ Holding'
  <2>1. job' = [job EXCEPT ![w] = j]
    BY <1>1
  <2>2. rest \subseteq DOMAIN Docs[u] /\ rest \in SUBSET Nat /\ next \in WorkerPC
    BY <1>0, DocsFinite DEF WorkerPC
  <2>3. j \in JobType
    <3> HIDE DEF rest, next
    <3> QED BY <1>0, <2>2, JobUpdate
  <2>4. j.up = u /\ j.rend = job[w].rend /\ j.pdfs = rest
    <3> HIDE DEF rest, next
    <3> QED BY <1>0 DEF JobType
  <2> HIDE DEF j
  <2> QED BY <1>0, <2>1, <2>2, <2>3, <2>4, JobSet
<1>3. HistoryOK'
  <2>1. printed' \in [DocIds -> Nat]
    <3> DEFINE p == <<u, d>>
    <3>1. p \in DocIds
      BY <1>0 DEF DocIds
    <3>2. printed' = [printed EXCEPT ![p] = printed[p] + 1]
      BY <1>1
    <3> HIDE DEF p
    <3>3. printed[p] + 1 \in Nat
      BY <3>1 DEF HistoryOK
    <3> QED BY <3>2, <3>3 DEF HistoryOK
  <2>2. copied' \in [Runs -> Nat]
    <3> DEFINE r == job[w].run
    <3>1. copied' = IF r = NoRun THEN copied ELSE [copied EXCEPT ![r] = copied[r] + 1]
      BY DEF CopyPdf
    <3>2. r # NoRun => copied[r] + 1 \in Nat
      BY <1>0 DEF JobType, RunId, HistoryOK
    <3> HIDE DEF r
    <3> QED BY <3>1, <3>2 DEF HistoryOK
  <2> QED BY <2>1, <2>2 DEF CopyPdf, HistoryOK
<1>4. /\ RowOK' /\ RunOK' /\ FailuresOK' /\ FilesOK' /\ ReqOK'
      /\ faults' \in Nat /\ Running'
  BY DEF CopyPdf, row, run, files, RowOK, RunOK, FailuresOK,
         FilesOK, ReqOK, Running
<1> QED BY <1>2, <1>3, <1>4, TypeSplitPrime

LEMMA LockRunType ==
  ASSUME TypeInv, NEW w \in Workers, LockRun(w)
  PROVE  TypeInv'
<1> USE TypeSplit DEF TypeInv
<1> DEFINE u == job[w].up
           r == IF job[w].run # NoRun THEN job[w].run ELSE upRun[u]
           j == [job[w] EXCEPT !.pc = "write", !.tgt = r,
                   !.seenP = processed[u], !.seenB = procBy[u],
                   !.seenS = status[u]]
<1>0. /\ job[w] \in JobType /\ u \in Uploads
      /\ job[w].rend \subseteq DOMAIN Docs[u]
      /\ job[w].pdfs \subseteq DOMAIN Docs[u]
  BY DEF LockRun, JobOK, Holding
<1>1. /\ r \in RunId /\ processed[u] \in Nat /\ procBy[u] \in [Templates -> Nat]
      /\ status[u] \in UploadStatus /\ "write" \in WorkerPC
  BY <1>0 DEF RowOK, JobType, WorkerPC
<1>2. JobOK' /\ Holding'
  <2>1. job' = [job EXCEPT ![w] = j]
    BY DEF LockRun
  <2>2. j \in JobType
    <3> HIDE DEF r
    <3> QED BY <1>0, <1>1, JobUpdate
  <2>3. j.up = u /\ j.rend = job[w].rend /\ j.pdfs = job[w].pdfs
    <3> HIDE DEF r
    <3> QED BY <1>0 DEF JobType
  <2> HIDE DEF j
  <2> QED BY <1>0, <2>1, <2>2, <2>3, JobSet
<1>3. /\ RowOK' /\ RunOK' /\ FailuresOK' /\ FilesOK' /\ ReqOK' /\ HistoryOK'
      /\ faults' \in Nat /\ Running'
  BY DEF LockRun, row, run, files, history, RowOK, RunOK, FailuresOK,
         FilesOK, ReqOK, HistoryOK, Running
<1> QED BY <1>2, <1>3, TypeSplitPrime

\* The chunk's count of a template is a number, for the chunk is finite.
LEMMA ChunkCountType ==
  ASSUME NEW u \in Uploads, NEW rend \in SUBSET (DOMAIN Docs[u]),
         NEW gen \in Nat, NEW t
  PROVE  ChunkCount(u, rend, gen, t) \in Nat
<1>1. Cardinality({d \in rend : Docs[u][d] = t}) \in Nat
  BY SubsetCount
<1> QED BY <1>1 DEF ChunkCount

LEMMA AdvanceType ==
  ASSUME NEW j \in JobType, j.up \in Uploads, j.rend \in SUBSET (DOMAIN Docs[j.up])
  PROVE  /\ Advance(j) \in JobType
         /\ Advance(j).up = j.up /\ Advance(j).pdfs = j.pdfs /\ Advance(j).rend = {}
<1> DEFINE left == IF j.rem = Unlimited THEN j.rem ELSE j.rem - j.gen
           zero == [t \in Templates |-> 0]
           sum(t) == j.made[t] + ChunkCount(j.up, j.rend, j.gen, t)
           made == [t \in Templates |-> sum(t)]
           k == [j EXCEPT !.pc = "loop", !.off = j.off + j.gen, !.rem = left,
                   !.made = made, !.rend = {}, !.gen = 0, !.tgt = NoRun, !.seenP = 0,
                   !.seenB = zero, !.seenS = "APPROVED"]
<1>1. j.off + j.gen \in Nat /\ left \in Int
  BY DEF JobType
<1>1a. made \in [Templates -> Nat]
  <2> SUFFICES ASSUME NEW t \in Templates PROVE sum(t) \in Nat
    OBVIOUS
  <2>1. j.made \in [Templates -> Nat] /\ j.gen \in Nat
    BY DEF JobType
  <2>2. ChunkCount(j.up, j.rend, j.gen, t) \in Nat
    BY <2>1, ChunkCountType
  <2>3. j.made[t] \in Nat
    BY <2>1
  <2> QED BY <2>2, <2>3
<1>2. /\ "loop" \in WorkerPC /\ NoRun \in RunId /\ "APPROVED" \in UploadStatus
      /\ zero \in [Templates -> Nat] /\ {} \in SUBSET Nat /\ 0 \in Nat
  BY DEF WorkerPC, RunId, UploadStatus
<1>3. Advance(j) = k
  BY DEF Advance, JobType
<1>4. k \in JobType
  <2> HIDE DEF left, zero, made
  <2> QED BY <1>1, <1>2, <1>1a, JobUpdate
<1>5. k.up = j.up /\ k.pdfs = j.pdfs /\ k.rend = {}
  <2> HIDE DEF left, zero, made
  <2> QED BY DEF JobType
<1> HIDE DEF k
<1> QED BY <1>3, <1>4, <1>5

LEMMA CountChunkType ==
  ASSUME TypeInv, NEW w \in Workers, CountChunk(w)
  PROVE  TypeInv'
<1> USE TypeSplit DEF TypeInv
<1> DEFINE u == job[w].up
<1>0. /\ job[w] \in JobType /\ u \in Uploads
      /\ job[w].rend \in SUBSET (DOMAIN Docs[u])
      /\ job[w].pdfs \subseteq DOMAIN Docs[u]
  BY DEF CountChunk, JobOK, Holding
<1>1. RunOK'
  <2>1. job[w].tgt \in RunId /\ job[w].gen \in Int
    BY <1>0 DEF JobType
  <2> QED BY <2>1, UpdateType DEF CountChunk
<1>2. RowOK'
  <2> DEFINE by(t) == job[w].seenB[t] + ChunkCount(u, job[w].rend, job[w].gen, t)
  <2>1. /\ job[w].gen \in Nat /\ job[w].seenP \in Nat
        /\ job[w].seenB \in [Templates -> Nat]
    BY <1>0 DEF JobType
  <2>2. \A t \in Templates : by(t) \in Nat
    <3> SUFFICES ASSUME NEW t \in Templates PROVE by(t) \in Nat
      OBVIOUS
    <3>1. ChunkCount(u, job[w].rend, job[w].gen, t) \in Nat
      BY <1>0, <2>1, ChunkCountType
    <3>2. job[w].seenB[t] \in Nat
      BY <2>1
    <3> QED BY <3>1, <3>2
  <2> HIDE DEF by
  <2>3. procBy' = [procBy EXCEPT ![u] = [t \in Templates |-> by(t)]]
    BY DEF CountChunk, by
  <2>4. procBy' \in [Uploads -> [Templates -> Nat]]
    BY <2>2, <2>3 DEF RowOK
  <2>5. /\ status' \in [Uploads -> UploadStatus]
        /\ processed' \in [Uploads -> Nat]
    BY <1>0, <2>1 DEF CountChunk, RowOK, UploadStatus
  <2> QED BY <2>4, <2>5 DEF CountChunk, RowOK
<1>3. JobOK' /\ Holding'
  BY <1>0, AdvanceType, JobSet DEF CountChunk
<1>4. /\ FailuresOK' /\ FilesOK' /\ ReqOK' /\ HistoryOK' /\ faults' \in Nat
      /\ Running'
  BY DEF CountChunk, files, history, FailuresOK, FilesOK, ReqOK, HistoryOK, Running
<1> QED BY <1>1, <1>2, <1>3, <1>4, TypeSplitPrime

\* Where the files are put at the end.
LEMMA FinishFilesType ==
  ASSUME RowOK, FilesOK, NEW u \in Uploads
  PROVE  FileProcessed(u) \in SUBSET Places /\ FileKept(u) \in SUBSET Places
BY DEF RowOK, FilesOK, FileProcessed, FileKept, Places

LEMMA FinishType ==
  ASSUME TypeInv, NEW w \in Workers, Finish(w)
  PROVE  TypeInv'
<1> USE TypeSplit DEF TypeInv
<1> DEFINE u == job[w].up
<1>0. job[w] \in JobType /\ u \in Uploads
  BY DEF Finish, JobOK, Holding
<1>1. RowOK'
  <2>1. job[w].made \in [Templates -> Nat]
    BY <1>0 DEF JobType
  <2>2. procBy' \in [Uploads -> [Templates -> Nat]]
    BY <1>0, <2>1 DEF Finish, RowOK
  <2>3. /\ status' \in [Uploads -> UploadStatus] /\ path' \in [Uploads -> Places]
        /\ upRun' \in [Uploads -> RunId] /\ processed' \in [Uploads -> Nat]
    BY <1>0 DEF Finish, RowOK, UploadStatus, RunId, Places
  <2> QED BY <2>2, <2>3 DEF RowOK
<1>2. disk' \in [Uploads -> SUBSET Places]
  <2>1. \E d \in SUBSET Places : disk' = [disk EXCEPT ![u] = d]
    BY <1>0, FinishFilesType DEF Finish
  <2> QED BY <2>1 DEF FilesOK
<1>3. RunOK'
  <2>1. job[w].run \in RunId
    BY <1>0 DEF JobType
  <2> QED BY <2>1, UpdateType DEF Finish
<1>4. JobOK' /\ Holding'
  BY ReleaseType DEF Finish
<1>5. /\ FailuresOK' /\ FilesOK' /\ ReqOK' /\ HistoryOK' /\ faults' \in Nat
      /\ Running'
  BY <1>2 DEF Finish, history, FailuresOK, FilesOK, ReqOK, HistoryOK, Running
<1> QED BY <1>1, <1>3, <1>4, <1>5, TypeSplitPrime

LEMMA HandleFailedUploadType ==
  ASSUME TypeInv, NEW w \in Workers, HandleFailedUpload(w)
  PROVE  TypeInv'
<1> USE TypeSplit DEF TypeInv
<1> DEFINE u == job[w].up
<1>0. job[w] \in JobType /\ u \in Uploads
  BY DEF HandleFailedUpload, JobOK, Holding
<1>1. RowOK' /\ RunOK' /\ FailuresOK' /\ FilesOK'
  <2>1. CASE job[w].known \/ status[u] = "APPROVED"
    <3>1. RunOK' /\ FailuresOK'
      BY <1>0, <2>1, RecordType DEF HandleFailedUpload
    <3>2. RowOK'
      BY <1>0, <2>1 DEF HandleFailedUpload, RowOK, UploadStatus, Places
    <3>3. disk' = [disk EXCEPT ![u] = @ \cup {"Failed"}] /\ UNCHANGED <<meta, stray>>
      BY <2>1 DEF HandleFailedUpload
    <3>4. FilesOK'
      BY <1>0, <3>3 DEF FilesOK, Places
    <3> QED BY <3>1, <3>2, <3>4
  <2>2. CASE ~(job[w].known \/ status[u] = "APPROVED")
    BY <2>2 DEF HandleFailedUpload, row, run, RowOK, RunOK, FailuresOK, FilesOK
  <2> QED BY <2>1, <2>2
<1>2. JobOK' /\ Holding'
  BY ReleaseType DEF HandleFailedUpload
<1>3. ReqOK' /\ HistoryOK' /\ faults' \in Nat /\ Running'
  BY DEF HandleFailedUpload, history, ReqOK, HistoryOK, Running
<1> QED BY <1>1, <1>2, <1>3, TypeSplitPrime

\* The four faults of a worker.
LEMMA WorkerFaultType ==
  ASSUME TypeInv, NEW w \in Workers, WorkerFault(w)
  PROVE  TypeInv'
<1> USE TypeSplit DEF TypeInv
<1>1. CASE CreateBillingRunFails(w)
  <2>1. job[w].pc # "idle" /\ "gate" \in WorkerPC
    BY <1>1 DEF CreateBillingRunFails, WorkerPC
  <2>2. JobOK' /\ Holding'
    BY <1>1, <2>1, GotoType DEF CreateBillingRunFails
  <2> QED BY <1>1, <2>2, TypeSplitPrime
          DEF CreateBillingRunFails, Fault, row, run, files, history, RowOK,
              RunOK, FailuresOK, FilesOK, ReqOK, HistoryOK, Running
<1>2. CASE FinishFails(w)
  <2>1. job[w].up \in Uploads
    BY <1>2 DEF FinishFails, Holding
  <2>2. disk' \in [Uploads -> SUBSET Places]
    <3>1. \E d \in SUBSET Places : disk' = [disk EXCEPT ![job[w].up] = d]
      <4>1. disk[job[w].up] \in SUBSET Places
        BY <2>1 DEF FilesOK
      <4> QED BY <1>2, <2>1, <4>1, FinishFilesType DEF FinishFails
    <3> QED BY <3>1 DEF FilesOK
  <2>3. JobOK' /\ Holding'
    BY <1>2, ReleaseType DEF FinishFails
  <2> QED BY <1>2, <2>2, <2>3, TypeSplitPrime
          DEF FinishFails, Fault, row, run, history, RowOK, RunOK, FailuresOK,
              FilesOK, ReqOK, HistoryOK, Running
<1>3. CASE Raise(w)
  <2>1. job[w].pc # "idle" /\ "failed" \in WorkerPC
    BY <1>3 DEF Raise, WorkerPC
  <2>2. JobOK' /\ Holding'
    BY <1>3, <2>1, GotoType DEF Raise
  <2> QED BY <1>3, <2>2, TypeSplitPrime
          DEF Raise, Fault, row, run, files, history, RowOK, RunOK, FailuresOK,
              FilesOK, ReqOK, HistoryOK, Running
<1>4. CASE WorkerCrash(w)
  <2>1. JobOK' /\ Holding'
    BY <1>4, ReleaseType DEF WorkerCrash
  <2>2. FilesOK'
    BY <1>4 DEF WorkerCrash, FilesOK
  <2> QED BY <1>4, <2>1, <2>2, TypeSplitPrime
          DEF WorkerCrash, Fault, row, run, history, RowOK, RunOK, FailuresOK,
              ReqOK, HistoryOK, Running
<1> QED BY <1>1, <1>2, <1>3, <1>4 DEF WorkerFault

LEMMA WorkerStepType ==
  ASSUME TypeInv, NEW w \in Workers, WorkerStep(w)
  PROVE  TypeInv'
BY ClaimType, ReadMetadataType, LookupUploadType, UnknownTemplateType,
   CreateBillingRunType, CheckRunFullType, NextChunkType, CapPdfsType,
   CopyPdfType, LockRunType, CountChunkType, FinishType, HandleFailedUploadType
DEF WorkerStep
-----------------------------------------------------------------------------
(***************************************************************************)
(* What each step does to the record of its worker                         *)
(***************************************************************************)

\* The step of w leaves the other workers alone.
OnlyWorker(w) == \A x \in Workers \ {w} : job'[x] = job[x]

LEMMA JobIs ==
  ASSUME JobOK, NEW w \in Workers, NEW j, job' = [job EXCEPT ![w] = j]
  PROVE  job'[w] = j /\ OnlyWorker(w)
BY DEF JobOK, OnlyWorker

LEMMA IdleFields ==
  /\ IdleJob.pc = "idle" /\ IdleJob.up = NoUpload /\ IdleJob.run = NoRun
  /\ IdleJob.off = 0 /\ IdleJob.rend = {} /\ IdleJob.pdfs = {} /\ IdleJob.gen = 0
  /\ IdleJob.tgt = NoRun /\ IdleJob.made = [t \in Templates |-> 0]
BY DEF IdleJob

LEMMA ReleaseEffect ==
  ASSUME JobOK, NEW w \in Workers, Release(w)
  PROVE  job'[w] = IdleJob /\ OnlyWorker(w)
BY JobIs DEF Release

LEMMA GotoEffect ==
  ASSUME JobOK, NEW w \in Workers, NEW pc, Goto(w, pc)
  PROVE  /\ OnlyWorker(w) /\ job'[w].pc = pc /\ job'[w].up = job[w].up
         /\ job'[w].run = job[w].run /\ job'[w].off = job[w].off
         /\ job'[w].rem = job[w].rem /\ job'[w].appr = job[w].appr
         /\ job'[w].rend = job[w].rend /\ job'[w].pdfs = job[w].pdfs
         /\ job'[w].gen = job[w].gen /\ job'[w].tgt = job[w].tgt
         /\ job'[w].made = job[w].made
<1>1. job[w] \in JobType
  BY DEF JobOK
<1> DEFINE j == [job[w] EXCEPT !.pc = pc]
<1>2. job'[w] = j /\ OnlyWorker(w)
  BY JobIs DEF Goto
<1> QED BY <1>1, <1>2 DEF JobType

LEMMA ClaimEffect ==
  ASSUME TypeInv, NEW w \in Workers, Claim(w)
  PROVE  \E u \in Uploads :
           /\ "incoming" \in disk[u]
           /\ disk' = [disk EXCEPT ![u] = @ \ {"incoming"}]
           /\ OnlyWorker(w) /\ job'[w].pc = "meta" /\ job'[w].up = u
           /\ job'[w].run = NoRun /\ job'[w].off = 0 /\ job'[w].rend = {}
           /\ job'[w].pdfs = {} /\ job'[w].gen = 0 /\ job'[w].tgt = NoRun
           /\ job'[w].made = [t \in Templates |-> 0]
<1>1. PICK u \in Uploads :
        /\ "incoming" \in disk[u]
        /\ disk' = [disk EXCEPT ![u] = @ \ {"incoming"}]
        /\ job' = [job EXCEPT ![w] = [IdleJob EXCEPT !.pc = "meta", !.up = u]]
  BY DEF Claim
<1> DEFINE j == [IdleJob EXCEPT !.pc = "meta", !.up = u]
<1>2. /\ j.pc = "meta" /\ j.up = u /\ j.run = NoRun /\ j.off = 0 /\ j.rend = {}
      /\ j.pdfs = {} /\ j.gen = 0 /\ j.tgt = NoRun
      /\ j.made = [t \in Templates |-> 0]
  BY DEF IdleJob
<1>3. job'[w] = j /\ OnlyWorker(w)
  BY <1>1, JobIs, TypeSplit DEF TypeInv
<1> HIDE DEF j
<1> QED BY <1>1, <1>2, <1>3

\* With a sidecar the worker does what it says; without one it starts at the
\* first document and has no limit.
LEMMA MetadataEffect ==
  ASSUME TypeInv, NEW w \in Workers, ReadMetadata(w)
  PROVE  /\ OnlyWorker(w) /\ job'[w].pc = "lookup" /\ job'[w].up = job[w].up
         /\ job'[w].rend = job[w].rend /\ job'[w].pdfs = job[w].pdfs
         /\ job'[w].gen = job[w].gen /\ job'[w].tgt = job[w].tgt
         /\ job'[w].made = job[w].made
         /\ \/ \E m \in meta[job[w].up] :
                 /\ job'[w].run = m.run /\ job'[w].off = m.off
                 /\ job'[w].rem = m.lim /\ job'[w].appr = m.appr
            \/ /\ meta[job[w].up] = {} /\ job'[w].run = job[w].run
               /\ job'[w].off = job[w].off /\ job'[w].rem = Unlimited
               /\ job'[w].appr \in ApprovedChoices
<1>0. JobOK /\ job[w] \in JobType
  BY TypeSplit DEF TypeInv, JobOK
<1>1. CASE \E m \in meta[job[w].up] :
             job' = [job EXCEPT ![w] = [@ EXCEPT !.pc = "lookup", !.run = m.run,
                       !.off = m.off, !.rem = m.lim, !.appr = m.appr]]
  <2>1. PICK m \in meta[job[w].up] :
          job' = [job EXCEPT ![w] = [@ EXCEPT !.pc = "lookup", !.run = m.run,
                    !.off = m.off, !.rem = m.lim, !.appr = m.appr]]
    BY <1>1
  <2> DEFINE run1 == m.run
             off == m.off
             lim == m.lim
             appr == m.appr
             j == [job[w] EXCEPT !.pc = "lookup", !.run = run1, !.off = off,
                     !.rem = lim, !.appr = appr]
  <2>2. job'[w] = j /\ OnlyWorker(w)
    BY <1>0, <2>1, JobIs
  <2>3. /\ j.pc = "lookup" /\ j.up = job[w].up /\ j.rend = job[w].rend
        /\ j.pdfs = job[w].pdfs /\ j.gen = job[w].gen /\ j.tgt = job[w].tgt
        /\ j.made = job[w].made
        /\ j.run = run1 /\ j.off = off /\ j.rem = lim /\ j.appr = appr
    <3> HIDE DEF run1, off, lim, appr
    <3> QED BY <1>0 DEF JobType
  <2> HIDE DEF j
  <2> QED BY <2>2, <2>3
<1>2. CASE /\ meta[job[w].up] = {}
           /\ \E approved \in ApprovedChoices :
                job' = [job EXCEPT ![w] = [@ EXCEPT !.pc = "lookup",
                          !.rem = Unlimited, !.appr = approved]]
  <2>1. PICK approved \in ApprovedChoices :
          job' = [job EXCEPT ![w] = [@ EXCEPT !.pc = "lookup", !.rem = Unlimited,
                    !.appr = approved]]
    BY <1>2
  <2> DEFINE j == [job[w] EXCEPT !.pc = "lookup", !.rem = Unlimited, !.appr = approved]
  <2>2. job'[w] = j /\ OnlyWorker(w)
    BY <1>0, <2>1, JobIs
  <2>3. /\ j.pc = "lookup" /\ j.up = job[w].up /\ j.rend = job[w].rend
        /\ j.pdfs = job[w].pdfs /\ j.gen = job[w].gen /\ j.tgt = job[w].tgt
        /\ j.made = job[w].made
        /\ j.run = job[w].run /\ j.off = job[w].off /\ j.rem = Unlimited
        /\ j.appr = approved
    BY <1>0 DEF JobType
  <2> HIDE DEF j
  <2> QED BY <1>2, <2>2, <2>3
<1> QED BY <1>1, <1>2 DEF ReadMetadata

LEMMA LookupEffect ==
  ASSUME TypeInv, NEW w \in Workers, LookupUpload(w)
  PROVE  LET u == job[w].up
             r == IF upRun[u] # NoRun THEN upRun[u] ELSE job[w].run
         IN  /\ OnlyWorker(w) /\ job'[w].up = u /\ job'[w].run = r
             /\ job'[w].pc = (IF u \in Undetected THEN "unknown"
                              ELSE IF r = NoRun THEN "open" ELSE "gate")
             /\ job'[w].rem = (IF job[w].rem = Unlimited /\ r # NoRun THEN Room(r)
                               ELSE job[w].rem)
             /\ job'[w].off = job[w].off /\ job'[w].appr = job[w].appr
             /\ job'[w].rend = job[w].rend /\ job'[w].pdfs = job[w].pdfs
             /\ job'[w].gen = job[w].gen /\ job'[w].tgt = job[w].tgt
             /\ job'[w].made = job[w].made
<1> DEFINE u == job[w].up
           r == IF upRun[u] # NoRun THEN upRun[u] ELSE job[w].run
           next == IF u \in Undetected THEN "unknown"
                   ELSE IF r = NoRun THEN "open"
                   ELSE "gate"
           left == IF job[w].rem = Unlimited /\ r # NoRun THEN Room(r)
                   ELSE job[w].rem
           j == [job[w] EXCEPT !.pc = next, !.known = TRUE, !.run = r, !.rem = left]
<1>0. JobOK /\ job[w] \in JobType
  BY TypeSplit DEF TypeInv, JobOK
<1>1. job'[w] = j /\ OnlyWorker(w)
  <2>1. job' = [job EXCEPT ![w] = j]
    BY DEF LookupUpload
  <2> HIDE DEF j
  <2> QED BY <1>0, <2>1, JobIs
<1>2. /\ j.up = u /\ j.run = r /\ j.pc = next /\ j.rem = left
      /\ j.off = job[w].off /\ j.appr = job[w].appr
      /\ j.rend = job[w].rend /\ j.pdfs = job[w].pdfs
      /\ j.gen = job[w].gen /\ j.tgt = job[w].tgt /\ j.made = job[w].made
  <2> HIDE DEF r, next, left
  <2> QED BY <1>0 DEF JobType
<1> HIDE DEF j
<1> QED BY <1>1, <1>2

LEMMA OpenEffect ==
  ASSUME TypeInv, NEW w \in Workers, CreateBillingRun(w)
  PROVE  /\ OnlyWorker(w) /\ job'[w].pc = "gate" /\ job'[w].run \in Runs
         /\ job'[w].up = job[w].up
         /\ job'[w].off = job[w].off /\ job'[w].rem = job[w].rem
         /\ job'[w].appr = job[w].appr
         /\ job'[w].rend = job[w].rend /\ job'[w].pdfs = job[w].pdfs
         /\ job'[w].gen = job[w].gen /\ job'[w].tgt = job[w].tgt
         /\ job'[w].made = job[w].made
         /\ upRun' = [upRun EXCEPT ![job[w].up] = job'[w].run]
         /\ NextRun(job'[w].run)
<1>0. JobOK /\ job[w] \in JobType
  BY TypeSplit DEF TypeInv, JobOK
<1>1. PICK r \in Runs :
        /\ NextRun(r)
        /\ upRun' = [upRun EXCEPT ![job[w].up] = r]
        /\ job' = [job EXCEPT ![w] = [@ EXCEPT !.pc = "gate", !.run = r]]
  BY DEF CreateBillingRun
<1> DEFINE j == [job[w] EXCEPT !.pc = "gate", !.run = r]
<1>2. job'[w] = j /\ OnlyWorker(w)
  BY <1>0, <1>1, JobIs
<1>3. /\ j.pc = "gate" /\ j.run = r /\ j.up = job[w].up
      /\ j.off = job[w].off /\ j.rem = job[w].rem /\ j.appr = job[w].appr
      /\ j.rend = job[w].rend /\ j.pdfs = job[w].pdfs
      /\ j.gen = job[w].gen /\ j.tgt = job[w].tgt /\ j.made = job[w].made
  BY <1>0 DEF JobType
<1> HIDE DEF j
<1> QED BY <1>1, <1>2, <1>3

\* The limit of the next chunk, when there is one.
ChunkLeft(w) ==
  IF job[w].run = NoRun THEN job[w].rem ELSE SmallerOf(job[w].rem, Room(job[w].run))

ChunkLimit(w) ==
  IF job[w].up \in Sheets THEN SmallerOf(ChunkSize, ChunkLeft(w)) ELSE ChunkLeft(w)

LEMMA ChunkEffect ==
  ASSUME TypeInv, NEW w \in Workers, NextChunk(w)
  PROVE  /\ OnlyWorker(w) /\ job'[w].up = job[w].up /\ job'[w].run = job[w].run
         /\ job'[w].off = job[w].off /\ job'[w].appr = job[w].appr
         /\ job'[w].pdfs = job[w].pdfs /\ job'[w].gen = job[w].gen
         /\ job'[w].tgt = job[w].tgt /\ job'[w].made = job[w].made
         /\ \/ ChunkLeft(w) <= 0 /\ job'[w].pc = "finish"
            \/ /\ ~(ChunkLeft(w) <= 0) /\ job'[w].pc = "cap"
               /\ job'[w].rem = ChunkLeft(w)
               /\ job'[w].rend = Render(job[w].up, job[w].appr, job[w].off, ChunkLimit(w))
<1>0. JobOK /\ job[w] \in JobType
  BY TypeSplit DEF TypeInv, JobOK
<1> DEFINE rem == ChunkLeft(w)
           rend == Render(job[w].up, job[w].appr, job[w].off, ChunkLimit(w))
           j == [job[w] EXCEPT !.pc = "cap", !.rem = rem, !.rend = rend]
<1>1. CASE rem <= 0
  <2>1. Goto(w, "finish")
    BY <1>1 DEF NextChunk, ChunkLeft, ChunkLimit
  <2> QED BY <1>0, <1>1, <2>1, GotoEffect
<1>2. CASE ~(rem <= 0)
  <2>1. job' = [job EXCEPT ![w] = j]
    BY <1>2 DEF NextChunk, ChunkLeft, ChunkLimit
  <2>2. job'[w] = j /\ OnlyWorker(w)
    BY <1>0, <2>1, JobIs
  <2>3. /\ j.up = job[w].up /\ j.run = job[w].run
        /\ j.off = job[w].off /\ j.appr = job[w].appr
        /\ j.pdfs = job[w].pdfs /\ j.gen = job[w].gen
        /\ j.tgt = job[w].tgt /\ j.made = job[w].made
        /\ j.pc = "cap" /\ j.rem = rem /\ j.rend = rend
    <3> HIDE DEF rem, rend
    <3> QED BY <1>0 DEF JobType
  <2> HIDE DEF j
  <2> QED BY <1>2, <2>2, <2>3
<1> QED BY <1>1, <1>2

LEMMA CapEffect ==
  ASSUME TypeInv, NEW w \in Workers, CapPdfs(w)
  PROVE  LET pdfs == FirstOf(job[w].rend, ChunkLeft(w))
         IN  /\ OnlyWorker(w) /\ job'[w].up = job[w].up /\ job'[w].run = job[w].run
             /\ job'[w].off = job[w].off /\ job'[w].appr = job[w].appr
             /\ job'[w].rend = job[w].rend
             /\ job'[w].rem = job[w].rem
             /\ job'[w].tgt = job[w].tgt /\ job'[w].made = job[w].made
             /\ \/ pdfs = {} /\ job'[w].pc = "finish"
                \/ /\ pdfs # {} /\ job'[w].pc = "copy" /\ job'[w].pdfs = pdfs
                   /\ job'[w].gen = Cardinality(pdfs)
<1>0. JobOK /\ job[w] \in JobType
  BY TypeSplit DEF TypeInv, JobOK
<1> DEFINE pdfs == FirstOf(job[w].rend, ChunkLeft(w))
           n == Cardinality(pdfs)
           j == [job[w] EXCEPT !.pc = "copy", !.pdfs = pdfs, !.gen = n]
<1>1. CASE pdfs = {}
  <2>1. Goto(w, "finish")
    BY <1>1 DEF CapPdfs, ChunkLeft
  <2> QED BY <1>0, <1>1, <2>1, GotoEffect
<1>2. CASE pdfs # {}
  <2>1. job' = [job EXCEPT ![w] = j]
    BY <1>2 DEF CapPdfs, ChunkLeft
  <2>2. job'[w] = j /\ OnlyWorker(w)
    BY <1>0, <2>1, JobIs
  <2>3. /\ j.up = job[w].up /\ j.run = job[w].run
        /\ j.off = job[w].off /\ j.appr = job[w].appr
        /\ j.rend = job[w].rend /\ j.rem = job[w].rem
        /\ j.tgt = job[w].tgt /\ j.made = job[w].made
        /\ j.pc = "copy" /\ j.pdfs = pdfs /\ j.gen = n
    <3> HIDE DEF pdfs, n
    <3> QED BY <1>0 DEF JobType
  <2> HIDE DEF j
  <2> QED BY <1>2, <2>2, <2>3
<1> QED BY <1>1, <1>2

LEMMA CopyEffect ==
  ASSUME TypeInv, NEW w \in Workers, CopyPdf(w)
  PROVE  \E d \in job[w].pdfs :
           /\ \A e \in job[w].pdfs \ {d} : d < e
           /\ printed' = [printed EXCEPT ![<<job[w].up, d>>] = @ + 1]
           /\ OnlyWorker(w) /\ job'[w].up = job[w].up /\ job'[w].run = job[w].run
           /\ job'[w].off = job[w].off /\ job'[w].rem = job[w].rem
           /\ job'[w].appr = job[w].appr /\ job'[w].rend = job[w].rend
           /\ job'[w].gen = job[w].gen
           /\ job'[w].tgt = job[w].tgt /\ job'[w].made = job[w].made
           /\ job'[w].pdfs = job[w].pdfs \ {d}
           /\ job'[w].pc = (IF job[w].pdfs \ {d} = {} THEN "count" ELSE "copy")
<1>0. JobOK /\ job[w] \in JobType
  BY TypeSplit DEF TypeInv, JobOK
<1>1. PICK d \in job[w].pdfs :
        /\ \A e \in job[w].pdfs \ {d} : d < e
        /\ printed' = [printed EXCEPT ![<<job[w].up, d>>] = @ + 1]
        /\ job' = [job EXCEPT ![w] = [@ EXCEPT !.pdfs = job[w].pdfs \ {d},
                     !.pc = IF job[w].pdfs \ {d} = {} THEN "count" ELSE "copy"]]
  BY DEF CopyPdf
<1> DEFINE rest == job[w].pdfs \ {d}
           next == IF rest = {} THEN "count" ELSE "copy"
           j == [job[w] EXCEPT !.pdfs = rest, !.pc = next]
<1>2. job'[w] = j /\ OnlyWorker(w)
  BY <1>0, <1>1, JobIs
<1>3. /\ j.up = job[w].up /\ j.run = job[w].run
      /\ j.off = job[w].off /\ j.rem = job[w].rem
      /\ j.appr = job[w].appr /\ j.rend = job[w].rend /\ j.gen = job[w].gen
      /\ j.tgt = job[w].tgt /\ j.made = job[w].made
      /\ j.pdfs = rest /\ j.pc = next
  <2> HIDE DEF rest, next
  <2> QED BY <1>0 DEF JobType
<1> HIDE DEF j
<1> QED BY <1>1, <1>2, <1>3

LEMMA LockEffect ==
  ASSUME TypeInv, NEW w \in Workers, LockRun(w)
  PROVE  /\ OnlyWorker(w) /\ job'[w].pc = "write" /\ job'[w].up = job[w].up
         /\ job'[w].run = job[w].run /\ job'[w].off = job[w].off
         /\ job'[w].rem = job[w].rem /\ job'[w].appr = job[w].appr
         /\ job'[w].rend = job[w].rend /\ job'[w].pdfs = job[w].pdfs
         /\ job'[w].gen = job[w].gen /\ job'[w].made = job[w].made
         /\ job'[w].tgt = (IF job[w].run # NoRun THEN job[w].run ELSE upRun[job[w].up])
         /\ job'[w].seenP = processed[job[w].up]
         /\ job'[w].seenB = procBy[job[w].up]
         /\ job'[w].seenS = status[job[w].up]
<1>0. JobOK /\ job[w] \in JobType
  BY TypeSplit DEF TypeInv, JobOK
<1> DEFINE u == job[w].up
           r == IF job[w].run # NoRun THEN job[w].run ELSE upRun[u]
           p == processed[u]
           b == procBy[u]
           s == status[u]
           j == [job[w] EXCEPT !.pc = "write", !.tgt = r, !.seenP = p, !.seenB = b,
                   !.seenS = s]
<1>1. job'[w] = j /\ OnlyWorker(w)
  BY <1>0, JobIs DEF LockRun
<1>2. /\ j.pc = "write" /\ j.up = job[w].up
      /\ j.run = job[w].run /\ j.off = job[w].off
      /\ j.rem = job[w].rem /\ j.appr = job[w].appr
      /\ j.rend = job[w].rend /\ j.pdfs = job[w].pdfs
      /\ j.gen = job[w].gen /\ j.made = job[w].made
      /\ j.tgt = r /\ j.seenP = p /\ j.seenB = b /\ j.seenS = s
  <2> HIDE DEF r, p, b, s
  <2> QED BY <1>0 DEF JobType
<1> HIDE DEF j
<1> QED BY <1>1, <1>2

LEMMA CountEffect ==
  ASSUME TypeInv, NEW w \in Workers, CountChunk(w)
  PROVE  /\ OnlyWorker(w) /\ job'[w].pc = "loop" /\ job'[w].up = job[w].up
         /\ job'[w].run = job[w].run /\ job'[w].off = job[w].off + job[w].gen
         /\ job'[w].appr = job[w].appr /\ job'[w].rend = {}
         /\ job'[w].rem = (IF job[w].rem = Unlimited THEN job[w].rem
                           ELSE job[w].rem - job[w].gen)
         /\ job'[w].pdfs = job[w].pdfs /\ job'[w].gen = 0 /\ job'[w].tgt = NoRun
         /\ job'[w].made = [t \in Templates |->
               job[w].made[t] + ChunkCount(job[w].up, job[w].rend, job[w].gen, t)]
<1>0. JobOK /\ job[w] \in JobType
  BY TypeSplit DEF TypeInv, JobOK
<1> DEFINE i == job[w]
           left == IF i.rem = Unlimited THEN i.rem ELSE i.rem - i.gen
           zero == [t \in Templates |-> 0]
           off == i.off + i.gen
           made == [t \in Templates |->
                      i.made[t] + ChunkCount(i.up, i.rend, i.gen, t)]
           j == [i EXCEPT !.pc = "loop", !.off = off, !.rem = left,
                   !.made = made, !.rend = {}, !.gen = 0, !.tgt = NoRun, !.seenP = 0,
                   !.seenB = zero, !.seenS = "APPROVED"]
<1>1. job'[w] = Advance(job[w]) /\ OnlyWorker(w)
  BY <1>0, JobIs DEF CountChunk
<1>2. Advance(job[w]) = j
  BY <1>0 DEF Advance, JobType
<1>3. /\ j.pc = "loop" /\ j.up = i.up /\ j.run = i.run /\ j.off = off
      /\ j.appr = i.appr /\ j.rend = {} /\ j.rem = left /\ j.pdfs = i.pdfs
      /\ j.gen = 0 /\ j.tgt = NoRun /\ j.made = made
  <2> HIDE DEF left, zero, off, made
  <2> QED BY <1>0 DEF JobType
<1> HIDE DEF j
<1> QED BY <1>1, <1>2, <1>3
-----------------------------------------------------------------------------
(***************************************************************************)
(* The steps of a request                                                  *)
(***************************************************************************)

LEMMA NewRequestType == NewRequest \in RequestType
BY DEF NewRequest, RequestType, RequestPC, RunId, RunStatus, Places

LEMMA ReqUpdate ==
  ASSUME NEW j \in RequestType
  PROVE  /\ \A x \in RequestPC : [j EXCEPT !.pc = x] \in RequestType
         /\ \A x \in SUBSET Uploads : [j EXCEPT !.todo = x] \in RequestType
         /\ \A x \in SUBSET Uploads : [j EXCEPT !.bad = x] \in RequestType
         /\ \A x \in RunId : [j EXCEPT !.run = x] \in RequestType
         /\ \A x \in Nat : [j EXCEPT !.total = x] \in RequestType
         /\ \A x \in [Uploads -> Nat] : [j EXCEPT !.off = x] \in RequestType
         /\ \A x \in [Uploads -> Nat] : [j EXCEPT !.lim = x] \in RequestType
         /\ \A x \in SUBSET Templates : [j EXCEPT !.appr = x] \in RequestType
         /\ \A x \in SUBSET Uploads : [j EXCEPT !.clear = x] \in RequestType
         /\ \A x \in SUBSET Uploads : [j EXCEPT !.repath = x] \in RequestType
         /\ \A x \in [Uploads -> Places] : [j EXCEPT !.src = x] \in RequestType
         /\ \A x \in Int : [j EXCEPT !.seenS = x] \in RequestType
         /\ \A x \in Int : [j EXCEPT !.seenF = x] \in RequestType
         /\ \A x \in RunStatus : [j EXCEPT !.seenR = x] \in RequestType
         /\ \A x \in SUBSET Uploads : [j EXCEPT !.seenC = x] \in RequestType
BY SMTT(30) DEF RequestType

\* One request has a new record.
LEMMA ReqSet ==
  ASSUME ReqOK, Running, NEW q \in Requests, NEW j \in RequestType,
         j.pc \in {"meta", "data", "finish", "retrycommit", "retryload", "retrysave"} =>
           j.run \in Runs,
         req' = [req EXCEPT ![q] = j]
  PROVE  ReqOK' /\ Running'
BY DEF ReqOK, Running

LEMMA CloseType ==
  ASSUME ReqOK, Running, NEW q \in Requests, Close(q)
  PROVE  ReqOK' /\ Running'
<1>1. DoneRequest \in RequestType /\ DoneRequest.pc = "done"
  <2>1. "done" \in RequestPC
    BY DEF RequestPC
  <2>2. [NewRequest EXCEPT !.pc = "done"].pc = "done"
    BY NewRequestType DEF RequestType
  <2> QED BY <2>1, <2>2, NewRequestType, ReqUpdate DEF DoneRequest
<1> QED BY <1>1, ReqSet DEF Close

LEMMA DeadType ==
  ASSUME NEW r \in RunId
  PROVE  DeadRequest(r) \in RequestType /\ DeadRequest(r).pc = "dead"
         /\ DeadRequest(r).run = r
<1>1. "dead" \in RequestPC
  BY DEF RequestPC
<1> DEFINE j == [NewRequest EXCEPT !.pc = "dead", !.run = r]
<1>2. j \in RequestType
  BY <1>1, NewRequestType, ReqUpdate
<1>3. j.pc = "dead" /\ j.run = r
  BY NewRequestType DEF RequestType
<1>4. DeadRequest(r) = j
  BY DEF DeadRequest
<1> HIDE DEF j
<1> QED BY <1>2, <1>3, <1>4

\* A request that breaks off keeps its run.
LEMMA BreakOffRecord ==
  ASSUME ReqOK, NEW q \in Requests, BreakOff(q)
  PROVE  \E j \in RequestType : /\ req' = [req EXCEPT ![q] = j]
                                /\ j.pc = "dead" /\ j.run = req[q].run
<1>1. req[q].run \in RunId
  BY DEF ReqOK, RequestType
<1> QED BY <1>1, DeadType DEF BreakOff

LEMMA BreakOffType ==
  ASSUME ReqOK, Running, NEW q \in Requests, BreakOff(q)
  PROVE  ReqOK' /\ Running'
BY BreakOffRecord, ReqSet

LEMMA DocIdsFinite == IsFiniteSet(DocIds)
<1> DEFINE docs(u) == {u} \X DOMAIN Docs[u]
           F == {docs(u) : u \in Uploads}
           f == [u \in Uploads |-> docs(u)]
<1>1. \A T \in F : IsFiniteSet(T)
  <2> SUFFICES ASSUME NEW u \in Uploads PROVE IsFiniteSet(docs(u))
    OBVIOUS
  <2> QED BY DocsFinite, FS_Singleton, FS_Product
<1>2. f \in Surjection(Uploads, F)
  BY DEF Surjection
<1>3. IsFiniteSet(F)
  BY <1>2, FS_Surjection, QueueAssumption
<1> QED BY <1>1, <1>3, FS_UNION DEF DocIds

LEMMA DocIdsCount ==
  ASSUME NEW S \in SUBSET DocIds
  PROVE  IsFiniteSet(S) /\ Cardinality(S) \in Nat
BY DocIdsFinite, FS_Subset, FS_CardinalityType

LEMMA PoolType ==
  ASSUME NEW ids \in SUBSET Uploads, NEW approved
  PROVE  Pool(ids, approved) \in SUBSET DocIds
<1>1. ASSUME NEW u \in Uploads
      PROVE  {u} \X Remaining(u, approved) \subseteq {u} \X DOMAIN Docs[u]
  BY RemainingType
<1> QED BY <1>1 DEF Pool, DocIds

LEMMA BeforeType ==
  ASSUME NEW pool \in SUBSET DocIds, NEW u
  PROVE  Before(pool, u) \in Nat
BY DocIdsCount DEF Before

\* Every file that is chosen gets a limit of its own.
LEMMA FileLimitType ==
  ASSUME NEW pool \in SUBSET DocIds, NEW u, NEW limit \in Limits,
         Before(pool, u) < limit
  PROVE  FileLimit(pool, u, limit) \in Nat
<1>1. Before(pool, u) \in Nat /\ limit \in Nat /\ Unlimited \in Nat
  BY BeforeType, QueueAssumption, UnlimitedAssumption
<1>2. Cardinality({p \in pool : p[1] = u}) \in Nat
  BY DocIdsCount
<1> QED BY <1>1, <1>2 DEF FileLimit, SmallerOf

LEMMA BatchRequestType ==
  ASSUME RowOK, NEW ids \in SUBSET Uploads, NEW limit \in Limits,
         NEW approved \in ApprovedChoices
  PROVE  /\ BatchRequest(ids, limit, approved) \in RequestType
         /\ BatchRequest(ids, limit, approved).pc = "commit"
         /\ BatchRequest(ids, limit, approved).total # 0
<1> DEFINE pool == Pool(ids, approved)
           chosen == Chosen(ids, limit, approved)
           reached == Reached(ids, limit, approved)
           total == LargerOf(1, SmallerOf(limit, Cardinality(pool)))
           lim == [u \in Uploads |-> IF u \in chosen
                                     THEN FileLimit(pool, u, limit) ELSE 0]
           clear == {u \in reached : upRun[u] # NoRun}
           repath == {u \in reached : status[u] \in Ready /\ Resolvable(u)
                                         /\ Resolved(u) # path[u]}
           src == [u \in Uploads |->
                     IF Resolvable(u) THEN Resolved(u) ELSE path[u]]
           j == [NewRequest EXCEPT !.pc = "commit", !.todo = chosen,
                   !.total = total, !.off = processed, !.lim = lim,
                   !.appr = approved, !.clear = clear, !.repath = repath,
                   !.src = src]
<1>1. BatchRequest(ids, limit, approved) = j
  BY DEF BatchRequest
<1>2. pool \in SUBSET DocIds /\ Cardinality(pool) \in Nat
  BY PoolType, DocIdsCount
<1>3. total \in Nat \ {0}
  <2> HIDE DEF pool
  <2> QED BY <1>2, QueueAssumption DEF LargerOf, SmallerOf
<1>4. lim \in [Uploads -> Nat]
  <2>1. \A u \in chosen : Before(pool, u) < limit
    BY DEF Chosen
  <2> HIDE DEF pool, chosen
  <2> QED BY <1>2, <2>1, FileLimitType
<1>5. src \in [Uploads -> Places]
  BY DEF Resolved, RowOK, Places
<1>6. chosen \in SUBSET Uploads /\ clear \in SUBSET Uploads /\ repath \in SUBSET Uploads
  BY DEF Chosen, Reached
<1>7. /\ "commit" \in RequestPC /\ approved \in SUBSET Templates
      /\ processed \in [Uploads -> Nat]
  BY QueueAssumption DEF RequestPC, RowOK
<1> HIDE DEF pool, chosen, reached, total, lim, clear, repath, src
<1>8. j \in RequestType
  BY <1>3, <1>4, <1>5, <1>6, <1>7, NewRequestType, ReqUpdate
<1>9. j.pc = "commit" /\ j.total = total
  BY NewRequestType DEF RequestType
<1> HIDE DEF j
<1> QED BY <1>1, <1>3, <1>8, <1>9

LEMMA FilterBatchType ==
  ASSUME TypeInv, NEW q \in Requests, FilterBatch(q)
  PROVE  TypeInv'
<1> USE TypeSplit DEF TypeInv
<1>1. ReqOK' /\ Running'
  BY BatchRequestType, ReqSet DEF FilterBatch
<1>2. /\ RowOK' /\ RunOK' /\ FailuresOK' /\ FilesOK' /\ JobOK' /\ HistoryOK'
      /\ faults' \in Nat /\ Holding'
  BY DEF FilterBatch, row, run, files, history, RowOK, RunOK, FailuresOK,
         FilesOK, JobOK, HistoryOK, Holding
<1> QED BY <1>1, <1>2, TypeSplitPrime

LEMMA CommitBatchType ==
  ASSUME TypeInv, NEW q \in Requests, CommitBatch(q)
  PROVE  TypeInv'
<1> USE TypeSplit DEF TypeInv
<1>0. req[q] \in RequestType /\ req[q].pc = "commit"
  BY DEF CommitBatch, At, ReqOK
<1>1. PICK r \in Runs :
        /\ InsertRun(r, req[q].total)
        /\ upRun' = [u \in Uploads |->
                       IF u \in req[q].todo THEN r
                       ELSE IF u \in req[q].clear THEN NoRun
                       ELSE upRun[u]]
        /\ req' = [req EXCEPT ![q] = [@ EXCEPT !.pc = "meta", !.run = r]]
  BY DEF CommitBatch
<1>2. RunOK'
  BY <1>0, <1>1, InsertType DEF RequestType
<1>3. RowOK'
  <2>1. status' \in [Uploads -> UploadStatus]
    BY DEF CommitBatch, RowOK, UploadStatus
  <2>2. upRun' \in [Uploads -> RunId]
    BY <1>1 DEF RowOK, RunId
  <2>3. path' \in [Uploads -> Places]
    BY <1>0 DEF CommitBatch, RowOK, RequestType
  <2> QED BY <2>1, <2>2, <2>3 DEF CommitBatch, RowOK
<1>4. ReqOK' /\ Running'
  <2> DEFINE j == [req[q] EXCEPT !.pc = "meta", !.run = r]
  <2>1. j \in RequestType
    <3>1. "meta" \in RequestPC /\ r \in RunId
      BY DEF RequestPC, RunId
    <3> QED BY <1>0, <3>1, ReqUpdate
  <2>2. j.run = r
    BY <1>0 DEF RequestType
  <2>3. req' = [req EXCEPT ![q] = j]
    BY <1>1
  <2> HIDE DEF j
  <2> QED BY <2>1, <2>2, <2>3, ReqSet
<1>5. HistoryOK'
  BY <1>0 DEF CommitBatch, HistoryOK, RequestType
<1>6. FailuresOK' /\ FilesOK' /\ JobOK' /\ faults' \in Nat /\ Holding'
  BY DEF CommitBatch, files, FailuresOK, FilesOK, JobOK, Holding
<1> QED BY <1>2, <1>3, <1>4, <1>5, <1>6, TypeSplitPrime

LEMMA StageMetaType ==
  ASSUME TypeInv, NEW q \in Requests, StageMeta(q)
  PROVE  TypeInv'
<1> USE TypeSplit DEF TypeInv
<1>0. req[q] \in RequestType /\ req[q].pc = "meta" /\ req[q].run \in Runs
  BY DEF StageMeta, At, ReqOK, Running
<1>1. PICK u \in Uploads : meta' = [meta EXCEPT ![u] = {Sidecar(q, u)}]
  BY DEF StageMeta
<1>2. Sidecar(q, u) \in SidecarType
  BY <1>0 DEF Sidecar, SidecarType, RequestType
<1>3. FilesOK'
  BY <1>1, <1>2 DEF StageMeta, FilesOK
<1>4. ReqOK' /\ Running'
  <2> DEFINE j == [req[q] EXCEPT !.pc = "data"]
  <2>1. j \in RequestType
    <3>1. "data" \in RequestPC
      BY DEF RequestPC
    <3> QED BY <1>0, <3>1, ReqUpdate
  <2>2. j.run = req[q].run
    BY <1>0 DEF RequestType
  <2>3. req' = [req EXCEPT ![q] = j]
    BY DEF StageMeta
  <2> HIDE DEF j
  <2> QED BY <1>0, <2>1, <2>2, <2>3, ReqSet
<1>5. /\ RowOK' /\ RunOK' /\ FailuresOK' /\ JobOK' /\ HistoryOK'
      /\ faults' \in Nat /\ Holding'
  BY DEF StageMeta, row, run, history, RowOK, RunOK, FailuresOK, JobOK,
         HistoryOK, Holding
<1> QED BY <1>3, <1>4, <1>5, TypeSplitPrime

\* The bookkeeping of one staged file.
LEMMA StagedType ==
  ASSUME ReqOK, Running, NEW q \in Requests, NEW u \in Uploads,
         NEW bad \in SUBSET Uploads, At(q, "meta") \/ At(q, "data"),
         Staged(q, u, bad)
  PROVE  ReqOK' /\ Running'
<1> DEFINE rest == req[q].todo \ {u}
           more == req[q].bad \cup bad
           next == IF rest = {} THEN "finish" ELSE "meta"
           j == [req[q] EXCEPT !.todo = rest, !.bad = more, !.pc = next]
<1>0. req[q] \in RequestType /\ req[q].run \in Runs
  BY DEF At, ReqOK, Running
<1>1. /\ rest \in SUBSET Uploads /\ more \in SUBSET Uploads /\ next \in RequestPC
  BY <1>0 DEF RequestType, RequestPC
<1>2. req' = [req EXCEPT ![q] = j]
  BY DEF Staged
<1> HIDE DEF rest, more, next
<1>3. j \in RequestType
  BY <1>0, <1>1, ReqUpdate
<1>4. j.run = req[q].run
  BY <1>0 DEF RequestType
<1> HIDE DEF j
<1> QED BY <1>0, <1>2, <1>3, <1>4, ReqSet

LEMMA StageDataType ==
  ASSUME TypeInv, NEW q \in Requests, StageData(q)
  PROVE  TypeInv'
<1> USE TypeSplit DEF TypeInv
<1>1. PICK u \in Uploads :
        /\ IF req[q].src[u] = "incoming" \/ req[q].src[u] \notin disk[u]
           THEN UNCHANGED disk
           ELSE disk' = [disk EXCEPT ![u] = @ \cup {"incoming"}]
        /\ Staged(q, u, IF req[q].src[u] = "incoming" \/ req[q].src[u] \in disk[u]
                        THEN {} ELSE {u})
  BY DEF StageData
<1>2. ReqOK' /\ Running'
  <2> DEFINE bad == IF req[q].src[u] = "incoming" \/ req[q].src[u] \in disk[u]
                    THEN {} ELSE {u}
  <2>1. bad \in SUBSET Uploads /\ Staged(q, u, bad)
    BY <1>1
  <2> HIDE DEF bad
  <2> QED BY <2>1, StagedType DEF StageData
<1>3. FilesOK'
  BY <1>1 DEF StageData, FilesOK, Places
<1>4. /\ RowOK' /\ RunOK' /\ FailuresOK' /\ JobOK' /\ HistoryOK'
      /\ faults' \in Nat /\ Holding'
  BY DEF StageData, row, run, history, RowOK, RunOK, FailuresOK, JobOK,
         HistoryOK, Holding
<1> QED BY <1>2, <1>3, <1>4, TypeSplitPrime

LEMMA StageFailsType ==
  ASSUME TypeInv, NEW q \in Requests, StageFails(q)
  PROVE  TypeInv'
<1> USE TypeSplit DEF TypeInv
<1>1. ReqOK' /\ Running'
  BY StagedType DEF StageFails
<1>2. /\ RowOK' /\ RunOK' /\ FailuresOK' /\ FilesOK' /\ JobOK' /\ HistoryOK'
      /\ faults' \in Nat /\ Holding'
  BY DEF StageFails, Fault, row, run, files, history, RowOK, RunOK, FailuresOK,
         FilesOK, JobOK, HistoryOK, Holding
<1> QED BY <1>1, <1>2, TypeSplitPrime

LEMMA FinishBatchType ==
  ASSUME TypeInv, NEW q \in Requests, FinishBatch(q)
  PROVE  TypeInv'
<1> USE TypeSplit DEF TypeInv
<1> DEFINE r == req[q].run
           bad == req[q].bad
<1>0. req[q] \in RequestType /\ r \in Runs
  BY DEF FinishBatch, At, ReqOK, Running
<1>1. RowOK'
  BY <1>0 DEF FinishBatch, RowOK, UploadStatus
<1>2. RunOK'
  <2>1. Cardinality(bad) \in Nat
    BY <1>0, FS_Subset, FS_CardinalityType, QueueAssumption DEF RequestType
  <2>2. rfail[r] + Cardinality(bad) \in Int /\ req[q].total \in Nat
    BY <1>0, <2>1 DEF RunOK, RequestType
  <2> QED BY <1>0, <2>2 DEF FinishBatch, RunOK
<1>3. FailuresOK'
  <2> DEFINE now == [u \in Uploads |-> IF u \in bad THEN failures[r][u] + 1
                                      ELSE failures[r][u]]
  <2>1. now \in [Uploads -> Nat]
    BY <1>0 DEF FailuresOK
  <2>2. failures' = [failures EXCEPT ![r] = now]
    BY DEF FinishBatch
  <2> HIDE DEF now
  <2> QED BY <2>1, <2>2 DEF FailuresOK
<1>4. ReqOK' /\ Running'
  BY CloseType DEF FinishBatch
<1>5. FilesOK' /\ JobOK' /\ HistoryOK' /\ faults' \in Nat /\ Holding'
  BY DEF FinishBatch, files, history, FilesOK, JobOK, HistoryOK, Holding
<1> QED BY <1>1, <1>2, <1>3, <1>4, <1>5, TypeSplitPrime

LEMMA ApiCrashType ==
  ASSUME TypeInv, NEW q \in Requests, ApiCrash(q)
  PROVE  TypeInv'
<1> USE TypeSplit DEF TypeInv
<1>1. ReqOK' /\ Running'
  BY CloseType, BreakOffType DEF ApiCrash
<1>2. /\ RowOK' /\ RunOK' /\ FailuresOK' /\ FilesOK' /\ JobOK' /\ HistoryOK'
      /\ faults' \in Nat /\ Holding'
  BY DEF ApiCrash, Fault, row, run, files, history, RowOK, RunOK, FailuresOK,
         FilesOK, JobOK, HistoryOK, Holding
<1> QED BY <1>1, <1>2, TypeSplitPrime

LEMMA GenerateSingleType ==
  ASSUME TypeInv, NEW q \in Requests, GenerateSingle(q)
  PROVE  TypeInv'
<1> USE TypeSplit DEF TypeInv
<1>0. req[q] \in RequestType
  BY DEF ReqOK
<1>1. PICK u \in Uploads, r \in Runs :
        /\ InsertRun(r, 1)
        /\ status' = [status EXCEPT ![u] = "APPROVED"]
        /\ upRun' = [upRun EXCEPT ![u] = r]
        /\ req' = [req EXCEPT ![q] = [@ EXCEPT !.pc = "move", !.todo = {u},
                     !.src = path]]
        /\ raced' = IF InHand(u) THEN raced \cup {u} ELSE raced
  BY DEF GenerateSingle
<1>2. RunOK'
  BY <1>1, InsertType
<1>3. RowOK'
  BY <1>1 DEF GenerateSingle, RowOK, UploadStatus, RunId
<1>4. ReqOK' /\ Running'
  <2> DEFINE j == [req[q] EXCEPT !.pc = "move", !.todo = {u}, !.src = path]
  <2>1. "move" \in RequestPC /\ {u} \in SUBSET Uploads /\ path \in [Uploads -> Places]
    BY DEF RequestPC, RowOK
  <2>2. j \in RequestType
    BY <1>0, <2>1, ReqUpdate
  <2>3. j.pc = "move"
    BY <1>0 DEF RequestType
  <2>4. req' = [req EXCEPT ![q] = j]
    BY <1>1
  <2> HIDE DEF j
  <2> QED BY <2>2, <2>3, <2>4, ReqSet
<1>5. HistoryOK'
  BY <1>1 DEF GenerateSingle, HistoryOK
<1>6. FailuresOK' /\ FilesOK' /\ JobOK' /\ faults' \in Nat /\ Holding'
  BY DEF GenerateSingle, files, FailuresOK, FilesOK, JobOK, Holding
<1> QED BY <1>2, <1>3, <1>4, <1>5, <1>6, TypeSplitPrime

LEMMA MoveToQueueType ==
  ASSUME TypeInv, NEW q \in Requests, MoveToQueue(q) \/ MoveToQueueFails(q)
  PROVE  TypeInv'
<1> USE TypeSplit DEF TypeInv
<1>1. ReqOK' /\ Running'
  BY CloseType DEF MoveToQueue, MoveToQueueFails
<1>0. req[q] \in RequestType
  BY DEF ReqOK
<1>2. CASE MoveToQueue(q)
  <2>1. PICK u \in req[q].todo :
          /\ disk' = IF req[q].src[u] = "incoming" THEN disk
                     ELSE [disk EXCEPT ![u] = (@ \ {req[q].src[u]}) \cup {"incoming"}]
          /\ path' = [path EXCEPT ![u] = "incoming"]
    BY <1>2 DEF MoveToQueue
  <2>2. RowOK'
    BY <1>2, <2>1 DEF MoveToQueue, RowOK, Places
  <2>3. FilesOK'
    BY <1>2, <2>1 DEF MoveToQueue, FilesOK, Places
  <2> QED BY <1>1, <1>2, <2>2, <2>3, TypeSplitPrime
          DEF MoveToQueue, run, history, RunOK, FailuresOK, JobOK, HistoryOK, Holding
<1>3. CASE MoveToQueueFails(q)
  <2>1. PICK u \in req[q].todo :
          /\ IF req[q].src[u] \in disk[u] THEN Fault("move") ELSE UNCHANGED faults
          /\ disk' = [disk EXCEPT ![u] = @ \ {"incoming"}]
          /\ status' = [status EXCEPT ![u] = "PENDING_APPROVAL"]
          /\ upRun' = [upRun EXCEPT ![u] = NoRun]
    BY <1>3 DEF MoveToQueueFails
  <2>2. RowOK'
    BY <1>3, <2>1 DEF MoveToQueueFails, RowOK, UploadStatus, RunId
  <2>3. FilesOK'
    BY <1>3, <2>1 DEF MoveToQueueFails, FilesOK
  <2>4. faults' \in Nat
    BY <2>1 DEF Fault
  <2> QED BY <1>1, <1>3, <2>2, <2>3, <2>4, TypeSplitPrime
          DEF MoveToQueueFails, run, history, RunOK, FailuresOK, JobOK,
              HistoryOK, Holding
<1> QED BY <1>2, <1>3

LEMMA RetryFailedRunType ==
  ASSUME TypeInv, NEW q \in Requests, RetryFailedRun(q)
  PROVE  TypeInv'
<1> USE TypeSplit DEF TypeInv
<1>0. req[q] \in RequestType
  BY DEF ReqOK
<1>1. PICK r \in Runs :
        /\ retried' = retried \cup {r}
        /\ req' = [req EXCEPT ![q] = [@ EXCEPT !.pc = "retrycommit", !.run = r,
                     !.seenR = rstatus[r]]]
  BY DEF RetryFailedRun
<1>2. HistoryOK'
  BY <1>1 DEF RetryFailedRun, HistoryOK
<1>3. ReqOK' /\ Running'
  <2> DEFINE j == [req[q] EXCEPT !.pc = "retrycommit", !.run = r, !.seenR = rstatus[r]]
  <2>1. "retrycommit" \in RequestPC /\ r \in RunId /\ rstatus[r] \in RunStatus
    BY DEF RequestPC, RunId, RunOK, RunStatus
  <2>2. j \in RequestType
    BY <1>0, <2>1, ReqUpdate
  <2>3. j.run = r
    BY <1>0 DEF RequestType
  <2>4. req' = [req EXCEPT ![q] = j]
    BY <1>1
  <2> HIDE DEF j
  <2> QED BY <2>2, <2>3, <2>4, ReqSet
<1>4. /\ RowOK' /\ RunOK' /\ FailuresOK' /\ FilesOK' /\ JobOK' /\ faults' \in Nat
      /\ Holding'
  BY DEF RetryFailedRun, row, run, files, RowOK, RunOK, FailuresOK, FilesOK, JobOK,
         Holding
<1> QED BY <1>2, <1>3, <1>4, TypeSplitPrime

LEMMA CommitRetryType ==
  ASSUME TypeInv, NEW q \in Requests, CommitRetry(q)
  PROVE  TypeInv'
<1> USE TypeSplit DEF TypeInv
<1>0. req[q] \in RequestType /\ req[q].run \in Runs
  BY DEF CommitRetry, At, ReqOK, Running
<1>1. RunOK'
  BY <1>0 DEF CommitRetry, RunOK
<1>2. ReqOK' /\ Running'
  <2> DEFINE j == [req[q] EXCEPT !.pc = "retryload"]
  <2>1. "retryload" \in RequestPC
    BY DEF RequestPC
  <2>2. j \in RequestType
    BY <1>0, <2>1, ReqUpdate
  <2>3. j.run = req[q].run
    BY <1>0 DEF RequestType
  <2>4. req' = [req EXCEPT ![q] = j]
    BY DEF CommitRetry
  <2> HIDE DEF j
  <2> QED BY <1>0, <2>2, <2>3, <2>4, ReqSet
<1>3. /\ RowOK' /\ FailuresOK' /\ FilesOK' /\ JobOK' /\ HistoryOK' /\ faults' \in Nat
      /\ Holding'
  BY DEF CommitRetry, row, files, history, RowOK, FailuresOK, FilesOK, JobOK,
         HistoryOK, Holding
<1> QED BY <1>1, <1>2, <1>3, TypeSplitPrime

\* What a task remembers of the files it has found: the run as it is now.
LEMMA TakeUpRecord ==
  ASSUME RowOK, RunOK, ReqOK, NEW q \in Requests, req[q].run \in Runs,
         NEW found \in SUBSET Uploads, TakeUp(q, found)
  PROVE  \E j \in RequestType :
           /\ req' = [req EXCEPT ![q] = j]
           /\ j.run = req[q].run
           /\ j.pc = "dead" \/ (j.pc = "retrysave" /\ j.seenR = rstatus[j.run])
<1>1. CASE found = {}
  BY <1>1, BreakOffRecord DEF TakeUp
<1>2. CASE found # {}
  <2> DEFINE r == req[q].run
             done == {u \in found : status[u] = "COMPLETED"}
             j == [req[q] EXCEPT !.pc = "retrysave", !.todo = found, !.src = path,
                     !.seenS = rsucc[r], !.seenF = rfail[r], !.seenR = rstatus[r],
                     !.seenC = done]
  <2>1. req' = [req EXCEPT ![q] = j]
    BY <1>2 DEF TakeUp
  <2>2. /\ "retrysave" \in RequestPC /\ done \in SUBSET Uploads
        /\ path \in [Uploads -> Places] /\ rsucc[r] \in Int /\ rfail[r] \in Int
        /\ rstatus[r] \in RunStatus /\ req[q] \in RequestType
    BY DEF RequestPC, RowOK, RunOK, RunStatus, ReqOK
  <2> HIDE DEF done
  <2>3. j \in RequestType
    BY <2>2, ReqUpdate
  <2>4. j.run = r /\ j.pc = "retrysave" /\ j.seenR = rstatus[r]
    BY <2>2 DEF RequestType
  <2> HIDE DEF j
  <2> QED BY <2>1, <2>3, <2>4
<1> QED BY <1>1, <1>2

\* The task that looks for its files, whatever it finds.
LEMMA LoadRecord ==
  ASSUME RowOK, RunOK, ReqOK, Running, NEW q \in Requests,
         LoadFailures(q) \/ UploadsGone(q) \/ RetryLoadFails(q)
  PROVE  \E j \in RequestType :
           /\ req' = [req EXCEPT ![q] = j]
           /\ j.run = req[q].run
           /\ j.pc = "dead" \/ (j.pc = "retrysave" /\ j.seenR = rstatus[j.run])
<1>0. req[q].run \in Runs
  BY DEF LoadFailures, UploadsGone, RetryLoadFails, At, Running
<1>1. CASE LoadFailures(q)
  <2>1. FailedFiles(req[q].run) \in SUBSET Uploads
    BY DEF FailedFiles
  <2> QED BY <1>0, <1>1, <2>1, TakeUpRecord DEF LoadFailures
<1>2. CASE UploadsGone(q)
  <2>1. PICK found \in SUBSET FailedFiles(req[q].run) : TakeUp(q, found)
    BY <1>2 DEF UploadsGone
  <2>2. found \in SUBSET Uploads
    BY DEF FailedFiles
  <2> QED BY <1>0, <2>1, <2>2, TakeUpRecord
<1>3. CASE RetryLoadFails(q)
  BY <1>3, BreakOffRecord DEF RetryLoadFails
<1> QED BY <1>1, <1>2, <1>3

LEMMA LoadFailuresType ==
  ASSUME TypeInv, NEW q \in Requests,
         LoadFailures(q) \/ UploadsGone(q) \/ RetryLoadFails(q)
  PROVE  TypeInv'
<1> USE TypeSplit DEF TypeInv
<1>1. ReqOK' /\ Running'
  <2>1. req[q].run \in Runs
    BY DEF LoadFailures, UploadsGone, RetryLoadFails, At, Running
  <2>2. PICK j \in RequestType : /\ req' = [req EXCEPT ![q] = j]
                                 /\ j.run = req[q].run
    BY LoadRecord
  <2> QED BY <2>1, <2>2, ReqSet
<1>2. /\ RowOK' /\ RunOK' /\ FailuresOK' /\ FilesOK' /\ JobOK' /\ HistoryOK'
      /\ faults' \in Nat /\ Holding'
  BY DEF LoadFailures, UploadsGone, RetryLoadFails, Fault, row, run, files, history,
         RowOK, RunOK, FailuresOK, FilesOK, JobOK, HistoryOK, Holding
<1> QED BY <1>1, <1>2, TypeSplitPrime

\* The results of a retry are counted by documents of the retried files.
LEMMA SuccessesType ==
  ASSUME NEW q \in Requests, NEW todo \in SUBSET Uploads
  PROVE  UNION {Successes(q, u) : u \in todo} \in SUBSET DocIds
<1> SUFFICES ASSUME NEW u \in todo, NEW p \in Successes(q, u) PROVE p \in DocIds
  OBVIOUS
<1>1. Rerendered(q, u) \in SUBSET (DOMAIN Docs[u])
  BY RenderType DEF Rerendered
<1>2. CASE u \in Sheets
  <2>1. p = <<u, 1>> /\ Rerendered(q, u) # {}
    BY <1>2 DEF Successes
  <2>2. Docs[u] \in Seq(Templates)
    BY QueueAssumption
  <2>3. 1 \in DOMAIN Docs[u]
    BY <1>1, <2>1, <2>2
  <2> QED BY <2>1, <2>3 DEF DocIds
<1>3. CASE u \notin Sheets
  <2>1. p \in {u} \X Rerendered(q, u)
    BY <1>3 DEF Successes
  <2> QED BY <1>1, <2>1 DEF DocIds
<1> QED BY <1>2, <1>3

\* The verdict, or the status as it is.
LEMMA VerdictType ==
  ASSUME RunOK, NEW q \in Requests, req[q].run \in Runs, NEW verdict,
         verdict \in {"DONE", "PARTIAL", "FAILED"}, WriteVerdict(q, verdict)
  PROVE  /\ rstatus' \in [Runs -> {"absent", "RUNNING", "DONE", "PARTIAL", "FAILED"}]
         /\ rstatus' = [rstatus EXCEPT ![req[q].run] = rstatus'[req[q].run]]
         /\ rstatus'[req[q].run] \in {verdict, rstatus[req[q].run]}
         /\ req[q].seenR = "RUNNING" => rstatus'[req[q].run] # "RUNNING"
BY DEF RunOK, WriteVerdict

\* The documents of the output, however many of them are there.
LEMMA CopyOutType ==
  ASSUME HistoryOK, NEW out, CopyOut(out)
  PROVE  printed' \in [DocIds -> Nat]
<1>1. \A u : Attempts(u) \in Nat
  BY DEF Attempts
<1> QED BY <1>1 DEF CopyOut, HistoryOK

LEMMA SaveRetryType ==
  ASSUME TypeInv, NEW q \in Requests, SaveRetry(q)
  PROVE  TypeInv'
<1> USE TypeSplit DEF TypeInv
<1> DEFINE r == req[q].run
           todo == req[q].todo
           good == UNION {Successes(q, u) : u \in todo}
           n == Cardinality(good)
           got(u) == Cardinality({p \in good : p[1] = u})
<1>0. /\ req[q] \in RequestType /\ r \in Runs /\ todo \in SUBSET Uploads
      /\ req[q].seenS \in Int /\ req[q].seenF \in Int
  BY DEF SaveRetry, At, ReqOK, Running, RequestType
<1>1. n \in Nat
  <2>1. good \in SUBSET DocIds
    BY <1>0, SuccessesType
  <2> HIDE DEF good
  <2> QED BY <2>1, DocIdsCount
<1>2. RunOK'
  <2>1. /\ rsucc' = [rsucc EXCEPT ![r] = Changed(req[q].seenS, req[q].seenS + n, @)]
        /\ rfail' = [rfail EXCEPT ![r] = Changed(req[q].seenF, req[q].seenF - n, @)]
        /\ WriteVerdict(q, Verdict(req[q].seenF - n))
        /\ UNCHANGED rtotal
    BY DEF SaveRetry
  <2> HIDE DEF n
  <2>2. Verdict(req[q].seenF - n) \in {"DONE", "PARTIAL", "FAILED"}
    BY DEF Verdict
  <2>3. rstatus' \in [Runs -> {"absent", "RUNNING", "DONE", "PARTIAL", "FAILED"}]
    BY <1>0, <2>1, <2>2, VerdictType
  <2>4. rsucc' \in [Runs -> Int] /\ rfail' \in [Runs -> Int]
    BY <1>0, <1>1, <2>1 DEF RunOK, Changed
  <2> QED BY <2>1, <2>3, <2>4 DEF RunOK
<1>3. RowOK'
  <2>1. PICK first \in todo :
          status' = [u \in Uploads |->
            IF /\ u \in todo \ req[q].seenC /\ got(u) > 0
               /\ (u \in Sheets <=> first \in Sheets)
            THEN "COMPLETED" ELSE status[u]]
    BY DEF SaveRetry
  <2> HIDE DEF got
  <2>2. status' \in [Uploads -> UploadStatus]
    BY <2>1 DEF RowOK, UploadStatus
  <2> QED BY <2>2 DEF SaveRetry, RowOK
<1>4. FailuresOK'
  <2> DEFINE now == [u \in Uploads |-> IF u \in todo /\ got(u) > 0
                                      THEN LargerOf(0, failures[r][u] - 1)
                                      ELSE failures[r][u]]
  <2>1. failures' = [failures EXCEPT ![r] = now]
    BY DEF SaveRetry
  <2> HIDE DEF got
  <2>2. now \in [Uploads -> Nat]
    BY <1>0 DEF FailuresOK, LargerOf
  <2> HIDE DEF now
  <2> QED BY <2>1, <2>2 DEF FailuresOK
<1>5. HistoryOK'
  <2>1. printed' \in [DocIds -> Nat]
    BY CopyOutType DEF SaveRetry
  <2> QED BY <2>1 DEF SaveRetry, HistoryOK
<1>6. ReqOK' /\ Running'
  BY CloseType DEF SaveRetry
<1>7. FilesOK' /\ JobOK' /\ faults' \in Nat /\ Holding'
  BY DEF SaveRetry, files, FilesOK, JobOK, Holding
<1> QED BY <1>2, <1>3, <1>4, <1>5, <1>6, <1>7, TypeSplitPrime

LEMMA RetryFailsType ==
  ASSUME TypeInv, NEW q \in Requests, RetryFails(q) \/ RetrySaveFails(q)
  PROVE  TypeInv'
<1> USE TypeSplit DEF TypeInv
<1>0. req[q].run \in Runs
  BY DEF RetryFails, RetrySaveFails, At, Running
<1>1. ReqOK' /\ Running'
  BY CloseType, BreakOffType DEF RetryFails, RetrySaveFails
<1>2. RunOK'
  <2>1. CASE RetryFails(q)
    BY <1>0, <2>1, VerdictType DEF RetryFails, RunOK
  <2>2. CASE RetrySaveFails(q)
    BY <2>2 DEF RetrySaveFails, run, RunOK
  <2> QED BY <2>1, <2>2
<1>3. HistoryOK'
  <2>1. printed' \in [DocIds -> Nat]
    BY CopyOutType DEF RetryFails, RetrySaveFails
  <2> QED BY <2>1 DEF RetryFails, RetrySaveFails, HistoryOK
<1>4. RowOK' /\ FailuresOK' /\ FilesOK' /\ JobOK' /\ faults' \in Nat /\ Holding'
  BY DEF RetryFails, RetrySaveFails, Fault, row, files, RowOK, FailuresOK, FilesOK,
         JobOK, Holding
<1> QED BY <1>1, <1>2, <1>3, <1>4, TypeSplitPrime

LEMMA DecisionType ==
  ASSUME TypeInv, NEW u \in Uploads, Approve(u) \/ Reject(u)
  PROVE  TypeInv'
<1> USE TypeSplit DEF TypeInv
<1>1. RowOK'
  BY DEF Approve, Reject, RowOK, UploadStatus
<1>2. /\ RunOK' /\ FailuresOK' /\ FilesOK' /\ JobOK' /\ ReqOK' /\ HistoryOK'
      /\ faults' \in Nat /\ Holding' /\ Running'
  BY DEF Approve, Reject, run, files, history, RunOK, FailuresOK, FilesOK,
         JobOK, ReqOK, HistoryOK, Holding, Running
<1> QED BY <1>1, <1>2, TypeSplitPrime

LEMMA RequestActionType ==
  ASSUME TypeInv, NEW q \in Requests,
         NewRequestStep(q) \/ RequestStep(q) \/ RequestFault(q)
  PROVE  TypeInv'
BY FilterBatchType, CommitBatchType, StageMetaType, StageDataType,
   StageFailsType, FinishBatchType, ApiCrashType, GenerateSingleType,
   MoveToQueueType, RetryFailedRunType, CommitRetryType, LoadFailuresType,
   SaveRetryType, RetryFailsType
DEF NewRequestStep, RequestStep, RequestFault

LEMMA NextType == TypeInv /\ [Next]_vars => TypeInv'
<1> SUFFICES ASSUME TypeInv, [Next]_vars PROVE TypeInv'
  OBVIOUS
<1>1. ASSUME NEW w \in Workers, WorkerStep(w) \/ WorkerFault(w) PROVE TypeInv'
  BY <1>1, WorkerStepType, WorkerFaultType
<1>2. ASSUME NEW q \in Requests,
             NewRequestStep(q) \/ RequestStep(q) \/ RequestFault(q)
      PROVE  TypeInv'
  BY <1>2, RequestActionType
<1>3. ASSUME NEW u \in Uploads, Approve(u) \/ Reject(u) PROVE TypeInv'
  BY <1>3, DecisionType
<1>4. CASE UNCHANGED vars
  BY <1>4 DEF vars, row, run, files, history, TypeInv, TypeOK, Holding, Running
<1> QED BY <1>1, <1>2, <1>3, <1>4 DEF Next

LEMMA TypeInvariant == Spec => []TypeInv
BY InitType, NextType, PTL DEF Spec

\* Type correctness of the queue for every set of files, workers and requests,
\* and every kind and number of faults.
THEOREM TypeCorrect == Spec => []TypeOK
<1>1. TypeInv => TypeOK
  BY DEF TypeInv
<1> QED BY <1>1, TypeInvariant, PTL
-----------------------------------------------------------------------------
(***************************************************************************)
(* The invariant: whoever refers to a run refers to one that was opened, and *)
(* the request that opened it knows its total.                             *)
(***************************************************************************)

Opened(r) == r \in Runs /\ rstatus[r] # "absent"

RowsRefer == \A u \in Uploads : upRun[u] # NoRun => Opened(upRun[u])

JobsRefer ==
  \A w \in Workers : /\ job[w].run # NoRun => Opened(job[w].run)
                     /\ job[w].tgt # NoRun => Opened(job[w].tgt)

SidecarsRefer == \A u \in Uploads : \A m \in meta[u] : m.run # NoRun => Opened(m.run)

RequestsRefer ==
  \A q \in Requests :
    /\ req[q].pc \in {"commit", "meta", "data", "finish"} => req[q].total # 0
    /\ req[q].pc \in {"meta", "data", "finish"} =>
         Opened(req[q].run) /\ rtotal[req[q].run] = req[q].total
    /\ req[q].pc \in {"retrycommit", "retryload", "retrysave"} => req[q].run \in retried

RetriedOpened == \A r \in retried : Opened(r)

Counted ==
  /\ \A r \in Runs : rstatus[r] = "absent" => rsucc[r] = 0 /\ rfail[r] = 0
  /\ \A r \in Runs \ retried : 0 <= rsucc[r] /\ rsucc[r] <= rtotal[r] /\ 0 <= rfail[r]

LedgerInv ==
  /\ RowsRefer /\ JobsRefer /\ SidecarsRefer /\ RequestsRefer /\ RetriedOpened
  /\ Counted

LedgerStep == [RL!LedgerNext]_(RL!ledgerVars)

\* Opened runs stay open, and their totals do not move.
Steady == \A r \in Runs : Opened(r) => Opened(r)' /\ rtotal'[r] = rtotal[r]

LEMMA InitLedger == Init => LedgerInv /\ RL!LedgerInit
<1> SUFFICES ASSUME Init PROVE LedgerInv /\ RL!LedgerInit
  OBVIOUS
<1>1. RL!LedgerInit
  BY DEF Init, RL!LedgerInit
<1>2. RowsRefer /\ SidecarsRefer /\ RetriedOpened
  BY DEF Init, RowsRefer, SidecarsRefer, RetriedOpened
<1>3. JobsRefer
  BY DEF Init, JobsRefer, IdleJob
<1>4. RequestsRefer
  BY DEF Init, RequestsRefer, NewRequest
<1>5. Counted
  BY DEF Init, Counted
<1> QED BY <1>1, <1>2, <1>3, <1>4, <1>5 DEF LedgerInv

\* What the ledger itself keeps, whoever takes its steps.
LEMMA LedgerKeeps ==
  ASSUME TypeInv, TypeInv', Counted, RetriedOpened, LedgerStep
  PROVE  Counted' /\ Steady
<1> USE DEF Counted, Steady, Opened
<1>0. /\ RunOK /\ RunOK' /\ retried \in SUBSET Runs
  BY TypeSplit, TypeSplitPrime DEF TypeInv, HistoryOK
<1>1. ASSUME NEW r \in Runs, RL!OpenRun(r) PROVE Counted' /\ Steady
  BY <1>0, <1>1 DEF RL!OpenRun, RL!WritesOnly, RunOK
<1>2. ASSUME NEW r \in Runs, RL!CountOutcomes(r) PROVE Counted' /\ Steady
  <2>1. rstatus'[r] # "absent"
    BY <1>2 DEF RL!CountOutcomes, RL!Verdict
  <2> QED BY <1>0, <1>2, <2>1 DEF RL!CountOutcomes, RL!WritesOnly, RunOK
<1>3. ASSUME NEW r \in Runs, RL!RequestRetry(r) PROVE Counted' /\ Steady
  BY <1>0, <1>3 DEF RL!RequestRetry, RunOK
<1>4. ASSUME NEW r \in Runs, RL!RewriteRetried(r) PROVE Counted' /\ Steady
  BY <1>0, <1>4 DEF RL!RewriteRetried, RL!WritesOnly, RunOK
<1>5. CASE UNCHANGED RL!ledgerVars
  BY <1>5 DEF RL!ledgerVars
<1> QED BY <1>1, <1>2, <1>3, <1>4, <1>5 DEF LedgerStep, RL!LedgerNext
-----------------------------------------------------------------------------
(***************************************************************************)
(* The writes of the program as steps of the ledger                        *)
(***************************************************************************)

LEMMA InsertOpens ==
  ASSUME RunOK, Counted, NEW r \in Runs, NEW total \in Nat \ {0},
         NextRun(r), InsertRun(r, total), UNCHANGED retried
  PROVE  RL!OpenRun(r)
BY DEF RunOK, Counted, NextRun, InsertRun, RL!OpenRun, RL!WritesOnly

\* The counters move up and within the total, or the run was retried.
LEMMA TallyCounts ==
  ASSUME RunOK, Counted, NEW r \in Runs, Opened(r), NEW succ \in Int, NEW fail \in Int,
         r \notin retried => /\ rsucc[r] <= succ /\ succ <= rtotal[r]
                            /\ rfail[r] <= fail,
         Tally(r, succ, fail), UNCHANGED retried
  PROVE  RL!CountOutcomes(r) \/ RL!RewriteRetried(r)
<1>1. RL!WritesOnly(r)
  BY DEF RunOK, Tally, RL!WritesOnly
<1>2. /\ rtotal'[r] = rtotal[r] /\ rsucc'[r] = succ /\ rfail'[r] = fail
      /\ rstatus'[r] = IF succ + fail >= rtotal[r] THEN Verdict(fail) ELSE rstatus[r]
  BY DEF RunOK, Tally
<1>3. rstatus[r] \in {"RUNNING", "DONE", "PARTIAL", "FAILED"}
  BY DEF Opened, RunOK
<1>4. CASE r \in retried
  BY <1>1, <1>2, <1>3, <1>4 DEF RL!RewriteRetried, Verdict
<1>5. CASE r \notin retried
  <2>1. succ \in Nat /\ fail \in Nat
    BY <1>5 DEF Counted, RunOK
  <2>2. rstatus'[r] = rstatus[r] \/ (succ + fail >= rtotal[r] /\ rstatus'[r] = RL!Verdict(fail))
    BY <1>2 DEF Verdict, RL!Verdict
  <2> QED BY <1>1, <1>2, <1>3, <1>5, <2>1, <2>2 DEF RL!CountOutcomes
<1> QED BY <1>4, <1>5

LEMMA UpdateCounts ==
  ASSUME RunOK, Counted, NEW r \in RunId, NEW n \in Nat, r # NoRun => Opened(r),
         UpdateBillingRun(r, n), UNCHANGED retried
  PROVE  LedgerStep
<1>1. CASE r = NoRun
  BY <1>1 DEF UpdateBillingRun, run, LedgerStep, RL!ledgerVars
<1>2. CASE r # NoRun
  <2> DEFINE succ == IF n > 0 THEN SmallerOf(rtotal[r], rsucc[r] + n) ELSE rsucc[r]
  <2>1. r \in Runs /\ rsucc[r] \in Int /\ rfail[r] \in Int /\ rtotal[r] \in Int
    BY <1>2 DEF RunId, RunOK
  <2>2. succ \in Int
    BY <2>1 DEF SmallerOf
  <2>3. r \notin retried => rsucc[r] <= succ /\ succ <= rtotal[r]
    BY <2>1 DEF SmallerOf, Counted
  <2>4. Tally(r, succ, rfail[r])
    BY <1>2 DEF UpdateBillingRun
  <2> HIDE DEF succ
  <2>5. RL!CountOutcomes(r) \/ RL!RewriteRetried(r)
    BY <1>2, <2>1, <2>2, <2>3, <2>4, TallyCounts
  <2> QED BY <2>1, <2>5 DEF LedgerStep, RL!LedgerNext
<1> QED BY <1>1, <1>2

LEMMA FailureCounts ==
  ASSUME RowOK, RunOK, Counted, RowsRefer, NEW u \in Uploads, RecordFailure(u),
         UNCHANGED retried
  PROVE  LedgerStep
<1>1. CASE upRun[u] = NoRun
  BY <1>1 DEF RecordFailure, run, LedgerStep, RL!ledgerVars
<1>2. CASE upRun[u] # NoRun
  <2> DEFINE r == upRun[u]
  <2>1. r \in Runs /\ Opened(r) /\ rsucc[r] \in Int /\ rfail[r] \in Int
    BY <1>2 DEF RowsRefer, Opened, RunOK
  <2>2. r \notin retried => rsucc[r] <= rtotal[r]
    BY <2>1 DEF Counted
  <2>3. Tally(r, rsucc[r], rfail[r] + 1)
    BY <1>2 DEF RecordFailure
  <2> HIDE DEF r
  <2>4. RL!CountOutcomes(r) \/ RL!RewriteRetried(r)
    BY <2>1, <2>2, <2>3, TallyCounts
  <2> QED BY <2>1, <2>4 DEF LedgerStep, RL!LedgerNext
<1> QED BY <1>1, <1>2

\* The steps of a worker.
LEMMA WorkerLedger ==
  ASSUME TypeInv, LedgerInv, NEW w \in Workers, WorkerStep(w) \/ WorkerFault(w)
  PROVE  LedgerStep
<1> USE TypeSplit DEF TypeInv, LedgerInv
<1>0. job[w] \in JobType /\ (job[w].pc # "idle" => job[w].up \in Uploads)
  BY DEF JobOK, Holding
<1>1. CASE Claim(w) \/ ReadMetadata(w) \/ LookupUpload(w) \/ CheckRunFull(w)
           \/ NextChunk(w) \/ CapPdfs(w) \/ CopyPdf(w) \/ LockRun(w)
  BY <1>1 DEF Claim, ReadMetadata, LookupUpload, CheckRunFull, NextChunk, CapPdfs,
              CopyPdf, LockRun, run, history, LedgerStep, RL!ledgerVars
<1>2. CASE UnknownTemplate(w)
  <2>1. UNCHANGED retried /\ job[w].up \in Uploads
    BY <1>0, <1>2 DEF UnknownTemplate, history
  <2>2. RecordFailure(job[w].up) \/ UNCHANGED run
    BY <1>2 DEF UnknownTemplate
  <2> QED BY <2>1, <2>2, FailureCounts DEF run, LedgerStep, RL!ledgerVars
<1>3. CASE CreateBillingRun(w)
  <2> DEFINE rest == Len(Docs[job[w].up]) - job[w].off
             total == LargerOf(1, IF job[w].rem \in {0, Unlimited}
                                  THEN rest ELSE SmallerOf(rest, job[w].rem))
  <2>1. PICK r \in Runs : NextRun(r) /\ InsertRun(r, total)
    BY <1>3 DEF CreateBillingRun
  <2>2. job[w].up \in Uploads /\ UNCHANGED retried
    BY <1>0, <1>3 DEF CreateBillingRun, history
  <2>3. total \in Nat \ {0}
    BY <1>0, <2>2, DocsFinite DEF JobType, LargerOf, SmallerOf
  <2> HIDE DEF total
  <2> QED BY <2>1, <2>2, <2>3, InsertOpens DEF LedgerStep, RL!LedgerNext
<1>4. CASE CountChunk(w)
  <2>1. job[w].tgt \in RunId /\ job[w].gen \in Nat
    BY <1>0 DEF JobType
  <2>2. UpdateBillingRun(job[w].tgt, job[w].gen) /\ UNCHANGED retried
    BY <1>4 DEF CountChunk, history
  <2>3. job[w].tgt # NoRun => Opened(job[w].tgt)
    BY DEF JobsRefer
  <2> QED BY <2>1, <2>2, <2>3, UpdateCounts
<1>5. CASE Finish(w)
  <2>1. job[w].run \in RunId
    BY <1>0 DEF JobType
  <2>2. UpdateBillingRun(job[w].run, 0) /\ UNCHANGED retried
    BY <1>5 DEF Finish, history
  <2>3. job[w].run # NoRun => Opened(job[w].run)
    BY DEF JobsRefer
  <2> QED BY <2>1, <2>2, <2>3, UpdateCounts
<1>6. CASE HandleFailedUpload(w)
  <2>1. UNCHANGED retried /\ job[w].up \in Uploads
    BY <1>0, <1>6 DEF HandleFailedUpload, history
  <2>2. RecordFailure(job[w].up) \/ UNCHANGED run
    BY <1>6 DEF HandleFailedUpload
  <2> QED BY <2>1, <2>2, FailureCounts DEF run, LedgerStep, RL!ledgerVars
<1>7. CASE WorkerFault(w)
  BY <1>7 DEF WorkerFault, CreateBillingRunFails, FinishFails, Raise, WorkerCrash,
              run, history, LedgerStep, RL!ledgerVars
<1> QED BY <1>1, <1>2, <1>3, <1>4, <1>5, <1>6, <1>7 DEF WorkerStep

\* The steps of a request.
LEMMA RequestLedger ==
  ASSUME TypeInv, LedgerInv, NEW q \in Requests,
         NewRequestStep(q) \/ RequestStep(q) \/ RequestFault(q)
  PROVE  LedgerStep
<1> USE TypeSplit DEF TypeInv, LedgerInv
<1> DEFINE r == req[q].run
<1>0. req[q] \in RequestType
  BY DEF ReqOK
<1>1. CASE FilterBatch(q) \/ StageMeta(q) \/ StageData(q) \/ StageFails(q)
           \/ ApiCrash(q) \/ MoveToQueue(q) \/ MoveToQueueFails(q) \/ LoadFailures(q)
           \/ UploadsGone(q) \/ RetryLoadFails(q) \/ RetrySaveFails(q)
  BY <1>1 DEF FilterBatch, StageMeta, StageData, StageFails, ApiCrash, MoveToQueue,
              MoveToQueueFails, LoadFailures, UploadsGone, RetryLoadFails,
              RetrySaveFails, run, history, LedgerStep, RL!ledgerVars
<1>2. CASE CommitBatch(q)
  <2>1. PICK s \in Runs : NextRun(s) /\ InsertRun(s, req[q].total)
    BY <1>2 DEF CommitBatch
  <2>2. req[q].total \in Nat \ {0} /\ UNCHANGED retried
    BY <1>0, <1>2 DEF CommitBatch, At, RequestsRefer, RequestType
  <2> QED BY <2>1, <2>2, InsertOpens DEF LedgerStep, RL!LedgerNext
<1>3. CASE GenerateSingle(q)
  <2>1. PICK s \in Runs : NextRun(s) /\ InsertRun(s, 1)
    BY <1>3 DEF GenerateSingle
  <2>2. UNCHANGED retried
    BY <1>3 DEF GenerateSingle
  <2> QED BY <2>1, <2>2, InsertOpens DEF LedgerStep, RL!LedgerNext
<1>4. CASE FinishBatch(q)
  <2>1. /\ r \in Runs /\ Opened(r) /\ rtotal[r] = req[q].total
    BY <1>4 DEF FinishBatch, At, RequestsRefer, Opened
  <2>2. Cardinality(req[q].bad) \in Nat
    BY <1>0, FS_Subset, FS_CardinalityType, QueueAssumption DEF RequestType
  <2> DEFINE k == Cardinality(req[q].bad)
  <2>3. /\ UNCHANGED <<rstatus, rsucc, retried>> /\ rtotal' = rtotal
        /\ rfail' = [rfail EXCEPT ![r] = @ + k]
    BY <1>4, <2>1 DEF FinishBatch, history, RunOK
  <2> HIDE DEF k
  <2>4. RL!WritesOnly(r)
    BY <2>1, <2>3 DEF RL!WritesOnly, RunOK
  <2>5. /\ rtotal'[r] = rtotal[r] /\ rstatus'[r] = rstatus[r]
        /\ rsucc'[r] = rsucc[r] /\ rfail'[r] = rfail[r] + k
        /\ rsucc[r] \in Int /\ rfail[r] \in Int /\ k \in Nat
        /\ rstatus[r] \in {"RUNNING", "DONE", "PARTIAL", "FAILED"}
    BY <2>1, <2>2, <2>3 DEF RunOK, Opened, k
  <2>6. CASE r \in retried
    <3>1. RL!RewriteRetried(r)
      BY <2>3, <2>4, <2>5, <2>6 DEF RL!RewriteRetried
    <3> QED BY <2>1, <3>1 DEF LedgerStep, RL!LedgerNext
  <2>7. CASE r \notin retried
    <3>1. rsucc[r] \in Nat /\ rsucc[r] <= rtotal[r] /\ rfail[r] \in Nat
      BY <2>1, <2>5, <2>7 DEF Counted
    <3>2. RL!CountOutcomes(r)
      BY <2>3, <2>4, <2>5, <2>7, <3>1 DEF RL!CountOutcomes
    <3> QED BY <2>1, <3>2 DEF LedgerStep, RL!LedgerNext
  <2> QED BY <2>6, <2>7
<1>5. CASE RetryFailedRun(q)
  <2>1. PICK s \in Runs : rfail[s] # 0 /\ retried' = retried \cup {s}
    BY <1>5 DEF RetryFailedRun
  <2>2. RL!RequestRetry(s)
    BY <1>5, <2>1 DEF RetryFailedRun, run, RL!RequestRetry
  <2> QED BY <2>2 DEF LedgerStep, RL!LedgerNext
<1>6. CASE SaveRetry(q)
  <2> DEFINE n == Cardinality(UNION {Successes(q, u) : u \in req[q].todo})
  <2>1. r \in Runs /\ r \in retried /\ rstatus[r] # "absent"
    BY <1>6 DEF SaveRetry, At, RequestsRefer, Running, RetriedOpened, Opened
  <2>2. n \in Nat
    <3>1. UNION {Successes(q, u) : u \in req[q].todo} \in SUBSET DocIds
      BY <1>0, SuccessesType DEF RequestType
    <3> QED BY <3>1, DocIdsCount
  <2>3. /\ rsucc' = [rsucc EXCEPT ![r] = Changed(req[q].seenS, req[q].seenS + n, @)]
        /\ rfail' = [rfail EXCEPT ![r] = Changed(req[q].seenF, req[q].seenF - n, @)]
        /\ WriteVerdict(q, Verdict(req[q].seenF - n))
        /\ UNCHANGED <<rtotal, retried>>
    BY <1>6 DEF SaveRetry
  <2>4. req[q].seenS + n \in Int /\ req[q].seenF - n \in Int
    BY <1>0, <2>2 DEF RequestType
  <2>5. Verdict(req[q].seenF - n) \in {"DONE", "PARTIAL", "FAILED"}
    BY DEF Verdict
  <2> HIDE DEF n
  <2>6. /\ rstatus' = [rstatus EXCEPT ![r] = rstatus'[r]]
        /\ rstatus'[r] \in {"RUNNING", "DONE", "PARTIAL", "FAILED"}
    <3>1. rstatus[r] \in {"RUNNING", "DONE", "PARTIAL", "FAILED"}
      BY <2>1 DEF RunOK
    <3> QED BY <2>1, <2>3, <2>5, <3>1, VerdictType
  <2>7. rsucc'[r] \in Int /\ rfail'[r] \in Int
    BY <2>1, <2>3, <2>4 DEF RunOK, Changed
  <2>8. RL!WritesOnly(r)
    BY <2>1, <2>3, <2>6 DEF RL!WritesOnly, RunOK
  <2>9. RL!RewriteRetried(r)
    BY <2>1, <2>3, <2>6, <2>7, <2>8 DEF RL!RewriteRetried
  <2> QED BY <2>1, <2>9 DEF LedgerStep, RL!LedgerNext
<1>7. CASE RetryFails(q) \/ CommitRetry(q)
  <2>1. r \in Runs /\ r \in retried /\ rstatus[r] # "absent"
    BY <1>7 DEF RetryFails, CommitRetry, At, RequestsRefer, Running, RetriedOpened,
                Opened
  <2>2. UNCHANGED <<rtotal, rsucc, rfail, retried>>
    BY <1>7 DEF RetryFails, CommitRetry, history
  <2>3. /\ rstatus' = [rstatus EXCEPT ![r] = rstatus'[r]]
        /\ rstatus'[r] \in {"RUNNING", "DONE", "PARTIAL", "FAILED"}
    <3>1. rstatus[r] \in {"RUNNING", "DONE", "PARTIAL", "FAILED"}
      BY <2>1 DEF RunOK
    <3>2. CASE RetryFails(q)
      <4>1. WriteVerdict(q, "FAILED")
        BY <3>2 DEF RetryFails
      <4> QED BY <2>1, <3>1, <4>1, VerdictType
    <3>3. CASE CommitRetry(q)
      BY <2>1, <3>1, <3>3 DEF CommitRetry, RunOK
    <3> QED BY <1>7, <3>2, <3>3
  <2>4. RL!RewriteRetried(r)
    BY <2>1, <2>2, <2>3 DEF RL!RewriteRetried, RL!WritesOnly, RunOK
  <2> QED BY <2>1, <2>4 DEF LedgerStep, RL!LedgerNext
<1> QED BY <1>1, <1>2, <1>3, <1>4, <1>5, <1>6, <1>7
        DEF NewRequestStep, RequestStep, RequestFault

LEMMA NextLedger == TypeInv /\ LedgerInv /\ [Next]_vars => LedgerStep
<1> SUFFICES ASSUME TypeInv, LedgerInv, [Next]_vars PROVE LedgerStep
  OBVIOUS
<1>1. ASSUME NEW u \in Uploads, Approve(u) \/ Reject(u) PROVE LedgerStep
  BY <1>1 DEF Approve, Reject, run, history, LedgerStep, RL!ledgerVars
<1>2. CASE UNCHANGED vars
  BY <1>2 DEF vars, run, history, LedgerStep, RL!ledgerVars
<1> QED BY <1>1, <1>2, WorkerLedger, RequestLedger DEF Next
-----------------------------------------------------------------------------
(***************************************************************************)
(* Whoever refers to a run refers to one that was opened                   *)
(***************************************************************************)

LEMMA RowsKept ==
  ASSUME RowsRefer, Steady,
         \A u \in Uploads :
           \/ upRun'[u] \in {upRun[u], NoRun}
           \/ upRun'[u] \in Runs /\ rstatus'[upRun'[u]] # "absent"
  PROVE  RowsRefer'
BY DEF RowsRefer, Steady, Opened

LEMMA JobsKept ==
  ASSUME JobOK, JobsRefer, Steady, NEW w \in Workers, NEW j,
         job' = [job EXCEPT ![w] = j],
         j.run # NoRun => j.run \in Runs /\ rstatus'[j.run] # "absent",
         j.tgt # NoRun => j.tgt \in Runs /\ rstatus'[j.tgt] # "absent"
  PROVE  JobsRefer'
BY DEF JobOK, JobsRefer, Steady, Opened

LEMMA RequestsKept ==
  ASSUME ReqOK, RequestsRefer, Steady, retried \subseteq retried',
         NEW q \in Requests, NEW j,
         req' = [req EXCEPT ![q] = j],
         j.pc \in {"commit", "meta", "data", "finish"} => j.total # 0,
         j.pc \in {"meta", "data", "finish"} =>
           j.run \in Runs /\ rstatus'[j.run] # "absent" /\ rtotal'[j.run] = j.total,
         j.pc \in {"retrycommit", "retryload", "retrysave"} => j.run \in retried'
  PROVE  RequestsRefer'
<1> SUFFICES ASSUME NEW p \in Requests
             PROVE  /\ req'[p].pc \in {"commit", "meta", "data", "finish"} =>
                         req'[p].total # 0
                    /\ req'[p].pc \in {"meta", "data", "finish"} =>
                         /\ req'[p].run \in Runs /\ rstatus'[req'[p].run] # "absent"
                         /\ rtotal'[req'[p].run] = req'[p].total
                    /\ req'[p].pc \in {"retrycommit", "retryload", "retrysave"} =>
                         req'[p].run \in retried'
  BY DEF RequestsRefer, Opened
<1>1. CASE p = q
  <2>1. req'[p] = j
    BY <1>1 DEF ReqOK
  <2> QED BY <2>1
<1>2. CASE p # q
  <2>1. req'[p] = req[p]
    BY <1>2 DEF ReqOK
  <2> QED BY <2>1 DEF RequestsRefer, Steady, Opened
<1> QED BY <1>1, <1>2

\* A request that closes refers to nothing.
LEMMA ClosedRefers ==
  ASSUME ReqOK, RequestsRefer, Steady, retried \subseteq retried',
         NEW q \in Requests, Close(q)
  PROVE  RequestsRefer'
<1>1. DoneRequest.pc = "done"
  <2>1. [NewRequest EXCEPT !.pc = "done"].pc = "done"
    BY NewRequestType DEF RequestType
  <2> QED BY <2>1 DEF DoneRequest
<1> QED BY <1>1, RequestsKept DEF Close

LEMMA BrokenRefers ==
  ASSUME ReqOK, RequestsRefer, Steady, retried \subseteq retried',
         NEW q \in Requests, BreakOff(q)
  PROVE  RequestsRefer'
BY BreakOffRecord, RequestsKept

LEMMA RetriedKept ==
  ASSUME RetriedOpened, Steady, retried' = retried
  PROVE  RetriedOpened'
BY DEF RetriedOpened, Steady, Opened

\* A worker takes its run from the row or the sidecar, or opens it.
LEMMA WorkerRefers ==
  ASSUME TypeInv, LedgerInv, Steady, NEW w \in Workers,
         WorkerStep(w) \/ WorkerFault(w)
  PROVE  RowsRefer' /\ JobsRefer' /\ SidecarsRefer' /\ RequestsRefer' /\ RetriedOpened'
<1> USE TypeSplit DEF TypeInv, LedgerInv
<1>0. /\ job[w] \in JobType /\ (job[w].pc # "idle" => job[w].up \in Uploads)
      /\ IdleJob.run = NoRun /\ IdleJob.tgt = NoRun
  BY DEF JobOK, Holding, IdleJob
<1>1. RetriedOpened' /\ RequestsRefer'
  <2>1. retried' = retried /\ req' = req
    BY DEF WorkerStep, WorkerFault, Claim, ReadMetadata, LookupUpload, UnknownTemplate,
           CreateBillingRun, CheckRunFull, NextChunk, CapPdfs, CopyPdf, LockRun,
           CountChunk, Finish, HandleFailedUpload, CreateBillingRunFails, FinishFails,
           Raise, WorkerCrash, history
  <2>2. RetriedOpened'
    BY <2>1, RetriedKept
  <2>3. RequestsRefer'
    BY <2>1 DEF RequestsRefer, Steady, Opened
  <2> QED BY <2>2, <2>3
<1>2. SidecarsRefer'
  <2>1. \A u \in Uploads : meta'[u] \subseteq meta[u]
    BY <1>0 DEF FilesOK, WorkerStep, WorkerFault, Claim, ReadMetadata, LookupUpload,
           UnknownTemplate, CreateBillingRun, CheckRunFull, NextChunk, CapPdfs, CopyPdf,
           LockRun, CountChunk, Finish, HandleFailedUpload, CreateBillingRunFails,
           FinishFails, Raise, WorkerCrash, files
  <2> QED BY <2>1 DEF SidecarsRefer, Steady, Opened
<1>3. CASE CreateBillingRun(w)
  <2>1. PICK r \in Runs :
          /\ rstatus' = [rstatus EXCEPT ![r] = "RUNNING"]
          /\ upRun' = [upRun EXCEPT ![job[w].up] = r]
          /\ job' = [job EXCEPT ![w] = [@ EXCEPT !.pc = "gate", !.run = r]]
    BY <1>3 DEF CreateBillingRun, InsertRun
  <2>2. rstatus'[r] # "absent"
    BY <2>1 DEF RunOK
  <2>3. RowsRefer'
    BY <2>1, <2>2, RowsKept DEF RowOK
  <2>4. JobsRefer'
    <3> DEFINE j == [job[w] EXCEPT !.pc = "gate", !.run = r]
    <3>1. j.run = r /\ j.tgt = job[w].tgt /\ job' = [job EXCEPT ![w] = j]
      BY <1>0, <2>1 DEF JobType
    <3>2. job[w].tgt # NoRun => job[w].tgt \in Runs /\ rstatus'[job[w].tgt] # "absent"
      BY DEF JobsRefer, Steady, Opened
    <3> HIDE DEF j
    <3> QED BY <2>2, <3>1, <3>2, JobsKept
  <2> QED BY <1>1, <1>2, <2>3, <2>4
<1>4. CASE ~CreateBillingRun(w)
  <2>1. \A u \in Uploads : upRun'[u] \in {upRun[u], NoRun}
    BY <1>4 DEF RowOK, WorkerStep, WorkerFault, Claim, ReadMetadata, LookupUpload,
           UnknownTemplate, CheckRunFull, NextChunk, CapPdfs, CopyPdf, LockRun,
           CountChunk, Finish, HandleFailedUpload, CreateBillingRunFails, FinishFails,
           Raise, WorkerCrash, row
  <2>2. RowsRefer'
    BY <2>1, RowsKept
  <2>3. /\ job[w].run # NoRun => job[w].run \in Runs /\ rstatus'[job[w].run] # "absent"
        /\ job[w].tgt # NoRun => job[w].tgt \in Runs /\ rstatus'[job[w].tgt] # "absent"
        /\ \A u \in Uploads : upRun[u] # NoRun =>
              upRun[u] \in Runs /\ rstatus'[upRun[u]] # "absent"
    BY DEF JobsRefer, RowsRefer, Steady, Opened
  <2>4. ASSUME Release(w) PROVE JobsRefer'
    BY <1>0, <2>4, JobsKept DEF Release
  <2>5. ASSUME NEW j, j.run = job[w].run, j.tgt = job[w].tgt, job' = [job EXCEPT ![w] = j]
        PROVE  JobsRefer'
    BY <2>3, <2>5, JobsKept
  <2>6. ASSUME NEW pc, Goto(w, pc) PROVE JobsRefer'
    <3> DEFINE j == [job[w] EXCEPT !.pc = pc]
    <3>1. j.run = job[w].run /\ j.tgt = job[w].tgt /\ job' = [job EXCEPT ![w] = j]
      BY <1>0, <2>6 DEF JobType, Goto
    <3> HIDE DEF j
    <3> QED BY <2>5, <3>1
  <2>7. ASSUME Claim(w) PROVE JobsRefer'
    <3>1. PICK u \in Uploads :
            job' = [job EXCEPT ![w] = [IdleJob EXCEPT !.pc = "meta", !.up = u]]
      BY <2>7 DEF Claim
    <3> DEFINE j == [IdleJob EXCEPT !.pc = "meta", !.up = u]
    <3>2. j.run = NoRun /\ j.tgt = NoRun /\ job' = [job EXCEPT ![w] = j]
      BY <3>1 DEF IdleJob
    <3> HIDE DEF j
    <3> QED BY <3>2, JobsKept
  <2>8. ASSUME ReadMetadata(w) PROVE JobsRefer'
    <3>1. ASSUME NEW m \in meta[job[w].up],
                 job' = [job EXCEPT ![w] = [@ EXCEPT !.pc = "lookup", !.run = m.run,
                           !.off = m.off, !.rem = m.lim, !.appr = m.appr]]
          PROVE  JobsRefer'
      <4> DEFINE j == [job[w] EXCEPT !.pc = "lookup", !.run = m.run,
                         !.off = m.off, !.rem = m.lim, !.appr = m.appr]
      <4>1. j.run = m.run /\ j.tgt = job[w].tgt /\ job' = [job EXCEPT ![w] = j]
        BY <1>0, <3>1 DEF JobType
      <4>2. m.run # NoRun => m.run \in Runs /\ rstatus'[m.run] # "absent"
        BY <1>0, <2>8 DEF ReadMetadata, SidecarsRefer, Steady, Opened
      <4> HIDE DEF j
      <4> QED BY <2>3, <4>1, <4>2, JobsKept
    <3>2. ASSUME NEW approved,
                 job' = [job EXCEPT ![w] = [@ EXCEPT !.pc = "lookup",
                           !.rem = Unlimited, !.appr = approved]]
          PROVE  JobsRefer'
      <4> DEFINE j == [job[w] EXCEPT !.pc = "lookup", !.rem = Unlimited,
                         !.appr = approved]
      <4>1. j.run = job[w].run /\ j.tgt = job[w].tgt /\ job' = [job EXCEPT ![w] = j]
        BY <1>0, <3>2 DEF JobType
      <4> HIDE DEF j
      <4> QED BY <2>5, <4>1
    <3> QED BY <2>8, <3>1, <3>2 DEF ReadMetadata
  <2>9. ASSUME LookupUpload(w) PROVE JobsRefer'
    <3> DEFINE u == job[w].up
               r == IF upRun[u] # NoRun THEN upRun[u] ELSE job[w].run
               next == IF u \in Undetected THEN "unknown"
                       ELSE IF r = NoRun THEN "open" ELSE "gate"
               left == IF job[w].rem = Unlimited /\ r # NoRun THEN Room(r)
                       ELSE job[w].rem
               j == [job[w] EXCEPT !.pc = next, !.known = TRUE, !.run = r, !.rem = left]
    <3>1. job' = [job EXCEPT ![w] = j]
      BY <2>9 DEF LookupUpload
    <3>2. r # NoRun => r \in Runs /\ rstatus'[r] # "absent"
      BY <1>0, <2>3, <2>9 DEF LookupUpload
    <3> HIDE DEF r, next, left
    <3>3. j.run = r /\ j.tgt = job[w].tgt
      BY <1>0 DEF JobType
    <3> HIDE DEF j
    <3> QED BY <2>3, <3>1, <3>2, <3>3, JobsKept
  <2>10. ASSUME LockRun(w) PROVE JobsRefer'
    <3> DEFINE u == job[w].up
               r == IF job[w].run # NoRun THEN job[w].run ELSE upRun[u]
               j == [job[w] EXCEPT !.pc = "write", !.tgt = r, !.seenP = processed[u],
                       !.seenB = procBy[u], !.seenS = status[u]]
    <3>1. job' = [job EXCEPT ![w] = j]
      BY <2>10 DEF LockRun
    <3>2. r # NoRun => r \in Runs /\ rstatus'[r] # "absent"
      BY <1>0, <2>3, <2>10 DEF LockRun
    <3> HIDE DEF r
    <3>3. j.run = job[w].run /\ j.tgt = r
      BY <1>0 DEF JobType
    <3> HIDE DEF j
    <3> QED BY <2>3, <3>1, <3>2, <3>3, JobsKept
  <2>11. ASSUME CountChunk(w) PROVE JobsRefer'
    <3>1. Advance(job[w]).run = job[w].run /\ Advance(job[w]).tgt = NoRun
      BY <1>0 DEF JobType, Advance
    <3>2. job' = [job EXCEPT ![w] = Advance(job[w])]
      BY <2>11 DEF CountChunk
    <3> QED BY <2>3, <3>1, <3>2, JobsKept
  <2>12. ASSUME NextChunk(w) \/ CapPdfs(w) \/ CopyPdf(w) PROVE JobsRefer'
    <3>1. ASSUME NEW pc, NEW rem, NEW rend,
                 job' = [job EXCEPT ![w] = [@ EXCEPT !.pc = pc, !.rem = rem,
                           !.rend = rend]]
          PROVE  JobsRefer'
      <4> DEFINE j == [job[w] EXCEPT !.pc = pc, !.rem = rem, !.rend = rend]
      <4>1. j.run = job[w].run /\ j.tgt = job[w].tgt /\ job' = [job EXCEPT ![w] = j]
        BY <1>0, <3>1 DEF JobType
      <4> HIDE DEF j
      <4> QED BY <2>5, <4>1
    <3>2. ASSUME NEW pc, NEW pdfs, NEW gen,
                 job' = [job EXCEPT ![w] = [@ EXCEPT !.pc = pc, !.pdfs = pdfs,
                           !.gen = gen]]
          PROVE  JobsRefer'
      <4> DEFINE j == [job[w] EXCEPT !.pc = pc, !.pdfs = pdfs, !.gen = gen]
      <4>1. j.run = job[w].run /\ j.tgt = job[w].tgt /\ job' = [job EXCEPT ![w] = j]
        BY <1>0, <3>2 DEF JobType
      <4> HIDE DEF j
      <4> QED BY <2>5, <4>1
    <3>3. ASSUME NEW pc, NEW pdfs,
                 job' = [job EXCEPT ![w] = [@ EXCEPT !.pdfs = pdfs, !.pc = pc]]
          PROVE  JobsRefer'
      <4> DEFINE j == [job[w] EXCEPT !.pdfs = pdfs, !.pc = pc]
      <4>1. j.run = job[w].run /\ j.tgt = job[w].tgt /\ job' = [job EXCEPT ![w] = j]
        BY <1>0, <3>3 DEF JobType
      <4> HIDE DEF j
      <4> QED BY <2>5, <4>1
    <3>4. CASE NextChunk(w)
      BY <2>6, <3>1, <3>4 DEF NextChunk
    <3>5. CASE CapPdfs(w)
      BY <2>6, <3>2, <3>5 DEF CapPdfs
    <3>6. CASE CopyPdf(w)
      BY <3>3, <3>6 DEF CopyPdf
    <3> QED BY <2>12, <3>4, <3>5, <3>6
  <2>13. ASSUME UnknownTemplate(w) \/ Finish(w) \/ HandleFailedUpload(w)
                 \/ FinishFails(w) \/ WorkerCrash(w)
         PROVE  JobsRefer'
    BY <2>4, <2>13 DEF UnknownTemplate, Finish, HandleFailedUpload, FinishFails,
                       WorkerCrash
  <2>14. ASSUME CheckRunFull(w) \/ CreateBillingRunFails(w) \/ Raise(w)
         PROVE  JobsRefer'
    BY <2>4, <2>6, <2>14 DEF CheckRunFull, CreateBillingRunFails, Raise
  <2>15. JobsRefer'
    BY <1>4, <2>7, <2>8, <2>9, <2>10, <2>11, <2>12, <2>13, <2>14
    DEF WorkerStep, WorkerFault
  <2> QED BY <1>1, <1>2, <2>2, <2>15
<1> QED BY <1>3, <1>4

LEMMA SidecarsKept ==
  ASSUME SidecarsRefer, Steady, UNCHANGED meta
  PROVE  SidecarsRefer'
BY DEF SidecarsRefer, Steady, Opened

\* The rows of one file staged, its sidecar names the run of the request.
LEMMA StagedRefers ==
  ASSUME ReqOK, RequestsRefer, Steady, retried' = retried,
         NEW q \in Requests, NEW u, NEW bad, At(q, "meta") \/ At(q, "data"),
         Staged(q, u, bad)
  PROVE  RequestsRefer'
<1> DEFINE rest == req[q].todo \ {u}
           more == req[q].bad \cup bad
           next == IF rest = {} THEN "finish" ELSE "meta"
           j == [req[q] EXCEPT !.todo = rest, !.bad = more, !.pc = next]
<1>1. req' = [req EXCEPT ![q] = j]
  BY DEF Staged
<1>2. next \in {"meta", "finish"}
  OBVIOUS
<1> HIDE DEF rest, more, next
<1>3. req[q] \in RequestType /\ j.pc = next /\ j.run = req[q].run /\ j.total = req[q].total
  BY DEF ReqOK, RequestType
<1>4. /\ req[q].total # 0 /\ req[q].run \in Runs /\ rstatus'[req[q].run] # "absent"
      /\ rtotal'[req[q].run] = req[q].total
  BY DEF At, RequestsRefer, Steady, Opened
<1> HIDE DEF j
<1> QED BY <1>1, <1>2, <1>3, <1>4, RequestsKept

\* A request opens its run, or takes one that has failures.
LEMMA RequestRefers ==
  ASSUME TypeInv, LedgerInv, Steady, NEW q \in Requests,
         NewRequestStep(q) \/ RequestStep(q) \/ RequestFault(q)
  PROVE  RowsRefer' /\ JobsRefer' /\ SidecarsRefer' /\ RequestsRefer' /\ RetriedOpened'
<1> USE TypeSplit DEF TypeInv, LedgerInv
<1>0. req[q] \in RequestType
  BY DEF ReqOK
<1>1. JobsRefer'
  <2>1. job' = job
    BY DEF NewRequestStep, RequestStep, RequestFault, FilterBatch, CommitBatch,
           StageMeta, StageData, StageFails, FinishBatch, ApiCrash, GenerateSingle,
           MoveToQueue, MoveToQueueFails, RetryFailedRun, CommitRetry, LoadFailures,
           UploadsGone, RetryLoadFails, SaveRetry, RetryFails, RetrySaveFails
  <2> QED BY <2>1 DEF JobsRefer, Steady, Opened
<1>2. CASE FilterBatch(q)
  <2>1. UNCHANGED <<upRun, meta, retried>>
    BY <1>2 DEF FilterBatch, row, files, history
  <2>2. PICK ids \in SUBSET Uploads, limit \in Limits, approved \in ApprovedChoices :
          req' = [req EXCEPT ![q] = BatchRequest(ids, limit, approved)]
    BY <1>2 DEF FilterBatch
  <2>3. /\ BatchRequest(ids, limit, approved).pc = "commit"
        /\ BatchRequest(ids, limit, approved).total # 0
    BY BatchRequestType
  <2>4. RequestsRefer'
    BY <2>1, <2>2, <2>3, RequestsKept
  <2> QED BY <1>1, <2>1, <2>4, RowsKept, SidecarsKept, RetriedKept
<1>3. CASE CommitBatch(q)
  <2>1. PICK r \in Runs :
          /\ rstatus' = [rstatus EXCEPT ![r] = "RUNNING"]
          /\ rtotal' = [rtotal EXCEPT ![r] = req[q].total]
          /\ upRun' = [u \in Uploads |->
                         IF u \in req[q].todo THEN r
                         ELSE IF u \in req[q].clear THEN NoRun
                         ELSE upRun[u]]
          /\ req' = [req EXCEPT ![q] = [@ EXCEPT !.pc = "meta", !.run = r]]
    BY <1>3 DEF CommitBatch, InsertRun
  <2>2. rstatus'[r] # "absent" /\ rtotal'[r] = req[q].total
    BY <2>1 DEF RunOK
  <2>3. req[q].total # 0 /\ UNCHANGED <<meta, retried>>
    BY <1>3 DEF CommitBatch, At, RequestsRefer, files
  <2>4. RowsRefer'
    BY <2>1, <2>2, RowsKept
  <2>5. RequestsRefer'
    <3> DEFINE j == [req[q] EXCEPT !.pc = "meta", !.run = r]
    <3>1. j.pc = "meta" /\ j.run = r /\ j.total = req[q].total
      BY <1>0 DEF RequestType
    <3>2. req' = [req EXCEPT ![q] = j]
      BY <2>1
    <3> HIDE DEF j
    <3> QED BY <2>2, <2>3, <3>1, <3>2, RequestsKept
  <2> QED BY <1>1, <2>3, <2>4, <2>5, SidecarsKept, RetriedKept
<1>4. CASE StageMeta(q)
  <2>1. UNCHANGED <<upRun, retried>>
    BY <1>4 DEF StageMeta, row, history
  <2>2. PICK u \in Uploads : meta' = [meta EXCEPT ![u] = {Sidecar(q, u)}]
    BY <1>4 DEF StageMeta
  <2>3. /\ req[q].run \in Runs /\ rstatus'[req[q].run] # "absent"
        /\ rtotal'[req[q].run] = req[q].total /\ req[q].total # 0
    BY <1>4 DEF StageMeta, At, RequestsRefer, Steady, Opened
  <2>4. SidecarsRefer'
    <3>1. Sidecar(q, u).run = req[q].run
      BY DEF Sidecar
    <3> HIDE DEF Sidecar
    <3>2. \A v \in Uploads : meta'[v] = meta[v] \/ meta'[v] = {Sidecar(q, u)}
      BY <2>2 DEF FilesOK
    <3> QED BY <2>3, <3>1, <3>2 DEF SidecarsRefer, Steady, Opened
  <2>5. RequestsRefer'
    <3> DEFINE j == [req[q] EXCEPT !.pc = "data"]
    <3>1. /\ j.pc = "data" /\ j.run = req[q].run /\ j.total = req[q].total
          /\ req' = [req EXCEPT ![q] = j]
      BY <1>0, <1>4 DEF StageMeta, RequestType
    <3> HIDE DEF j
    <3> QED BY <2>1, <2>3, <3>1, RequestsKept
  <2> QED BY <1>1, <2>1, <2>4, <2>5, RowsKept, RetriedKept
<1>5. CASE StageData(q) \/ StageFails(q)
  <2>1. UNCHANGED <<upRun, meta, retried>>
    BY <1>5 DEF StageData, StageFails, row, files, history
  <2>2. At(q, "meta") \/ At(q, "data")
    BY <1>5 DEF StageData, StageFails
  <2>3. PICK u \in Uploads, bad \in SUBSET Uploads : Staged(q, u, bad)
    <3>1. CASE StageData(q)
      <4>1. PICK u \in Uploads :
              Staged(q, u, IF req[q].src[u] = "incoming" \/ req[q].src[u] \in disk[u]
                           THEN {} ELSE {u})
        BY <3>1 DEF StageData
      <4> QED BY <4>1
    <3>2. CASE StageFails(q)
      BY <3>2 DEF StageFails
    <3> QED BY <1>5, <3>1, <3>2
  <2>4. RequestsRefer'
    BY <2>1, <2>2, <2>3, StagedRefers
  <2> QED BY <1>1, <2>1, <2>4, RowsKept, SidecarsKept, RetriedKept
<1>6. CASE \/ FinishBatch(q) \/ ApiCrash(q) \/ MoveToQueue(q) \/ MoveToQueueFails(q)
           \/ SaveRetry(q) \/ RetryFails(q) \/ RetrySaveFails(q)
  <2>1. /\ UNCHANGED <<meta, retried>> /\ (Close(q) \/ BreakOff(q))
        /\ \A u \in Uploads : upRun'[u] \in {upRun[u], NoRun}
    BY <1>6 DEF FinishBatch, ApiCrash, MoveToQueue, MoveToQueueFails, SaveRetry,
                RetryFails, RetrySaveFails, row, files, history, RowOK
  <2>2. RequestsRefer'
    <3>1. CASE Close(q)
      BY <2>1, <3>1, ClosedRefers
    <3>2. CASE BreakOff(q)
      BY <2>1, <3>2, BrokenRefers
    <3> QED BY <2>1, <3>1, <3>2
  <2> QED BY <1>1, <2>1, <2>2, RowsKept, SidecarsKept, RetriedKept
<1>7. CASE GenerateSingle(q)
  <2>1. PICK u \in Uploads, r \in Runs :
          /\ rstatus' = [rstatus EXCEPT ![r] = "RUNNING"]
          /\ upRun' = [upRun EXCEPT ![u] = r]
          /\ req' = [req EXCEPT ![q] = [@ EXCEPT !.pc = "move", !.todo = {u},
                       !.src = path]]
    BY <1>7 DEF GenerateSingle, InsertRun
  <2>2. rstatus'[r] # "absent" /\ UNCHANGED <<meta, retried>>
    BY <1>7, <2>1 DEF RunOK, GenerateSingle, files
  <2>3. RowsRefer'
    BY <2>1, <2>2, RowsKept DEF RowOK
  <2>4. RequestsRefer'
    <3> DEFINE j == [req[q] EXCEPT !.pc = "move", !.todo = {u}, !.src = path]
    <3>1. j.pc = "move" /\ req' = [req EXCEPT ![q] = j]
      BY <1>0, <2>1 DEF RequestType
    <3> HIDE DEF j
    <3> QED BY <2>2, <3>1, RequestsKept
  <2> QED BY <1>1, <2>2, <2>3, <2>4, SidecarsKept, RetriedKept
<1>8. CASE RetryFailedRun(q)
  <2>1. PICK r \in Runs :
          /\ rfail[r] # 0
          /\ retried' = retried \cup {r}
          /\ req' = [req EXCEPT ![q] = [@ EXCEPT !.pc = "retrycommit", !.run = r,
                       !.seenR = rstatus[r]]]
    BY <1>8 DEF RetryFailedRun
  <2>2. rstatus'[r] # "absent" /\ UNCHANGED <<upRun, meta>>
    BY <1>8, <2>1 DEF Counted, RetryFailedRun, row, run, files
  <2>3. RetriedOpened'
    BY <2>1, <2>2 DEF RetriedOpened, Steady, Opened
  <2>4. RequestsRefer'
    <3> DEFINE j == [req[q] EXCEPT !.pc = "retrycommit", !.run = r, !.seenR = rstatus[r]]
    <3>1. j.pc = "retrycommit" /\ j.run = r /\ req' = [req EXCEPT ![q] = j]
      BY <1>0, <2>1 DEF RequestType
    <3> HIDE DEF j
    <3> QED BY <2>1, <3>1, RequestsKept
  <2> QED BY <1>1, <2>2, <2>3, <2>4, RowsKept, SidecarsKept
<1>9. CASE CommitRetry(q)
  <2>1. UNCHANGED <<upRun, meta, retried>> /\ req[q].run \in retried
    BY <1>9 DEF CommitRetry, row, files, history, At, RequestsRefer
  <2>2. RequestsRefer'
    <3> DEFINE j == [req[q] EXCEPT !.pc = "retryload"]
    <3>1. j.pc = "retryload" /\ j.run = req[q].run /\ req' = [req EXCEPT ![q] = j]
      BY <1>0, <1>9 DEF CommitRetry, RequestType
    <3> HIDE DEF j
    <3> QED BY <2>1, <3>1, RequestsKept
  <2> QED BY <1>1, <2>1, <2>2, RowsKept, SidecarsKept, RetriedKept
<1>10. CASE LoadFailures(q) \/ UploadsGone(q) \/ RetryLoadFails(q)
  <2>1. UNCHANGED <<upRun, meta, retried>> /\ req[q].run \in retried
    BY <1>10 DEF LoadFailures, UploadsGone, RetryLoadFails, row, files, history, At,
                 RequestsRefer
  <2>2. PICK j \in RequestType : /\ req' = [req EXCEPT ![q] = j]
                                 /\ j.run = req[q].run
                                 /\ j.pc \in {"dead", "retrysave"}
    BY <1>10, LoadRecord
  <2>3. RequestsRefer'
    BY <2>1, <2>2, RequestsKept
  <2> QED BY <1>1, <2>1, <2>3, RowsKept, SidecarsKept, RetriedKept
<1> QED BY <1>2, <1>3, <1>4, <1>5, <1>6, <1>7, <1>8, <1>9, <1>10
        DEF NewRequestStep, RequestStep, RequestFault

LEMMA NextRefers ==
  ASSUME TypeInv, LedgerInv, Steady, [Next]_vars
  PROVE  RowsRefer' /\ JobsRefer' /\ SidecarsRefer' /\ RequestsRefer' /\ RetriedOpened'
<1>1. ASSUME NEW u \in Uploads, Approve(u) \/ Reject(u)
      PROVE  RowsRefer' /\ JobsRefer' /\ SidecarsRefer' /\ RequestsRefer'
             /\ RetriedOpened'
  <2>1. UNCHANGED <<upRun, job, meta, req, retried>>
    BY <1>1 DEF Approve, Reject, files, history
  <2> QED BY <2>1 DEF LedgerInv, RowsRefer, JobsRefer, SidecarsRefer, RequestsRefer,
                      RetriedOpened, Steady, Opened
<1>2. CASE UNCHANGED vars
  <2>1. UNCHANGED <<upRun, job, meta, req, retried>>
    BY <1>2 DEF vars, row, files, history
  <2> QED BY <2>1 DEF LedgerInv, RowsRefer, JobsRefer, SidecarsRefer, RequestsRefer,
                      RetriedOpened, Steady, Opened
<1> QED BY <1>1, <1>2, WorkerRefers, RequestRefers DEF Next
-----------------------------------------------------------------------------
(***************************************************************************)
(* The theorems                                                            *)
(***************************************************************************)

LEMMA LedgerInvariant == Spec => [](TypeInv /\ LedgerInv)
<1>1. Init => TypeInv /\ LedgerInv
  BY InitType, InitLedger
<1>2. TypeInv /\ LedgerInv /\ [Next]_vars => (TypeInv /\ LedgerInv)'
  <2> SUFFICES ASSUME TypeInv, LedgerInv, [Next]_vars PROVE (TypeInv /\ LedgerInv)'
    OBVIOUS
  <2>1. TypeInv' /\ LedgerStep
    BY NextType, NextLedger
  <2>2. Counted' /\ Steady
    BY <2>1, LedgerKeeps DEF LedgerInv
  <2> QED BY <2>1, <2>2, NextRefers DEF LedgerInv
<1> QED BY <1>1, <1>2, PTL DEF Spec

\* The whole queue, under every interleaving of its workers, requests, retries
\* and faults, writes the rows of billing_runs only as RunLedger allows: a run is
\* opened once, its counters grow within its total, and it is closed only when
\* every account has an outcome, unless an administrator retried it.
THEOREM QueueKeepsLedger == Spec => LedgerPromise
<1>1. Init => RL!LedgerInit
  BY InitLedger
<1>2. TypeInv /\ LedgerInv /\ [Next]_vars => [RL!LedgerNext]_(RL!ledgerVars)
  BY NextLedger DEF LedgerStep
<1> QED BY <1>1, <1>2, LedgerInvariant, PTL DEF Spec, LedgerPromise, RL!LedgerSpec

\* succeeded never passes total_accounts on a run nobody retried, whichever
\* workers count at the same time (worker_queue.py:265-269).
THEOREM CountersWithinTotal == Spec => []RL!NeverOverCounts
<1>1. LedgerInv => RL!NeverOverCounts
  BY DEF LedgerInv, Counted, RL!NeverOverCounts
<1> QED BY <1>1, LedgerInvariant, PTL

\* A run reads DONE or PARTIAL only when each of its accounts has an outcome,
\* until it is retried (worker_queue.py:285-290, 402-405, 567-570).
THEOREM ClosedRunsAccounted == Spec => []RL!ClosedIsAccounted
<1>1. Init => RL!ClosedIsAccounted
  BY DEF Init, RL!ClosedIsAccounted, RL!Closed
<1>2. TypeInv /\ LedgerInv /\ RL!ClosedIsAccounted /\ LedgerStep
        => RL!ClosedIsAccounted'
  <2> SUFFICES ASSUME TypeInv, LedgerInv, RL!ClosedIsAccounted, LedgerStep,
                      NEW r \in Runs, r \notin retried', rstatus'[r] \in RL!Closed
               PROVE  rsucc'[r] + rfail'[r] >= rtotal'[r]
    BY DEF RL!ClosedIsAccounted, RL!Accounted
  <2> USE TypeSplit DEF TypeInv, RL!ClosedIsAccounted, RL!Accounted, RL!Closed
  <2>0. RunOK
    OBVIOUS
  <2>1. ASSUME NEW s \in Runs, RL!OpenRun(s)
        PROVE  rsucc'[r] + rfail'[r] >= rtotal'[r]
    BY <2>0, <2>1 DEF RL!OpenRun, RL!WritesOnly, RunOK
  <2>2. ASSUME NEW s \in Runs, RL!CountOutcomes(s)
        PROVE  rsucc'[r] + rfail'[r] >= rtotal'[r]
    BY <2>0, <2>2 DEF RL!CountOutcomes, RL!WritesOnly, RunOK
  <2>3. ASSUME NEW s \in Runs, RL!RequestRetry(s)
        PROVE  rsucc'[r] + rfail'[r] >= rtotal'[r]
    BY <2>0, <2>3 DEF RL!RequestRetry, RunOK
  <2>4. ASSUME NEW s \in Runs, RL!RewriteRetried(s)
        PROVE  rsucc'[r] + rfail'[r] >= rtotal'[r]
    BY <2>0, <2>4 DEF RL!RewriteRetried, RL!WritesOnly, RunOK
  <2>5. CASE UNCHANGED RL!ledgerVars
    BY <2>5 DEF RL!ledgerVars
  <2> QED BY <2>1, <2>2, <2>3, <2>4, <2>5 DEF LedgerStep, RL!LedgerNext
<1>3. TypeInv /\ LedgerInv /\ [Next]_vars => LedgerStep
  BY NextLedger
<1> QED BY <1>1, <1>2, <1>3, LedgerInvariant, PTL DEF Spec
-----------------------------------------------------------------------------
(***************************************************************************)
(* Sums as cardinalities: the pairs <<x, 1>> .. <<x, f[x]>> over all x      *)
(***************************************************************************)

Pairs(S, f) == UNION {{x} \X (1..f[x]) : x \in S}

LEMMA DisjointCount ==
  ASSUME NEW A, NEW B, IsFiniteSet(A), IsFiniteSet(B), A \cap B = {}
  PROVE  /\ IsFiniteSet(A \cup B)
         /\ Cardinality(A \cup B) = Cardinality(A) + Cardinality(B)
<1>1. Cardinality(A) \in Nat /\ Cardinality(B) \in Nat
  BY FS_CardinalityType
<1>2. /\ IsFiniteSet(A \cup B)
      /\ Cardinality(A \cup B) = Cardinality(A) + Cardinality(B) - Cardinality(A \cap B)
  BY FS_Union
<1>3. Cardinality(A \cap B) = 0
  BY FS_EmptySet
<1> QED BY <1>1, <1>2, <1>3

LEMMA PairsMember ==
  ASSUME NEW S, NEW f \in [S -> Nat], NEW p
  PROVE  p \in Pairs(S, f) <=> \E x \in S : \E i \in 1..f[x] : p = <<x, i>>
BY DEF Pairs

LEMMA PairsFinite ==
  ASSUME NEW S, IsFiniteSet(S), NEW f \in [S -> Nat]
  PROVE  IsFiniteSet(Pairs(S, f)) /\ Cardinality(Pairs(S, f)) \in Nat
<1> DEFINE T == {{x} \X (1..f[x]) : x \in S}
           g == [x \in S |-> {x} \X (1..f[x])]
<1>1. IsFiniteSet(T)
  <2>1. g \in Surjection(S, T)
    BY DEF Surjection
  <2> QED BY <2>1, FS_Surjection
<1>2. \A t \in T : IsFiniteSet(t)
  <2> SUFFICES ASSUME NEW x \in S PROVE IsFiniteSet({x} \X (1..f[x]))
    OBVIOUS
  <2>1. IsFiniteSet({x})
    BY FS_Singleton
  <2>2. IsFiniteSet(1..f[x])
    <3>1. f[x] \in Int /\ 1 \in Int
      OBVIOUS
    <3> QED BY <3>1, FS_Interval
  <2> QED BY <2>1, <2>2, FS_Product
<1>3. IsFiniteSet(UNION T)
  <2> HIDE DEF T
  <2> QED BY <1>1, <1>2, FS_UNION
<1> QED BY <1>3, FS_CardinalityType DEF Pairs

\* The sum grows by one for each element of B.
LEMMA PairsGrow ==
  ASSUME NEW S, IsFiniteSet(S), NEW f \in [S -> Nat], NEW g \in [S -> Nat],
         NEW B \in SUBSET S,
         \A x \in S : g[x] = IF x \in B THEN f[x] + 1 ELSE f[x]
  PROVE  Cardinality(Pairs(S, g)) = Cardinality(Pairs(S, f)) + Cardinality(B)
<1> DEFINE new == {<<x, f[x] + 1>> : x \in B}
           h == [x \in B |-> <<x, f[x] + 1>>]
<1>1. IsFiniteSet(B) /\ Cardinality(B) \in Nat
  BY FS_Subset, FS_CardinalityType
<1>2. IsFiniteSet(new) /\ Cardinality(new) = Cardinality(B)
  <2>1. h \in [B -> new]
    OBVIOUS
  <2>2. \A x, y \in B : h[x] = h[y] => x = y
    OBVIOUS
  <2>3. \A t \in new : \E x \in B : h[x] = t
    OBVIOUS
  <2>4. h \in Bijection(B, new)
    BY <2>1, <2>2, <2>3, Fun_IsBij
  <2> QED BY <1>1, <2>4, FS_Bijection DEF ExistsBijection
<1>3. Pairs(S, g) = Pairs(S, f) \cup new
  <2>1. ASSUME NEW p \in Pairs(S, g) PROVE p \in Pairs(S, f) \cup new
    <3>1. PICK x \in S, i \in Nat : i \in 1..g[x] /\ p = <<x, i>>
      BY <2>1, PairsMember
    <3>0. f[x] \in Nat /\ g[x] \in Nat
      OBVIOUS
    <3>2. CASE i \in 1..f[x]
      BY <3>1, <3>2, PairsMember
    <3>3. CASE i \notin 1..f[x]
      <4>1. x \in B /\ i = f[x] + 1
        BY <3>0, <3>1, <3>3
      <4> QED BY <3>1, <4>1
    <3> QED BY <3>2, <3>3
  <2>2. ASSUME NEW p \in Pairs(S, f) PROVE p \in Pairs(S, g)
    <3>1. PICK x \in S, i \in Nat : i \in 1..f[x] /\ p = <<x, i>>
      BY <2>2, PairsMember
    <3>2. f[x] \in Nat /\ f[x] <= g[x] /\ g[x] \in Nat
      OBVIOUS
    <3>3. i \in 1..g[x]
      BY <3>1, <3>2
    <3> QED BY <3>1, <3>3, PairsMember
  <2>3. ASSUME NEW p \in new PROVE p \in Pairs(S, g)
    <3>1. PICK x \in B : p = <<x, f[x] + 1>>
      OBVIOUS
    <3>2. f[x] + 1 \in 1..g[x]
      OBVIOUS
    <3> QED BY <3>1, <3>2, PairsMember
  <2> QED BY <2>1, <2>2, <2>3
<1>4. Pairs(S, f) \cap new = {}
  <2> SUFFICES ASSUME NEW p \in Pairs(S, f), p \in new PROVE FALSE
    OBVIOUS
  <2>1. PICK x \in S, i \in Nat : i \in 1..f[x] /\ p = <<x, i>>
    BY PairsMember
  <2>2. PICK y \in B : p = <<y, f[y] + 1>>
    OBVIOUS
  <2> QED BY <2>1, <2>2
<1>5. IsFiniteSet(Pairs(S, f)) /\ Cardinality(Pairs(S, f)) \in Nat
  BY PairsFinite
<1> HIDE DEF new
<1> QED BY <1>1, <1>2, <1>3, <1>4, <1>5, DisjointCount

\* One term of the sum changes.
LEMMA PairsChange ==
  ASSUME NEW S, IsFiniteSet(S), NEW f \in [S -> Nat], NEW g \in [S -> Nat],
         NEW w \in S, \A x \in S \ {w} : g[x] = f[x]
  PROVE  Cardinality(Pairs(S, g)) + f[w] = Cardinality(Pairs(S, f)) + g[w]
<1> DEFINE e == [x \in S |-> IF x = w THEN 0 ELSE f[x]]
<1>1. ASSUME NEW h \in [S -> Nat], \A x \in S \ {w} : h[x] = f[x]
      PROVE  Cardinality(Pairs(S, h)) = Cardinality(Pairs(S, e)) + h[w]
  <2> DEFINE new == {w} \X (1..h[w])
  <2>0. e \in [S -> Nat]
    OBVIOUS
  <2>1. IsFiniteSet(new) /\ Cardinality(new) = h[w]
    <3>1. IsFiniteSet({w}) /\ Cardinality({w}) = 1
      BY FS_Singleton
    <3>2. IsFiniteSet(1..h[w]) /\ Cardinality(1..h[w]) = h[w]
      <4>1. h[w] \in Nat
        OBVIOUS
      <4> QED BY <4>1, FS_Interval
    <3>3. Cardinality(new) = 1 * h[w] /\ IsFiniteSet(new)
      <4> HIDE DEF e
      <4> QED BY <3>1, <3>2, FS_Product
    <3>4. h[w] \in Nat
      OBVIOUS
    <3> QED BY <3>3, <3>4
  <2>2. Pairs(S, h) = Pairs(S, e) \cup new
    <3>1. ASSUME NEW p \in Pairs(S, h) PROVE p \in Pairs(S, e) \cup new
      <4>1. PICK x \in S, i \in Nat : i \in 1..h[x] /\ p = <<x, i>>
        BY <3>1, PairsMember
      <4>2. CASE x = w
        BY <4>1, <4>2
      <4>3. CASE x # w
        <5>1. i \in 1..e[x]
          BY <1>1, <4>1, <4>3
        <5> QED BY <4>1, <5>1, <2>0, PairsMember
      <4> QED BY <4>2, <4>3
    <3>2. ASSUME NEW p \in Pairs(S, e) PROVE p \in Pairs(S, h)
      <4>1. PICK x \in S, i \in Nat : i \in 1..e[x] /\ p = <<x, i>>
        BY <2>0, <3>2, PairsMember
      <4>2. x # w /\ i \in 1..h[x]
        BY <1>1, <4>1
      <4> QED BY <4>1, <4>2, PairsMember
    <3>3. ASSUME NEW p \in new PROVE p \in Pairs(S, h)
      <4>1. PICK i \in 1..h[w] : p = <<w, i>>
        OBVIOUS
      <4> QED BY <4>1, PairsMember
    <3> QED BY <3>1, <3>2, <3>3
  <2>3. Pairs(S, e) \cap new = {}
    <3> SUFFICES ASSUME NEW p \in Pairs(S, e), p \in new PROVE FALSE
      OBVIOUS
    <3>1. PICK x \in S, i \in Nat : i \in 1..e[x] /\ p = <<x, i>>
      BY <2>0, PairsMember
    <3>2. x = w
      BY <3>1
    <3>3. e[x] = 0
      BY <3>2
    <3> QED BY <3>1, <3>3
  <2>4. IsFiniteSet(Pairs(S, e)) /\ Cardinality(Pairs(S, e)) \in Nat
    BY <2>0, PairsFinite
  <2>5. h[w] \in Nat
    OBVIOUS
  <2> HIDE DEF new, e
  <2> QED BY <2>1, <2>2, <2>3, <2>4, <2>5, DisjointCount
<1>2. Cardinality(Pairs(S, e)) \in Nat
  BY PairsFinite
<1> HIDE DEF e
<1>3. Cardinality(Pairs(S, f)) = Cardinality(Pairs(S, e)) + f[w]
  BY <1>1
<1>4. Cardinality(Pairs(S, g)) = Cardinality(Pairs(S, e)) + g[w]
  BY <1>1
<1> QED BY <1>2, <1>3, <1>4

\* Nothing to add up.
LEMMA PairsZero ==
  ASSUME NEW S, NEW f \in [S -> Nat], \A x \in S : f[x] = 0
  PROVE  Cardinality(Pairs(S, f)) = 0
<1>1. Pairs(S, f) = {}
  <2> SUFFICES ASSUME NEW p \in Pairs(S, f) PROVE FALSE
    OBVIOUS
  <2>1. PICK x \in S, i \in Nat : i \in 1..f[x] /\ p = <<x, i>>
    BY PairsMember
  <2> QED BY <2>1
<1> QED BY <1>1, FS_EmptySet
-----------------------------------------------------------------------------
(***************************************************************************)
(* The failure rows of a run and its failed counter                        *)
(***************************************************************************)

\* The step records one more failure of r for each file of some set, in the rows
\* and in the counter alike.
Booked(r) ==
  \E B \in SUBSET Uploads :
    /\ rfail'[r] = rfail[r] + Cardinality(B)
    /\ \A u \in Uploads :
         failures'[r][u] = IF u \in B THEN failures[r][u] + 1 ELSE failures[r][u]

LEMMA NothingBooked ==
  ASSUME RunOK, NEW r \in Runs, rfail'[r] = rfail[r], failures'[r] = failures[r]
  PROVE  Booked(r)
<1>1. Cardinality({}) = 0 /\ {} \in SUBSET Uploads
  BY FS_EmptySet
<1>2. rfail[r] \in Int
  BY DEF RunOK
<1>3. rfail'[r] = rfail[r] + Cardinality({})
  BY <1>1, <1>2
<1>4. \A u \in Uploads :
        failures'[r][u] = IF u \in {} THEN failures[r][u] + 1 ELSE failures[r][u]
  OBVIOUS
<1> QED BY <1>1, <1>3, <1>4 DEF Booked

LEMMA FailureBooked ==
  ASSUME RowOK, RunOK, FailuresOK, NEW u \in Uploads, RecordFailure(u),
         NEW r \in Runs
  PROVE  Booked(r)
<1>1. CASE upRun[u] = NoRun
  BY <1>1, NothingBooked DEF RecordFailure, run
<1>2. CASE upRun[u] # NoRun
  <2> DEFINE s == upRun[u]
  <2>1. s \in Runs
    BY <1>2 DEF RowOK, RunId
  <2>2. /\ rfail' = [rfail EXCEPT ![s] = rfail[s] + 1]
        /\ failures' = [failures EXCEPT ![s][u] = @ + 1]
    BY <1>2 DEF RecordFailure, Tally
  <2>3. CASE r # s
    BY <2>1, <2>2, <2>3, NothingBooked DEF RunOK, FailuresOK
  <2>4. CASE r = s
    <3>1. Cardinality({u}) = 1 /\ {u} \in SUBSET Uploads
      BY FS_Singleton
    <3>2. rfail'[r] = rfail[r] + Cardinality({u})
      BY <2>1, <2>2, <2>4, <3>1 DEF RunOK
    <3>3. \A v \in Uploads :
            failures'[r][v] = IF v \in {u} THEN failures[r][v] + 1 ELSE failures[r][v]
      BY <2>1, <2>2, <2>4 DEF FailuresOK
    <3> QED BY <3>1, <3>2, <3>3 DEF Booked
  <2> QED BY <2>3, <2>4
<1> QED BY <1>1, <1>2

\* The request that could not stage its files books them all at once.
LEMMA StagingBooked ==
  ASSUME TypeInv, NEW q \in Requests, FinishBatch(q), NEW r \in Runs
  PROVE  Booked(r)
<1> USE TypeSplit DEF TypeInv
<1> DEFINE s == req[q].run
           bad == req[q].bad
<1>1. s \in Runs /\ bad \in SUBSET Uploads
  BY DEF FinishBatch, At, Running, ReqOK, RequestType
<1>2. /\ rfail' = [rfail EXCEPT ![s] = @ + Cardinality(bad)]
      /\ failures' = [failures EXCEPT ![s] =
                        [u \in Uploads |-> IF u \in bad THEN @[u] + 1 ELSE @[u]]]
  BY DEF FinishBatch
<1> HIDE DEF s, bad
<1>3. CASE r # s
  BY <1>1, <1>2, <1>3, NothingBooked DEF RunOK, FailuresOK
<1>4. CASE r = s
  <2>1. rfail'[r] = rfail[r] + Cardinality(bad)
    BY <1>1, <1>2, <1>4 DEF RunOK
  <2>2. \A u \in Uploads :
          failures'[r][u] = IF u \in bad THEN failures[r][u] + 1 ELSE failures[r][u]
    BY <1>1, <1>2, <1>4 DEF FailuresOK
  <2> QED BY <1>1, <2>1, <2>2 DEF Booked
<1> QED BY <1>3, <1>4

LEMMA UpdateBooksNothing ==
  ASSUME RunOK, NEW s \in RunId, NEW n, UpdateBillingRun(s, n)
  PROVE  rfail' = rfail
BY DEF RunOK, RunId, UpdateBillingRun, Tally, run

\* A retry is never forgotten.
LEMMA NextRetries ==
  ASSUME [Next]_vars
  PROVE  retried \subseteq retried'
<1>1. ASSUME NEW w \in Workers, WorkerStep(w) \/ WorkerFault(w)
      PROVE  retried' = retried
  BY <1>1 DEF WorkerStep, WorkerFault, Claim, ReadMetadata, LookupUpload,
         UnknownTemplate, CreateBillingRun, CheckRunFull, NextChunk, CapPdfs, CopyPdf,
         LockRun, CountChunk, Finish, HandleFailedUpload, CreateBillingRunFails,
         FinishFails, Raise, WorkerCrash, history
<1>2. ASSUME NEW q \in Requests,
             NewRequestStep(q) \/ RequestStep(q) \/ RequestFault(q)
      PROVE  retried \subseteq retried'
  BY <1>2 DEF NewRequestStep, RequestStep, RequestFault, FilterBatch, CommitBatch,
         StageMeta, StageData, StageFails, FinishBatch, ApiCrash, GenerateSingle,
         MoveToQueue, MoveToQueueFails, RetryFailedRun, CommitRetry, LoadFailures,
         UploadsGone, RetryLoadFails, SaveRetry, RetryFails, RetrySaveFails, history
<1>3. ASSUME NEW u \in Uploads, Approve(u) \/ Reject(u) PROVE retried' = retried
  BY <1>3 DEF Approve, Reject, history
<1>4. CASE UNCHANGED vars
  BY <1>4 DEF vars, history
<1> QED BY <1>1, <1>2, <1>3, <1>4 DEF Next

\* Whatever a worker does to the failures of a run, it books them.
LEMMA WorkerBooks ==
  ASSUME TypeInv, NEW w \in Workers, WorkerStep(w) \/ WorkerFault(w), NEW r \in Runs
  PROVE  Booked(r)
<1> USE TypeSplit DEF TypeInv
<1>0. /\ RunOK /\ RowOK /\ FailuresOK
      /\ job[w] \in JobType /\ (job[w].pc # "idle" => job[w].up \in Uploads)
  BY DEF JobOK, Holding
<1>1. ASSUME UNCHANGED <<rfail, failures>> PROVE Booked(r)
  BY <1>0, <1>1, NothingBooked
<1>2. CASE \/ Claim(w) \/ ReadMetadata(w) \/ LookupUpload(w) \/ CreateBillingRun(w)
           \/ CheckRunFull(w) \/ NextChunk(w) \/ CapPdfs(w) \/ CopyPdf(w)
           \/ LockRun(w) \/ WorkerFault(w)
  BY <1>1, <1>2 DEF Claim, ReadMetadata, LookupUpload, CreateBillingRun, InsertRun,
              CheckRunFull, NextChunk, CapPdfs, CopyPdf, LockRun, WorkerFault,
              CreateBillingRunFails, FinishFails, Raise, WorkerCrash, run
<1>3. CASE CountChunk(w)
  <2>1. job[w].tgt \in RunId /\ UpdateBillingRun(job[w].tgt, job[w].gen)
        /\ UNCHANGED failures
    BY <1>0, <1>3 DEF CountChunk, JobType
  <2> QED BY <1>0, <1>1, <2>1, UpdateBooksNothing
<1>4. CASE Finish(w)
  <2>1. job[w].run \in RunId /\ UpdateBillingRun(job[w].run, 0) /\ UNCHANGED failures
    BY <1>0, <1>4 DEF Finish, JobType
  <2> QED BY <1>0, <1>1, <2>1, UpdateBooksNothing
<1>5. CASE UnknownTemplate(w) \/ HandleFailedUpload(w)
  <2>1. job[w].up \in Uploads
    BY <1>0, <1>5 DEF UnknownTemplate, HandleFailedUpload
  <2>2. RecordFailure(job[w].up) \/ UNCHANGED <<run, failures>>
    BY <1>5 DEF UnknownTemplate, HandleFailedUpload
  <2> QED BY <1>0, <1>1, <2>1, <2>2, FailureBooked DEF run
<1> QED BY <1>2, <1>3, <1>4, <1>5 DEF WorkerStep

\* A request too, except the retry task, which rewrites its own run.
LEMMA RequestBooks ==
  ASSUME TypeInv, NEW q \in Requests,
         NewRequestStep(q) \/ RequestStep(q) \/ RequestFault(q), NEW r \in Runs
  PROVE  Booked(r) \/ (SaveRetry(q) /\ req[q].run = r)
<1> USE TypeSplit DEF TypeInv
<1>0. RunOK /\ RowOK /\ FailuresOK
  OBVIOUS
<1>1. CASE \/ FilterBatch(q) \/ CommitBatch(q) \/ StageMeta(q) \/ StageData(q)
           \/ StageFails(q) \/ ApiCrash(q) \/ GenerateSingle(q) \/ MoveToQueue(q)
           \/ MoveToQueueFails(q) \/ RetryFailedRun(q) \/ CommitRetry(q)
           \/ LoadFailures(q) \/ UploadsGone(q) \/ RetryLoadFails(q) \/ RetryFails(q)
           \/ RetrySaveFails(q)
  <2>1. UNCHANGED <<rfail, failures>>
    BY <1>1 DEF FilterBatch, CommitBatch, InsertRun, StageMeta, StageData,
              StageFails, ApiCrash, GenerateSingle, MoveToQueue, MoveToQueueFails,
              RetryFailedRun, CommitRetry, LoadFailures, UploadsGone, RetryLoadFails,
              RetryFails, RetrySaveFails, run
  <2> QED BY <1>0, <2>1, NothingBooked
<1>2. CASE FinishBatch(q)
  BY <1>2, StagingBooked
<1>3. CASE SaveRetry(q) /\ req[q].run # r
  <2>1. PICK n1, n2 : /\ rfail' = [rfail EXCEPT ![req[q].run] = n1]
                      /\ failures' = [failures EXCEPT ![req[q].run] = n2]
    BY <1>3 DEF SaveRetry, Changed
  <2>2. rfail'[r] = rfail[r] /\ failures'[r] = failures[r]
    BY <1>0, <1>3, <2>1 DEF RunOK, FailuresOK
  <2> QED BY <1>0, <2>2, NothingBooked
<1> QED BY <1>1, <1>2, <1>3 DEF NewRequestStep, RequestStep, RequestFault

\* A run nobody retried is only ever booked.
LEMMA NextBooks ==
  ASSUME TypeInv, LedgerInv, [Next]_vars, NEW r \in Runs \ retried
  PROVE  Booked(r)
<1> USE TypeSplit DEF TypeInv
<1>1. ASSUME UNCHANGED <<rfail, failures>> PROVE Booked(r)
  BY <1>1, NothingBooked
<1>2. ASSUME NEW q \in Requests,
             NewRequestStep(q) \/ RequestStep(q) \/ RequestFault(q)
      PROVE  Booked(r)
  <2>1. SaveRetry(q) => req[q].run \in retried
    BY DEF SaveRetry, At, LedgerInv, RequestsRefer
  <2> QED BY <1>2, <2>1, RequestBooks
<1>3. ASSUME NEW u \in Uploads, Approve(u) \/ Reject(u) PROVE Booked(r)
  BY <1>1, <1>3 DEF Approve, Reject, run
<1>4. CASE UNCHANGED vars
  BY <1>1, <1>4 DEF vars, run
<1> QED BY <1>2, <1>3, <1>4, WorkerBooks DEF Next

\* failed and the rows of billing_run_failures agree on every run that was not
\* retried, whichever of the three writers records the failure and in whatever
\* order they commit (worker_queue.py:384-406, 545-571; billing.py:1196-1213).
THEOREM FailuresAgree == Spec => []FailuresRecorded
<1>1. Init => FailuresRecorded
  <2> SUFFICES ASSUME Init, NEW r \in Runs
               PROVE  rfail[r] = Cardinality(Pairs(Uploads, failures[r]))
    BY DEF FailuresRecorded, Pairs
  <2>1. failures[r] \in [Uploads -> Nat] /\ \A u \in Uploads : failures[r][u] = 0
    BY DEF Init
  <2>2. rfail[r] = 0
    BY DEF Init
  <2> QED BY <2>1, <2>2, PairsZero
<1>2. TypeInv /\ TypeInv' /\ LedgerInv /\ FailuresRecorded /\ [Next]_vars
        => FailuresRecorded'
  <2> SUFFICES ASSUME TypeInv, TypeInv', LedgerInv, FailuresRecorded, [Next]_vars,
                      NEW r \in Runs, r \notin retried'
               PROVE  rfail'[r] = Cardinality(Pairs(Uploads, failures'[r]))
    BY DEF FailuresRecorded, Pairs
  <2>1. r \notin retried
    BY NextRetries
  <2>2. rfail[r] = Cardinality(Pairs(Uploads, failures[r]))
    BY <2>1 DEF FailuresRecorded, Pairs
  <2>3. PICK B \in SUBSET Uploads :
          /\ rfail'[r] = rfail[r] + Cardinality(B)
          /\ \A u \in Uploads :
               failures'[r][u] = IF u \in B THEN failures[r][u] + 1 ELSE failures[r][u]
    BY <2>1, NextBooks DEF Booked
  <2>4. failures[r] \in [Uploads -> Nat] /\ failures'[r] \in [Uploads -> Nat]
    BY TypeSplit, TypeSplitPrime DEF TypeInv, FailuresOK
  <2>5. Cardinality(Pairs(Uploads, failures'[r]))
          = Cardinality(Pairs(Uploads, failures[r])) + Cardinality(B)
    <3> DEFINE f == failures[r]
               g == failures'[r]
    <3>1. IsFiniteSet(Uploads)
      BY QueueAssumption
    <3>2. /\ f \in [Uploads -> Nat] /\ g \in [Uploads -> Nat]
          /\ \A u \in Uploads : g[u] = IF u \in B THEN f[u] + 1 ELSE f[u]
      BY <2>3, <2>4
    <3> HIDE DEF f, g
    <3>3. Cardinality(Pairs(Uploads, g)) = Cardinality(Pairs(Uploads, f)) + Cardinality(B)
      BY <3>1, <3>2, PairsGrow
    <3> QED BY <3>3 DEF f, g
  <2> QED BY <2>2, <2>3, <2>5
<1> QED BY <1>1, <1>2, LedgerInvariant, PTL DEF Spec
-----------------------------------------------------------------------------
(***************************************************************************)
(* A retried run comes to a verdict                                        *)
(***************************************************************************)

\* A retry that will write a verdict once it is through, because the status it
\* has read is not that verdict - or one that broke off.
RetryUnderWay(r) ==
  \E q \in Requests :
    /\ req[q].run = r
    /\ \/ req[q].pc \in {"retrycommit", "retryload", "dead"}
       \/ req[q].pc = "retrysave" /\ req[q].seenR = "RUNNING"

RetryInv == \A r \in retried : rstatus[r] = "RUNNING" => RetryUnderWay(r)

\* The other requests are as they were.
LEMMA UnderWayKept ==
  ASSUME ReqOK, NEW r \in Runs, RetryUnderWay(r),
         NEW q \in Requests, NEW j, req' = [req EXCEPT ![q] = j],
         \/ req[q].pc \notin {"retrycommit", "retryload", "retrysave", "dead"}
         \/ req[q].pc = "retrysave" /\ req[q].seenR # "RUNNING"
         \/ req[q].run # r
  PROVE  RetryUnderWay(r)'
BY DEF ReqOK, RetryUnderWay

\* The request itself is under way.
LEMMA UnderWaySet ==
  ASSUME ReqOK, NEW r, NEW q \in Requests, NEW j, req' = [req EXCEPT ![q] = j],
         j.run = r,
         \/ j.pc \in {"retrycommit", "retryload", "dead"}
         \/ j.pc = "retrysave" /\ j.seenR = "RUNNING"
  PROVE  RetryUnderWay(r)'
<1>1. req'[q] = j
  BY DEF ReqOK
<1> QED BY <1>1 DEF RetryUnderWay

\* A worker opens runs and closes them; it does not open one again.
LEMMA WorkerCloses ==
  ASSUME TypeInv, NEW w \in Workers, WorkerStep(w) \/ WorkerFault(w),
         NEW r \in Runs, rstatus[r] # "absent", rstatus'[r] = "RUNNING"
  PROVE  rstatus[r] = "RUNNING"
<1> USE TypeSplit DEF TypeInv
<1>0. RunOK
  OBVIOUS
<1>1. ASSUME NEW s, NEW succ, NEW fail, Tally(s, succ, fail)
      PROVE  rstatus[r] = "RUNNING"
  BY <1>0, <1>1 DEF RunOK, Tally, Verdict
<1>2. ASSUME UNCHANGED rstatus PROVE rstatus[r] = "RUNNING"
  BY <1>2
<1>3. CASE CreateBillingRun(w)
  BY <1>0, <1>3 DEF CreateBillingRun, NextRun, InsertRun, RunOK
<1>4. CASE CountChunk(w) \/ Finish(w)
  BY <1>1, <1>2, <1>4 DEF CountChunk, Finish, UpdateBillingRun, run
<1>5. CASE UnknownTemplate(w) \/ HandleFailedUpload(w)
  BY <1>1, <1>2, <1>5 DEF UnknownTemplate, HandleFailedUpload, RecordFailure, run
<1>6. CASE \/ Claim(w) \/ ReadMetadata(w) \/ LookupUpload(w)
           \/ CheckRunFull(w) \/ NextChunk(w) \/ CapPdfs(w) \/ CopyPdf(w)
           \/ LockRun(w) \/ WorkerFault(w)
  BY <1>2, <1>6 DEF Claim, ReadMetadata, LookupUpload,
              CheckRunFull, NextChunk, CapPdfs, CopyPdf, LockRun, WorkerFault,
              CreateBillingRunFails, FinishFails, Raise, WorkerCrash, run
<1> QED BY <1>3, <1>4, <1>5, <1>6 DEF WorkerStep

LEMMA RequestRetryInv ==
  ASSUME TypeInv, LedgerInv, RetryInv, NEW q \in Requests,
         NewRequestStep(q) \/ RequestStep(q) \/ RequestFault(q)
  PROVE  RetryInv'
<1> SUFFICES ASSUME NEW r \in retried', rstatus'[r] = "RUNNING"
             PROVE  RetryUnderWay(r)'
  BY DEF RetryInv
<1> USE TypeSplit DEF TypeInv
<1>0. /\ RowOK /\ RunOK /\ ReqOK /\ Running /\ req[q] \in RequestType
      /\ retried \in SUBSET Runs
      /\ \A s \in retried : s \in Runs /\ rstatus[s] # "absent"
  BY DEF ReqOK, HistoryOK, LedgerInv, RetriedOpened, Opened
<1> DEFINE s == req[q].run
<1>1. CASE RetryFailedRun(q)
  <2>1. PICK t \in Runs : /\ retried' = retried \cup {t}
                          /\ req' = [req EXCEPT ![q] = [@ EXCEPT !.pc = "retrycommit",
                                       !.run = t, !.seenR = rstatus[t]]]
    BY <1>1 DEF RetryFailedRun
  <2> DEFINE j == [req[q] EXCEPT !.pc = "retrycommit", !.run = t, !.seenR = rstatus[t]]
  <2>2. j.pc = "retrycommit" /\ j.run = t /\ req' = [req EXCEPT ![q] = j]
    BY <1>0, <2>1 DEF RequestType
  <2>3. rstatus' = rstatus /\ req[q].pc = "idle"
    BY <1>1 DEF RetryFailedRun, At, run
  <2> HIDE DEF j
  <2>4. CASE r = t
    BY <1>0, <2>2, <2>4, UnderWaySet
  <2>5. CASE r # t
    <3>1. RetryUnderWay(r) /\ r \in Runs
      BY <1>0, <2>1, <2>3, <2>5 DEF RetryInv
    <3> QED BY <1>0, <2>2, <2>3, <3>1, UnderWayKept
  <2> QED BY <2>4, <2>5
<1>2. CASE CommitRetry(q)
  <2> DEFINE j == [req[q] EXCEPT !.pc = "retryload"]
  <2>1. j.pc = "retryload" /\ j.run = s /\ req' = [req EXCEPT ![q] = j]
    BY <1>0, <1>2 DEF CommitRetry, RequestType
  <2> HIDE DEF j
  <2>2. CASE r = s
    BY <1>0, <2>1, <2>2, UnderWaySet
  <2>3. CASE r # s
    <3>1. retried' = retried /\ s \in Runs
      BY <1>0, <1>2 DEF CommitRetry, history, At, Running
    <3>2. rstatus[r] = "RUNNING" /\ r \in Runs
      BY <1>0, <1>2, <2>3, <3>1 DEF CommitRetry, RunOK
    <3>3. RetryUnderWay(r)
      BY <3>1, <3>2 DEF RetryInv
    <3> QED BY <1>0, <2>1, <2>3, <3>2, <3>3, UnderWayKept
  <2> QED BY <2>2, <2>3
<1>3. CASE LoadFailures(q) \/ UploadsGone(q) \/ RetryLoadFails(q)
  <2>1. /\ UNCHANGED <<rstatus, retried>>
        /\ RetryUnderWay(r) /\ r \in Runs
    BY <1>0, <1>3 DEF LoadFailures, UploadsGone, RetryLoadFails, run, history, RetryInv
  <2>2. PICK j \in RequestType :
          /\ req' = [req EXCEPT ![q] = j]
          /\ j.run = s
          /\ j.pc = "dead" \/ (j.pc = "retrysave" /\ j.seenR = rstatus[j.run])
    BY <1>0, <1>3, LoadRecord
  <2>3. CASE r = s
    <3>1. rstatus[j.run] = "RUNNING"
      BY <2>1, <2>2, <2>3
    <3> QED BY <1>0, <2>2, <2>3, <3>1, UnderWaySet
  <2>4. CASE r # s
    BY <1>0, <2>1, <2>2, <2>4, UnderWayKept
  <2> QED BY <2>3, <2>4
<1>4. CASE SaveRetry(q) \/ RetryFails(q)
  <2>1. /\ retried' = retried /\ r \in Runs /\ s \in Runs /\ req[q].pc = "retrysave"
        /\ Close(q)
    BY <1>0, <1>4 DEF SaveRetry, RetryFails, history, At, Running
  <2>2. PICK v \in {"DONE", "PARTIAL", "FAILED"} : WriteVerdict(q, v)
    <3>1. CASE RetryFails(q)
      <4>1. "FAILED" \in {"DONE", "PARTIAL", "FAILED"} /\ WriteVerdict(q, "FAILED")
        BY <3>1 DEF RetryFails
      <4> QED BY <4>1
    <3>2. CASE SaveRetry(q)
      <4>1. PICK n : WriteVerdict(q, Verdict(n))
        BY <3>2 DEF SaveRetry
      <4>2. Verdict(n) \in {"DONE", "PARTIAL", "FAILED"}
        BY DEF Verdict
      <4> QED BY <4>1, <4>2
    <3> QED BY <1>4, <3>1, <3>2
  <2>3. /\ rstatus' = [rstatus EXCEPT ![s] = rstatus'[s]]
        /\ rstatus'[s] \in {v, rstatus[s]}
        /\ req[q].seenR = "RUNNING" => rstatus'[s] # "RUNNING"
    BY <1>0, <2>1, <2>2, VerdictType
  <2>4. rstatus[r] = "RUNNING"
    BY <1>0, <2>1, <2>3 DEF RunOK
  <2>5. RetryUnderWay(r)
    BY <2>1, <2>4 DEF RetryInv
  <2>6. r # s \/ req[q].seenR # "RUNNING"
    BY <2>3
  <2> QED BY <1>0, <2>1, <2>5, <2>6, UnderWayKept DEF Close
<1>5. CASE RetrySaveFails(q) \/ ApiCrash(q)
  <2>1. /\ UNCHANGED <<rstatus, retried>>
        /\ \/ BreakOff(q)
           \/ Close(q) /\ req[q].pc \notin {"retrycommit", "retryload", "retrysave", "dead"}
    BY <1>5 DEF RetrySaveFails, ApiCrash, run, history
  <2>2. RetryUnderWay(r) /\ r \in Runs
    BY <1>0, <2>1 DEF RetryInv
  <2>3. CASE BreakOff(q)
    <3>1. PICK j \in RequestType : /\ req' = [req EXCEPT ![q] = j]
                                   /\ j.pc = "dead" /\ j.run = s
      BY <1>0, <2>3, BreakOffRecord
    <3> QED BY <1>0, <2>2, <3>1, UnderWayKept, UnderWaySet
  <2>4. CASE Close(q) /\ req[q].pc \notin {"retrycommit", "retryload", "retrysave", "dead"}
    BY <1>0, <2>2, <2>4, UnderWayKept DEF Close
  <2> QED BY <2>1, <2>3, <2>4
<1>6. CASE CommitBatch(q) \/ GenerateSingle(q)
  <2>1. PICK t \in Runs : /\ rstatus[t] = "absent"
                          /\ rstatus' = [rstatus EXCEPT ![t] = "RUNNING"]
    BY <1>6 DEF CommitBatch, GenerateSingle, NextRun, InsertRun
  <2>2. retried' = retried /\ req[q].pc \in {"commit", "idle"}
    BY <1>6 DEF CommitBatch, GenerateSingle, At
  <2>3. rstatus[r] = "RUNNING"
    BY <1>0, <2>1, <2>2 DEF RunOK
  <2>4. RetryUnderWay(r) /\ r \in Runs
    BY <1>0, <2>2, <2>3 DEF RetryInv
  <2>5. PICK j : req' = [req EXCEPT ![q] = j]
    BY <1>6 DEF CommitBatch, GenerateSingle
  <2> QED BY <1>0, <2>2, <2>4, <2>5, UnderWayKept
<1>7. CASE \/ FilterBatch(q) \/ StageMeta(q) \/ StageData(q) \/ StageFails(q)
           \/ FinishBatch(q) \/ MoveToQueue(q) \/ MoveToQueueFails(q)
  <2>1. /\ UNCHANGED <<rstatus, retried>>
        /\ req[q].pc \in {"idle", "meta", "data", "finish", "move"}
    BY <1>7 DEF FilterBatch, StageMeta, StageData, StageFails, FinishBatch,
                MoveToQueue, MoveToQueueFails, run, history, At
  <2>2. RetryUnderWay(r) /\ r \in Runs
    BY <1>0, <2>1 DEF RetryInv
  <2>3. \E j : req' = [req EXCEPT ![q] = j]
    BY <1>7 DEF FilterBatch, StageMeta, StageData, StageFails, FinishBatch,
                MoveToQueue, MoveToQueueFails, Staged, Close
  <2> QED BY <1>0, <2>1, <2>2, <2>3, UnderWayKept
<1> QED BY <1>1, <1>2, <1>3, <1>4, <1>5, <1>6, <1>7
        DEF NewRequestStep, RequestStep, RequestFault

\* A retry that gets to its last transaction leaves a verdict, whatever other
\* retries of the same run have written since it read the run: a retried run is
\* RUNNING only while a retry is under way, or after one broke off before its
\* last transaction was through (billing.py:1221-1308).
THEOREM RetriesEnd == Spec => []RetryLeavesVerdict
<1>1. Init => RetryInv
  BY DEF Init, RetryInv
<1>2. TypeInv /\ LedgerInv /\ RetryInv /\ [Next]_vars => RetryInv'
  <2> SUFFICES ASSUME TypeInv, LedgerInv, RetryInv, [Next]_vars PROVE RetryInv'
    OBVIOUS
  <2>0. \A s \in retried : s \in Runs /\ rstatus[s] # "absent"
    BY DEF LedgerInv, RetriedOpened, Opened
  <2>1. ASSUME NEW w \in Workers, WorkerStep(w) \/ WorkerFault(w) PROVE RetryInv'
    <3>1. UNCHANGED <<retried, req>>
      BY <2>1 DEF WorkerStep, WorkerFault, Claim, ReadMetadata, LookupUpload,
         UnknownTemplate, CreateBillingRun, CheckRunFull, NextChunk, CapPdfs, CopyPdf,
         LockRun, CountChunk, Finish, HandleFailedUpload, CreateBillingRunFails,
         FinishFails, Raise, WorkerCrash, history
    <3> SUFFICES ASSUME NEW r \in retried, rstatus'[r] = "RUNNING"
                 PROVE  RetryUnderWay(r)'
      BY <3>1 DEF RetryInv
    <3>2. RetryUnderWay(r)
      BY <2>0, <2>1, WorkerCloses DEF RetryInv
    <3> QED BY <3>1, <3>2 DEF RetryUnderWay
  <2>2. ASSUME UNCHANGED <<rstatus, req, retried>> PROVE RetryInv'
    BY <2>2 DEF RetryInv, RetryUnderWay
  <2>3. ASSUME NEW u \in Uploads, Approve(u) \/ Reject(u) PROVE RetryInv'
    BY <2>2, <2>3 DEF Approve, Reject, run, history
  <2>4. CASE UNCHANGED vars
    BY <2>2, <2>4 DEF vars, run, history
  <2> QED BY <2>1, <2>3, <2>4, RequestRetryInv DEF Next
<1>3. RetryInv => RetryLeavesVerdict
  BY DEF RetryInv, RetryUnderWay, RetryLeavesVerdict
<1> QED BY <1>1, <1>2, <1>3, LedgerInvariant, PTL DEF Spec
-----------------------------------------------------------------------------
(***************************************************************************)
(* Documents that were copied and not counted yet                          *)
(***************************************************************************)

Due(j, r) ==
  IF j.run # r THEN 0
  ELSE IF j.pc = "copy" THEN j.gen - Cardinality(j.pdfs)
  ELSE IF j.pc \in {"count", "write"} THEN j.gen
  ELSE 0

Uncounted(r) == [w \in Workers |-> Due(job[w], r)]

\* What was copied for a run covers what it counted and what its workers have
\* still to count.
CopiesLead ==
  \A r \in Runs \ retried :
    rsucc[r] + Cardinality(Pairs(Workers, Uncounted(r))) <= copied[r]

\* A worker that prints has a run and counts on it.
RunKnown ==
  \A w \in Workers :
    /\ job[w].pc \in {"gate", "loop", "cap", "copy", "count", "write", "finish"}
         => job[w].run # NoRun
    /\ job[w].pc = "copy" => Cardinality(job[w].pdfs) <= job[w].gen
    /\ job[w].pc = "write" => job[w].tgt = job[w].run

LEMMA DueType ==
  ASSUME NEW j \in JobType, NEW r,
         j.pc = "copy" => /\ j.up \in Uploads /\ j.pdfs \subseteq DOMAIN Docs[j.up]
                          /\ Cardinality(j.pdfs) <= j.gen
  PROVE  Due(j, r) \in Nat
<1>1. j.gen \in Nat
  BY DEF JobType
<1>2. j.pc = "copy" => Cardinality(j.pdfs) \in Nat
  BY SubsetCount
<1> QED BY <1>1, <1>2 DEF Due

\* A worker's step keeps the copies ahead when it keeps its own share of them.
LEMMA LeadKept ==
  ASSUME TypeInv, TypeInv', RunKnown, RunKnown', NEW w \in Workers, OnlyWorker(w),
         NEW r \in Runs,
         rsucc[r] + Cardinality(Pairs(Workers, Uncounted(r))) <= copied[r],
         rsucc'[r] + Due(job'[w], r) + copied[r]
           <= rsucc[r] + Due(job[w], r) + copied'[r]
  PROVE  rsucc'[r] + Cardinality(Pairs(Workers, Uncounted(r)'))  <= copied'[r]
<1> DEFINE f == Uncounted(r)
           g == [x \in Workers |-> Due(job'[x], r)]
<1>1. f \in [Workers -> Nat]
  <2> SUFFICES ASSUME NEW x \in Workers PROVE Due(job[x], r) \in Nat
    BY DEF Uncounted
  <2> QED BY TypeSplit, DueType DEF TypeInv, JobOK, Holding, RunKnown
<1>2. \A x \in Workers : Due(job'[x], r) \in Nat
  <2> SUFFICES ASSUME NEW x \in Workers PROVE Due(job'[x], r) \in Nat
    OBVIOUS
  <2> QED BY TypeSplitPrime, DueType DEF TypeInv, JobOK, Holding, RunKnown
<1>3. g \in [Workers -> Nat] /\ g = Uncounted(r)'
  BY <1>2 DEF Uncounted, Due
<1>4. \A x \in Workers \ {w} : g[x] = f[x]
  BY DEF OnlyWorker, Uncounted
<1>5. f[w] = Due(job[w], r) /\ g[w] = Due(job'[w], r)
  BY DEF Uncounted
<1>6. IsFiniteSet(Workers)
  BY QueueAssumption
<1>7. /\ rsucc[r] \in Int /\ rsucc'[r] \in Int /\ copied[r] \in Nat /\ copied'[r] \in Nat
  BY TypeSplit, TypeSplitPrime DEF TypeInv, RunOK, HistoryOK
<1> HIDE DEF f, g
<1>8. /\ Cardinality(Pairs(Workers, g)) + f[w] = Cardinality(Pairs(Workers, f)) + g[w]
      /\ Cardinality(Pairs(Workers, g)) \in Nat /\ Cardinality(Pairs(Workers, f)) \in Nat
      /\ f[w] \in Nat /\ g[w] \in Nat
  BY <1>1, <1>3, <1>4, <1>6, PairsChange, PairsFinite
<1> QED BY <1>3, <1>5, <1>7, <1>8 DEF f

\* No step leaves a worker printing without a run.
LEMMA WorkerRunKnown ==
  ASSUME "openrun" \notin Faults, TypeInv, RunKnown, NEW w \in Workers,
         WorkerStep(w) \/ WorkerFault(w)
  PROVE  RunKnown' /\ OnlyWorker(w)
<1> USE TypeSplit DEF TypeInv
<1>0. JobOK /\ job[w] \in JobType
  BY DEF JobOK
<1>1. ASSUME OnlyWorker(w),
             job'[w].pc \in {"gate", "loop", "cap", "copy", "count", "write", "finish"}
               => job'[w].run # NoRun,
             job'[w].pc = "copy" => Cardinality(job'[w].pdfs) <= job'[w].gen,
             job'[w].pc = "write" => job'[w].tgt = job'[w].run
      PROVE  RunKnown' /\ OnlyWorker(w)
  <2> SUFFICES ASSUME NEW x \in Workers, x # w
               PROVE  /\ job'[x].pc \in {"gate", "loop", "cap", "copy", "count",
                                         "write", "finish"} => job'[x].run # NoRun
                      /\ job'[x].pc = "copy" => Cardinality(job'[x].pdfs) <= job'[x].gen
                      /\ job'[x].pc = "write" => job'[x].tgt = job'[x].run
    BY <1>1 DEF RunKnown
  <2> QED BY <1>1 DEF RunKnown, OnlyWorker
<1>2. ASSUME Release(w) PROVE RunKnown' /\ OnlyWorker(w)
  BY <1>0, <1>1, <1>2, ReleaseEffect, IdleFields
<1>3. CASE \/ UnknownTemplate(w) \/ Finish(w) \/ HandleFailedUpload(w)
           \/ FinishFails(w) \/ WorkerCrash(w)
  BY <1>2, <1>3 DEF UnknownTemplate, Finish, HandleFailedUpload, FinishFails, WorkerCrash
<1>4. CASE Claim(w)
  BY <1>1, <1>4, ClaimEffect
<1>5. CASE ReadMetadata(w)
  BY <1>1, <1>5, MetadataEffect
<1>6. CASE LookupUpload(w)
  BY <1>1, <1>6, LookupEffect
<1>7. CASE CreateBillingRun(w)
  BY <1>1, <1>7, OpenEffect, QueueAssumption
<1>8. CASE CheckRunFull(w)
  <2>1. CASE Goto(w, "loop")
    BY <1>0, <1>1, <1>8, <2>1, GotoEffect DEF CheckRunFull, RunKnown
  <2> QED BY <1>2, <1>8, <2>1 DEF CheckRunFull
<1>9. CASE NextChunk(w)
  BY <1>1, <1>9, ChunkEffect DEF NextChunk, RunKnown
<1>10. CASE CapPdfs(w)
  <2> DEFINE pdfs == FirstOf(job[w].rend, ChunkLeft(w))
  <2>1. Cardinality(pdfs) \in Nat
    <3>1. job[w].up \in Uploads /\ pdfs \in SUBSET (DOMAIN Docs[job[w].up])
      BY <1>10 DEF CapPdfs, Holding, FirstOf
    <3> HIDE DEF pdfs
    <3> QED BY <3>1, SubsetCount
  <2>2. /\ OnlyWorker(w) /\ job'[w].run = job[w].run
        /\ job'[w].pc \in {"finish", "copy"}
        /\ job'[w].pc = "copy" => job'[w].pdfs = pdfs /\ job'[w].gen = Cardinality(pdfs)
    BY <1>10, CapEffect
  <2>3. job[w].run # NoRun
    BY <1>10 DEF CapPdfs, RunKnown
  <2> HIDE DEF pdfs
  <2> QED BY <1>1, <2>1, <2>2, <2>3
<1>11. CASE CopyPdf(w)
  <2>1. PICK d \in job[w].pdfs :
          /\ OnlyWorker(w) /\ job'[w].run = job[w].run /\ job'[w].gen = job[w].gen
          /\ job'[w].pdfs = job[w].pdfs \ {d} /\ job'[w].pc \in {"copy", "count"}
    BY <1>11, CopyEffect
  <2>2. /\ job[w].run # NoRun /\ Cardinality(job[w].pdfs) <= job[w].gen
        /\ job[w].gen \in Nat
    BY <1>0, <1>11 DEF CopyPdf, RunKnown, JobType
  <2>3. /\ IsFiniteSet(job[w].pdfs) /\ Cardinality(job[w].pdfs) \in Nat
    BY <1>11, SubsetCount DEF CopyPdf, Holding
  <2>4. Cardinality(job[w].pdfs \ {d}) = Cardinality(job[w].pdfs) - 1
    BY <2>3, FS_RemoveElement
  <2> QED BY <1>1, <2>1, <2>2, <2>3, <2>4
<1>12. CASE LockRun(w)
  <2>1. job[w].run # NoRun
    BY <1>12 DEF LockRun, RunKnown
  <2>2. /\ OnlyWorker(w) /\ job'[w].pc = "write" /\ job'[w].run = job[w].run
        /\ job'[w].tgt = job[w].run
    BY <1>12, <2>1, LockEffect
  <2> QED BY <1>1, <2>1, <2>2
<1>13. CASE CountChunk(w)
  BY <1>1, <1>13, CountEffect DEF CountChunk, RunKnown
<1>14. CASE Raise(w)
  BY <1>0, <1>1, <1>14, GotoEffect DEF Raise
<1>15. ~CreateBillingRunFails(w)
  BY DEF CreateBillingRunFails, Fault
<1> QED BY <1>3, <1>4, <1>5, <1>6, <1>7, <1>8, <1>9, <1>10, <1>11, <1>12, <1>13,
           <1>14, <1>15 DEF WorkerStep, WorkerFault

\* Only the transaction that counts a chunk moves succeeded, and only by what
\* was copied.
LEMMA WorkerLeads ==
  ASSUME TypeInv, TypeInv', LedgerInv, RunKnown, RunKnown', NEW w \in Workers, OnlyWorker(w),
         WorkerStep(w) \/ WorkerFault(w), NEW r \in Runs
  PROVE  rsucc'[r] + Due(job'[w], r) + copied[r] <= rsucc[r] + Due(job[w], r) + copied'[r]
<1> USE TypeSplit, TypeSplitPrime DEF TypeInv
<1>0. /\ JobOK /\ RunOK /\ RunOK' /\ HistoryOK /\ HistoryOK'
      /\ job[w] \in JobType /\ job'[w] \in JobType /\ job[w].gen \in Nat
      /\ rsucc[r] \in Int /\ rsucc'[r] \in Int /\ copied[r] \in Nat /\ copied'[r] \in Nat
  BY DEF JobOK, RunOK, HistoryOK, JobType
<1>1. Due(job[w], r) \in Nat
  BY <1>0, DueType DEF Holding, RunKnown
<1>2. ASSUME Due(job'[w], r) = 0, rsucc'[r] = rsucc[r], copied'[r] = copied[r]
      PROVE  rsucc'[r] + Due(job'[w], r) + copied[r]
               <= rsucc[r] + Due(job[w], r) + copied'[r]
  BY <1>0, <1>1, <1>2
<1>3. ASSUME job'[w].pc \notin {"copy", "count", "write"} PROVE Due(job'[w], r) = 0
  BY <1>3 DEF Due
<1>4. ASSUME NEW s \in Runs, NEW fail, Tally(s, rsucc[s], fail) PROVE rsucc'[r] = rsucc[r]
  BY <1>0, <1>4 DEF Tally, RunOK
<1>5. CASE \/ Claim(w) \/ ReadMetadata(w) \/ LookupUpload(w) \/ CreateBillingRun(w)
           \/ NextChunk(w) \/ WorkerFault(w) \/ CheckRunFull(w)
  <2>1. rsucc' = rsucc /\ copied' = copied
    BY <1>5 DEF Claim, ReadMetadata, LookupUpload, CreateBillingRun, InsertRun,
                NextChunk, WorkerFault, CreateBillingRunFails, FinishFails, Raise,
                WorkerCrash, CheckRunFull, run, history
  <2>2. ASSUME Release(w) PROVE job'[w].pc = "idle"
    BY <1>0, <2>2, ReleaseEffect, IdleFields
  <2>3. job'[w].pc \notin {"copy", "count", "write"}
    <3>1. CASE Claim(w) \/ ReadMetadata(w) \/ CreateBillingRun(w) \/ NextChunk(w)
      BY <3>1, ClaimEffect, MetadataEffect, OpenEffect, ChunkEffect
    <3>2. CASE LookupUpload(w)
      BY <3>2, LookupEffect
    <3>3. CASE CheckRunFull(w)
      <4>1. Release(w) \/ Goto(w, "loop")
        BY <3>3 DEF CheckRunFull
      <4> QED BY <1>0, <2>2, <4>1, GotoEffect
    <3>4. CASE WorkerFault(w)
      <4>1. Release(w) \/ Goto(w, "gate") \/ Goto(w, "failed")
        BY <3>4 DEF WorkerFault, CreateBillingRunFails, FinishFails, Raise, WorkerCrash
      <4> QED BY <1>0, <2>2, <4>1, GotoEffect
    <3> QED BY <1>5, <3>1, <3>2, <3>3, <3>4
  <2> QED BY <1>2, <1>3, <2>1, <2>3
<1>6. CASE UnknownTemplate(w) \/ HandleFailedUpload(w) \/ Finish(w)
  <2>1. copied' = copied /\ Release(w)
    BY <1>6 DEF UnknownTemplate, HandleFailedUpload, Finish, history
  <2>2. Due(job'[w], r) = 0
    BY <1>0, <1>3, <2>1, ReleaseEffect, IdleFields
  <2>3. rsucc'[r] = rsucc[r]
    <3>1. job[w].up \in Uploads
      BY <1>6 DEF UnknownTemplate, HandleFailedUpload, Finish, Holding
    <3>2. CASE Finish(w)
      <4>1. job[w].run \in RunId /\ UpdateBillingRun(job[w].run, 0)
        BY <1>0, <3>2 DEF Finish, JobType
      <4> QED BY <1>4, <4>1 DEF UpdateBillingRun, RunId, run
    <3>3. CASE UnknownTemplate(w) \/ HandleFailedUpload(w)
      <4>1. RecordFailure(job[w].up) \/ UNCHANGED rsucc
        BY <3>3 DEF UnknownTemplate, HandleFailedUpload, run
      <4> QED BY <1>4, <3>1, <4>1 DEF RecordFailure, RowOK, RunId, run
    <3> QED BY <1>6, <3>2, <3>3
  <2> QED BY <1>2, <2>1, <2>2, <2>3
<1>7. CASE CapPdfs(w)
  <2>1. rsucc' = rsucc /\ copied' = copied
    BY <1>7 DEF CapPdfs, run, history
  <2>2. \/ job'[w].pc = "finish"
        \/ job'[w].pc = "copy" /\ job'[w].gen = Cardinality(job'[w].pdfs)
    BY <1>7, CapEffect
  <2>3. Due(job'[w], r) = 0
    BY <1>0, <1>3, <2>2 DEF Due, JobType
  <2> QED BY <1>2, <2>1, <2>3
<1>8. CASE CopyPdf(w)
  <2>1. PICK d \in job[w].pdfs :
          /\ job'[w].run = job[w].run /\ job'[w].gen = job[w].gen
          /\ job'[w].pdfs = job[w].pdfs \ {d}
          /\ job'[w].pc = (IF job[w].pdfs \ {d} = {} THEN "count" ELSE "copy")
    BY <1>8, CopyEffect
  <2>2. rsucc' = rsucc
    BY <1>8 DEF CopyPdf, run
  <2>3. job[w].run # NoRun /\ job[w].pc = "copy" /\ Cardinality(job[w].pdfs) <= job[w].gen
    BY <1>8 DEF CopyPdf, RunKnown
  <2>4. IsFiniteSet(job[w].pdfs) /\ Cardinality(job[w].pdfs) \in Nat
    BY <1>8, SubsetCount DEF CopyPdf, Holding
  <2>5. Cardinality(job[w].pdfs \ {d}) = Cardinality(job[w].pdfs) - 1
    BY <2>4, FS_RemoveElement
  <2>6. Cardinality({}) = 0
    BY FS_EmptySet
  <2>7. CASE job[w].run = r
    <3>1. copied'[r] = copied[r] + 1
      BY <1>0, <1>8, <2>7, <2>3 DEF CopyPdf, HistoryOK
    <3>2. Due(job[w], r) = job[w].gen - Cardinality(job[w].pdfs)
      BY <2>3, <2>7 DEF Due
    <3>3. Due(job'[w], r) = job[w].gen - (Cardinality(job[w].pdfs) - 1)
      <4>1. CASE job[w].pdfs \ {d} = {}
        <5>1. job'[w].pc = "count" /\ job'[w].run = r /\ job'[w].gen = job[w].gen
          BY <2>1, <2>7, <4>1
        <5>2. Due(job'[w], r) = job[w].gen
          BY <5>1 DEF Due
        <5>3. Cardinality(job[w].pdfs) - 1 = 0
          BY <2>5, <2>6, <4>1
        <5> QED BY <1>0, <5>2, <5>3
      <4>2. CASE job[w].pdfs \ {d} # {}
        BY <2>1, <2>5, <2>7, <4>2 DEF Due
      <4> QED BY <4>1, <4>2
    <3> QED BY <1>0, <2>2, <2>4, <3>1, <3>2, <3>3
  <2>8. CASE job[w].run # r
    <3>1. copied'[r] = copied[r]
      BY <1>0, <1>8, <2>8 DEF CopyPdf, HistoryOK, JobType, RunId
    <3>2. Due(job'[w], r) = 0
      BY <2>1, <2>8 DEF Due
    <3> QED BY <1>2, <2>2, <3>1, <3>2
  <2> QED BY <2>7, <2>8
<1>9. CASE LockRun(w)
  <2>1. rsucc' = rsucc /\ copied' = copied
    BY <1>9 DEF LockRun, run, history
  <2>2. Due(job'[w], r) = Due(job[w], r)
    <3>1. job[w].pc = "count"
      BY <1>9 DEF LockRun
    <3>2. job'[w].pc = "write" /\ job'[w].run = job[w].run /\ job'[w].gen = job[w].gen
      BY <1>9, LockEffect
    <3> QED BY <3>1, <3>2 DEF Due
  <2> QED BY <1>0, <1>1, <2>1, <2>2
<1>10. CASE CountChunk(w)
  <2>1. copied' = copied /\ Due(job'[w], r) = 0
    BY <1>3, <1>10, CountEffect DEF CountChunk, history
  <2> DEFINE s == job[w].run
  <2>2. s \in Runs /\ job[w].tgt = s
    BY <1>0, <1>10 DEF CountChunk, RunKnown, JobType, RunId
  <2> DEFINE succ == IF job[w].gen > 0 THEN SmallerOf(rtotal[s], rsucc[s] + job[w].gen)
                     ELSE rsucc[s]
  <2>3. rsucc' = [rsucc EXCEPT ![s] = succ]
    BY <1>10, <2>2, QueueAssumption DEF CountChunk, UpdateBillingRun, Tally
  <2>4. CASE s = r
    <3>1. rsucc'[r] = succ
      BY <1>0, <2>2, <2>3, <2>4 DEF RunOK
    <3>2. succ <= rsucc[r] + job[w].gen
      <4>1. rtotal[r] \in Int /\ rsucc[r] + job[w].gen \in Int
        BY <1>0 DEF RunOK
      <4>2. SmallerOf(rtotal[r], rsucc[r] + job[w].gen) <= rsucc[r] + job[w].gen
        BY <4>1, SmallerType
      <4> QED BY <1>0, <2>4, <4>2
    <3>3. Due(job[w], r) = job[w].gen
      BY <1>10, <2>4 DEF Due, CountChunk
    <3> HIDE DEF succ
    <3> QED BY <1>0, <2>1, <3>1, <3>2, <3>3
  <2>5. CASE s # r
    <3>1. rsucc'[r] = rsucc[r]
      BY <1>0, <2>3, <2>5 DEF RunOK
    <3> QED BY <1>2, <2>1, <3>1
  <2> QED BY <2>4, <2>5
<1> QED BY <1>5, <1>6, <1>7, <1>8, <1>9, <1>10 DEF WorkerStep

\* Unless a worker goes on without a run because it could not open one, no run
\* ever counts a document that was not copied: succeeded follows the copies,
\* whichever of them a crash, an exception, another worker's transaction or a
\* second run of the same file falls between (worker_queue.py:742-791).
THEOREM CountedArePrinted ==
  ASSUME "openrun" \notin Faults
  PROVE  Spec => []CountedWerePrinted
<1>1. Init => RunKnown /\ CopiesLead
  <2> SUFFICES ASSUME Init PROVE RunKnown /\ CopiesLead
    OBVIOUS
  <2>1. RunKnown
    BY IdleFields DEF Init, RunKnown
  <2>2. ASSUME NEW r \in Runs
        PROVE  rsucc[r] + Cardinality(Pairs(Workers, Uncounted(r))) <= copied[r]
    <3> DEFINE f == Uncounted(r)
    <3>1. f \in [Workers -> Nat] /\ \A w \in Workers : f[w] = 0
      BY IdleFields DEF Init, Uncounted, Due
    <3> HIDE DEF f
    <3>2. Cardinality(Pairs(Workers, f)) = 0
      BY <3>1, PairsZero
    <3> QED BY <3>2 DEF Init, f
  <2> QED BY <2>1, <2>2 DEF CopiesLead
<1>2. TypeInv /\ TypeInv' /\ LedgerInv /\ RunKnown /\ CopiesLead /\ [Next]_vars
        => RunKnown' /\ CopiesLead'
  <2> SUFFICES ASSUME TypeInv, TypeInv', LedgerInv, RunKnown, CopiesLead, [Next]_vars
               PROVE  RunKnown' /\ CopiesLead'
    OBVIOUS
  <2>0. retried \subseteq retried'
    BY NextRetries
  <2>1. ASSUME NEW w \in Workers, WorkerStep(w) \/ WorkerFault(w)
        PROVE  RunKnown' /\ CopiesLead'
    <3>1. RunKnown' /\ OnlyWorker(w)
      BY <2>1, WorkerRunKnown
    <3> SUFFICES ASSUME NEW r \in Runs, r \notin retried'
                 PROVE  rsucc'[r] + Cardinality(Pairs(Workers, Uncounted(r)')) <= copied'[r]
      BY <3>1 DEF CopiesLead, Pairs
    <3>2. rsucc[r] + Cardinality(Pairs(Workers, Uncounted(r))) <= copied[r]
      BY <2>0 DEF CopiesLead
    <3>3. rsucc'[r] + Due(job'[w], r) + copied[r] <= rsucc[r] + Due(job[w], r) + copied'[r]
      BY <2>1, <3>1, WorkerLeads
    <3> QED BY <3>1, <3>2, <3>3, LeadKept
  <2>2. ASSUME UNCHANGED <<job, copied>>, \A r \in Runs \ retried' : rsucc'[r] = rsucc[r]
        PROVE  RunKnown' /\ CopiesLead'
    <3>1. RunKnown'
      BY <2>2 DEF RunKnown
    <3>2. \A r \in Runs : Pairs(Workers, Uncounted(r)') = Pairs(Workers, Uncounted(r))
      BY <2>2 DEF Uncounted, Due
    <3> QED BY <2>0, <2>2, <3>1, <3>2 DEF CopiesLead, Pairs
  <2>3. ASSUME NEW q \in Requests,
               NewRequestStep(q) \/ RequestStep(q) \/ RequestFault(q)
        PROVE  RunKnown' /\ CopiesLead'
    <3>1. CASE ~SaveRetry(q)
      <4>1. UNCHANGED <<job, copied, rsucc>>
        BY <2>3, <3>1 DEF NewRequestStep, RequestStep, RequestFault, FilterBatch,
           CommitBatch, InsertRun, StageMeta, StageData, StageFails, FinishBatch,
           ApiCrash, GenerateSingle, MoveToQueue, MoveToQueueFails, RetryFailedRun,
           CommitRetry, LoadFailures, UploadsGone, RetryLoadFails, RetryFails,
           RetrySaveFails, run, history
      <4> QED BY <2>2, <4>1
    <3>2. CASE SaveRetry(q)
      <4>1. PICK v : rsucc' = [rsucc EXCEPT ![req[q].run] = v]
        BY <3>2 DEF SaveRetry, Changed
      <4>2. req[q].run \in retried /\ UNCHANGED <<job, copied>>
        BY <3>2 DEF SaveRetry, At, LedgerInv, RequestsRefer
      <4>3. \A r \in Runs \ retried' : rsucc'[r] = rsucc[r]
        BY <2>0, <4>1, <4>2, TypeSplit DEF TypeInv, RunOK
      <4> QED BY <2>2, <4>2, <4>3
    <3> QED BY <3>1, <3>2
  <2>4. ASSUME NEW u \in Uploads, Approve(u) \/ Reject(u) PROVE RunKnown' /\ CopiesLead'
    <3>1. UNCHANGED <<job, copied, rsucc>>
      BY <2>4 DEF Approve, Reject, run, history
    <3> QED BY <2>2, <3>1
  <2>5. CASE UNCHANGED vars
    <3>1. UNCHANGED <<job, copied, rsucc>>
      BY <2>5 DEF vars, run, history
    <3> QED BY <2>2, <3>1
  <2> QED BY <2>1, <2>3, <2>4, <2>5 DEF Next
<1>3. TypeInv /\ RunKnown /\ CopiesLead => CountedWerePrinted
  <2> SUFFICES ASSUME TypeInv, RunKnown, CopiesLead, NEW r \in Runs, r \notin retried
               PROVE  rsucc[r] <= copied[r]
    BY DEF CountedWerePrinted
  <2> DEFINE f == Uncounted(r)
  <2>1. f \in [Workers -> Nat]
    <3> SUFFICES ASSUME NEW x \in Workers PROVE Due(job[x], r) \in Nat
      BY DEF Uncounted
    <3> QED BY TypeSplit, DueType DEF TypeInv, JobOK, Holding, RunKnown
  <2>2. rsucc[r] + Cardinality(Pairs(Workers, f)) <= copied[r]
    BY DEF CopiesLead
  <2> HIDE DEF f
  <2>3. Cardinality(Pairs(Workers, f)) \in Nat
    BY <2>1, PairsFinite, QueueAssumption
  <2> QED BY <2>2, <2>3, TypeSplit DEF TypeInv, RunOK, HistoryOK
<1> QED BY <1>1, <1>2, <1>3, LedgerInvariant, PTL DEF Spec
=============================================================================
