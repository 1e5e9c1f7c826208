----------------------------- MODULE AdminPortal -----------------------------
(***************************************************************************)
(* The portal beside the printing worker: self-seal envelope artwork       *)
(* (routers/envelope.py), the two passes that append the approved artwork  *)
(* to a one-page print bill (core/self_seal_appender.py), the super        *)
(* admin's test runs in background threads (routers/super_admin.py) and    *)
(* the system reset that clears what all of them use.                      *)
(*                                                                         *)
(* A request of the portal is a session that reads a row, works, and       *)
(* commits: another request can commit in between.  An assignment that     *)
(* leaves the value read writes nothing, an UPDATE of a row deleted        *)
(* meanwhile fails the commit, a DELETE of it does not.                    *)
(*                                                                         *)
(* Artworks are numbered in the order of created_at, the start of the      *)
(* upload's transaction; composites have names of their own.  The log of   *)
(* decisions, which nothing here reads, is left out.                       *)
(***************************************************************************)
EXTENDS Naturals, Sequences, FiniteSetsExt

CONSTANTS
  Artworks,      \* artworks of the SELF_SEAL template, positive numbers
  Admins,        \* sessions of the artwork endpoints
  Runs,          \* test runs, one per POST /gmf-test/run
  MaxFiles,      \* most files one test run samples
  MaxRequests    \* bound: uploads, decisions, deletions, bills, test runs, resets

\* Among any of them one is the newest.
ASSUME ArtworkAssumption ==
  /\ Artworks \subseteq Nat \ {0}
  /\ \A S \in SUBSET Artworks : S # {} => \E a \in S : \A b \in S : b <= a

VARIABLES
  status,        \* artwork -> "none", "uploading", its row's status, "deleted"
  composed,      \* artworks whose row names a composite PDF
  disk,          \* artworks whose composite PDF is on disk
  envelopes,     \* artworks copied to the day's Envelope folder
  session,       \* admin -> the request in progress
  bill,          \* the bill being printed
  seen,          \* the seals in force while the bill was printed
  run,           \* test run -> "none", "checked", its row's status, "gone"
  thread,        \* test run -> where its thread stands
  left,          \* test run -> sampled files still to validate
  report,        \* test runs whose PDF report is on disk
  swept,         \* test runs whose report a reset removed
  resetting,     \* a reset has committed and not yet removed the files
  requests       \* requests made so far

artVars == <<status, composed, disk, envelopes, session>>
printVars == <<bill, seen>>
testVars == <<run, thread, left, report, swept>>
vars == <<artVars, printVars, testVars, resetting, requests>>

None == 0
Idle == [op |-> "none", arts |-> {}, read |-> "none"]
Stored(a) == status[a] \in {"DRAFT", "SUBMITTED", "APPROVED", "REJECTED"}

Init ==
  /\ status = [a \in Artworks |-> "none"]
  /\ composed = {} /\ disk = {} /\ envelopes = {}
  /\ session = [h \in Admins |-> Idle]
  /\ bill = [at |-> "idle", pass |-> 2, answer |-> None, pages |-> 1, seals |-> <<>>]
  /\ seen = {}
  /\ run = [r \in Runs |-> "none"]
  /\ thread = [r \in Runs |-> "none"]
  /\ left = [r \in Runs |-> 0]
  /\ report = {} /\ swept = {}
  /\ resetting = FALSE
  /\ requests = 0

Request == requests < MaxRequests /\ requests' = requests + 1

-----------------------------------------------------------------------------
(* Artwork. *)

\* The lookup of the template opens the transaction whose start is created_at.
BeginUpload(a) ==
  /\ Request
  /\ status[a] = "none" /\ \A b \in Artworks : b < a => status[b] # "none"
  /\ status' = [status EXCEPT ![a] = "uploading"]
  /\ UNCHANGED <<composed, disk, envelopes, session>>

\* The composite may fail: the row is then saved without a path.
UploadArtwork(a) ==
  /\ status[a] = "uploading"
  /\ \E s \in {"DRAFT", "SUBMITTED"} : status' = [status EXCEPT ![a] = s]
  /\ \/ composed' = composed \union {a} /\ disk' = disk \union {a}
     \/ UNCHANGED <<composed, disk>>
  /\ UNCHANGED <<envelopes, session, requests>>

\* A decision request reads its row; only a submitted artwork is rejected.
OpenArtwork(h, a, op) ==
  /\ Request
  /\ session[h] = Idle /\ Stored(a)
  /\ op = "reject" => status[a] = "SUBMITTED"
  /\ session' = [session EXCEPT ![h] = [op |-> op, arts |-> {a}, read |-> status[a]]]
  /\ UNCHANGED <<status, composed, disk, envelopes>>

\* The commit of session h that assigned status s to artwork a.
Written(h, a, s) ==
  status' = IF session[h].read = s THEN status ELSE [status EXCEPT ![a] = s]
Committed(h, a, s) == Stored(a) \/ session[h].read = s
Close(h) == session' = [session EXCEPT ![h] = Idle]

SubmitForApproval(h) ==
  \E a \in session[h].arts :
    /\ session[h].op = "submit"
    /\ IF Committed(h, a, "SUBMITTED") THEN Written(h, a, "SUBMITTED")
       ELSE UNCHANGED status
    /\ Close(h)
    /\ UNCHANGED <<composed, disk, envelopes, requests>>

ApproveArtwork(h) ==
  \E a \in session[h].arts :
    /\ session[h].op = "approve"
    /\ IF Committed(h, a, "APPROVED")
       THEN /\ Written(h, a, "APPROVED")
            /\ envelopes' = envelopes \union ({a} \intersect composed \intersect disk)
       ELSE UNCHANGED <<status, envelopes>>
    /\ Close(h)
    /\ UNCHANGED <<composed, disk, requests>>

RejectArtwork(h) ==
  \E a \in session[h].arts :
    /\ session[h].op = "reject"
    /\ IF Stored(a) THEN Written(h, a, "REJECTED") ELSE UNCHANGED status
    /\ Close(h)
    /\ UNCHANGED <<composed, disk, envelopes, requests>>

\* The files are removed before the commit that deletes the rows.
RemoveFiles(h, arts) ==
  /\ Request
  /\ session[h] = Idle /\ arts # {}
  /\ session' = [session EXCEPT ![h] = [op |-> "delete", arts |-> arts, read |-> "none"]]
  /\ disk' = disk \ arts
  /\ UNCHANGED <<status, composed, envelopes>>
RemoveArtwork(h, a) == Stored(a) /\ RemoveFiles(h, {a})
DeleteAllArtworks(h) == RemoveFiles(h, {a \in Artworks : Stored(a)})

CommitDelete(h) ==
  /\ session[h].op = "delete"
  /\ status' = [a \in Artworks |-> IF a \in session[h].arts THEN "deleted" ELSE status[a]]
  /\ composed' = composed \ session[h].arts
  /\ Close(h)
  /\ UNCHANGED <<disk, envelopes, requests>>

-----------------------------------------------------------------------------
(* Printing: the batch processor asks for the approved seal and appends    *)
(* it, then the worker asks again for the whole folder.                    *)

DrawBill ==
  /\ Request
  /\ bill.at = "idle"
  /\ \E n \in 1..2 :
       bill' = [at |-> "drawn", pass |-> 1, answer |-> None, pages |-> n, seals |-> <<>>]

\* (mutant) the oldest approved artwork is taken
GetApprovedSelfSealOldest ==
  LET approved == {a \in composed : status[a] = "APPROVED"}
  IN IF approved = {} THEN None ELSE Min(approved)

GetApprovedSelfSeal ==
  LET approved == {a \in composed : status[a] = "APPROVED"}
  IN IF approved = {} THEN None ELSE Max(approved)

AskSeal ==
  /\ bill.at = "drawn"
  /\ bill' = [bill EXCEPT !.at = "asked", !.answer = GetApprovedSelfSeal]
  /\ UNCHANGED requests

\* A composite missing by now leaves the bill as it is.
AppendSeal ==
  /\ bill.at = "asked"
  /\ LET fits == bill.answer \in disk /\ bill.pages = 1
     IN bill' = [bill EXCEPT !.at = IF bill.pass = 1 THEN "drawn" ELSE "idle",
                             !.pass = 2,
                             !.pages = IF fits THEN 2 ELSE @,
                             !.seals = IF fits THEN Append(@, bill.answer) ELSE @]
  /\ UNCHANGED requests

-----------------------------------------------------------------------------
(* Test runs: the check for a running one and the insert are two steps.    *)

CheckTestRun(r) ==
  /\ Request
  /\ run[r] = "none" /\ \A q \in Runs : run[q] # "RUNNING"
  /\ run' = [run EXCEPT ![r] = "checked"]
  /\ UNCHANGED <<thread, left, report, swept>>

StartTestRun(r) ==
  /\ run[r] = "checked"
  /\ run' = [run EXCEPT ![r] = "RUNNING"]
  /\ thread' = [thread EXCEPT ![r] = "started"]
  /\ UNCHANGED <<left, report, swept, requests>>

\* A commit of a thread whose row a reset deleted ends the thread.
SampleFiles(r) ==
  /\ thread[r] = "started"
  /\ IF run[r] = "RUNNING"
     THEN /\ \E n \in 0..MaxFiles : left' = [left EXCEPT ![r] = n]
          /\ thread' = [thread EXCEPT ![r] = "validating"]
     ELSE thread' = [thread EXCEPT ![r] = "ended"] /\ UNCHANGED left
  /\ UNCHANGED <<run, report, swept, requests>>

\* A file that cannot be validated counts as one failed result.
ValidateFile(r) ==
  /\ thread[r] = "validating" /\ left[r] > 0
  /\ IF run[r] = "RUNNING"
     THEN left' = [left EXCEPT ![r] = @ - 1] /\ UNCHANGED thread
     ELSE thread' = [thread EXCEPT ![r] = "ended"]
            /\ left' = [left EXCEPT ![r] = 0]
  /\ UNCHANGED <<run, report, swept, requests>>

WriteReport(r) ==
  /\ thread[r] = "validating" /\ left[r] = 0
  /\ report' = report \union {r}
  /\ thread' = [thread EXCEPT ![r] = "reported"]
  /\ UNCHANGED <<run, left, swept, requests>>

CompleteTestRun(r) ==
  /\ thread[r] = "reported"
  /\ thread' = [thread EXCEPT ![r] = "ended"]
  /\ run' = IF run[r] = "RUNNING" THEN [run EXCEPT ![r] = "COMPLETED"] ELSE run
  /\ UNCHANGED <<left, report, swept, requests>>

\* (mutant) the handler of the exception only logs it
FailTestRunUnrecorded(r) ==
  /\ thread[r] \in {"started", "validating"} /\ left[r] = 0
  /\ thread' = [thread EXCEPT ![r] = "ended"]
  /\ UNCHANGED <<run, left, report, swept, requests>>

\* Sampling or the report raises: the run is recorded as failed.
FailTestRun(r) ==
  /\ thread[r] \in {"started", "validating"} /\ left[r] = 0
  /\ thread' = [thread EXCEPT ![r] = "ended"]
  /\ run' = IF run[r] = "RUNNING" THEN [run EXCEPT ![r] = "FAILED"] ELSE run
  /\ UNCHANGED <<left, report, swept, requests>>

-----------------------------------------------------------------------------
(* The reset commits the deletion of every row, then removes the files.    *)
(* The folder of the composites is not among those it clears.              *)

ResetRows ==
  /\ Request
  /\ ~resetting /\ resetting' = TRUE
  /\ status' = [a \in Artworks |-> IF Stored(a) THEN "deleted" ELSE status[a]]
  /\ composed' = {}
  /\ run' = [r \in Runs |-> IF run[r] \in {"none", "checked"} THEN run[r] ELSE "gone"]
  /\ UNCHANGED <<disk, envelopes, session, bill, thread, left, report, swept>>

ResetFiles ==
  /\ resetting /\ resetting' = FALSE
  /\ envelopes' = {} /\ report' = {}
  /\ swept' = swept \union report
  /\ UNCHANGED <<status, composed, disk, session, bill, run, thread, left, requests>>

-----------------------------------------------------------------------------
ArtworkStep ==
  /\ \/ \E a \in Artworks : BeginUpload(a) \/ UploadArtwork(a)
     \/ \E h \in Admins, a \in Artworks :
          \/ \E op \in {"submit", "approve", "reject"} : OpenArtwork(h, a, op)
          \/ RemoveArtwork(h, a)
     \/ \E h \in Admins :
          \/ SubmitForApproval(h) \/ ApproveArtwork(h) \/ RejectArtwork(h)
          \/ DeleteAllArtworks(h) \/ CommitDelete(h)
  /\ UNCHANGED <<bill, testVars, resetting>>

PrintStep ==
  (DrawBill \/ AskSeal \/ AppendSeal) /\ UNCHANGED <<artVars, testVars, resetting>>

ThreadStep(r) ==
  /\ \/ SampleFiles(r) \/ ValidateFile(r) \/ WriteReport(r)
     \/ CompleteTestRun(r) \/ FailTestRun(r)
  /\ UNCHANGED <<artVars, bill, resetting>>

TestStep ==
  /\ \E r \in Runs : CheckTestRun(r) \/ StartTestRun(r)
  /\ UNCHANGED <<artVars, bill, resetting>>

(* The seal in force: the newest approved artwork, if its file is there.   *)
SealInForce ==
  LET approved == {a \in composed : status[a] = "APPROVED"}
      newest == CHOOSE a \in approved : \A b \in approved : b <= a
  IN IF approved # {} /\ newest \in disk THEN newest ELSE None

Observe ==
  seen' = IF bill'.at = "idle" THEN seen
          ELSE (IF bill.at = "idle" THEN {} ELSE seen) \union {SealInForce'}

Portal == ArtworkStep \/ PrintStep \/ TestStep \/ ResetRows \/ ResetFiles

Next == (Portal \/ \E r \in Runs : ThreadStep(r)) /\ Observe

Fairness == \A r \in Runs : WF_vars(ThreadStep(r) /\ Observe)

Spec == Init /\ [][Next]_vars /\ Fairness

-----------------------------------------------------------------------------
(* Whatever is uploaded, decided and removed while a bill is printed, it   *)
(* carries at most one seal, and that one was in force at some moment of   *)
(* the printing; when the seal in force did not change meanwhile, a        *)
(* one-page bill carries exactly that seal, and a longer bill carries none *)
(* (get_approved_self_seal_pdf and append_self_seal_if_needed, called      *)
(* twice on the same bill).                                                *)
SealFollowsApproval ==
  LET drawn == bill.pages - Len(bill.seals)
  IN bill.at = "idle" /\ seen # {} =>
       /\ bill.seals \in {<<>>} \union {<<a>> : a \in seen \ {None}}
       /\ drawn = 2 => bill.seals = <<>>
       /\ drawn = 1 /\ Cardinality(seen) = 1 =>
            bill.seals = IF seen = {None} THEN <<>> ELSE <<CHOOSE a \in seen : TRUE>>

(* A test run that reads RUNNING does not stay so: a reset deletes its     *)
(* row, or it ends FAILED, or COMPLETED with its report on disk unless a   *)
(* reset removed it (_run_test_in_background, execute_system_reset).       *)
TestRunEnds ==
  \A r \in Runs :
    run[r] = "RUNNING" ~>
      \/ run[r] \in {"gone", "FAILED"}
      \/ run[r] = "COMPLETED" /\ r \in report \union swept
=============================================================================
