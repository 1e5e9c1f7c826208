-------------------------------- MODULE Intake --------------------------------
(***************************************************************************)
(* How a GMF file gets from the drive, a ZIP or a form into the queue, and   *)
(* how its row follows: the drive watcher (app/uploads/watcher.py), the      *)
(* background tasks of upload-gmf, the approval of templates that moves      *)
(* every waiting file, the deletion of uploads (app/api/routers/billing.py), *)
(* and the worker that takes a file without a row for an orphan              *)
(* (app/billing/worker_queue.py).  What the worker does with a file that has *)
(* a row is told in three outcomes; QueueWorker tells the rest.             *)
(***************************************************************************)
EXTENDS Integers, FiniteSets

CONSTANTS
  Deliveries,        \* the files that are handed in, one by one
  Names, Folders,    \* file names; folder types, "Test_GMFs" among them
  NameOf, FolderOf,  \* the name and the folder each delivery comes under
  Templates,
  TemplatesOf,       \* the templates its documents are recognised as
  Watchers,          \* threads that register files of the drive
  ProcessOf,         \* the process of each: _process_lock is one per process
  Uploaders,         \* background tasks of upload-gmf
  RowIds,            \* primary keys of gmf_uploads, used in order
  Tries,             \* looks at the table before a file is an orphan (3)
  MaxDecisions,      \* how often somebody sets the mode or a verdict
  Faults,            \* the failures considered
  NoFile, NoRow, DeletedRow, Nobody

Test == "Test_GMFs"

ASSUME IntakeAssumption ==
  /\ NameOf \in [Deliveries -> Names]
  /\ FolderOf \in [Deliveries -> Folders]
  /\ TemplatesOf \in [Deliveries -> SUBSET Templates]
  /\ RowIds \subseteq Nat
  /\ Tries \in Nat \ {0}
  /\ MaxDecisions \in Nat

Processes == {ProcessOf[r] : r \in Watchers}

VARIABLES
  verdict,           \* invoice_templates.approval_status
  mode,              \* the setting billing_mode
  decisions,
  drive,             \* the file of each folder and name on the drive
  queue,             \* queue/incoming and queue/pending, by name
  rows,              \* gmf_uploads
  lock,              \* _process_lock of each process
  events,            \* file-system events nobody has taken up yet
  reg,               \* where each watcher thread and upload task stands
  casc,              \* where update_template_status stands
  hand,              \* the file in the worker's hands
  sent, printed, failed,  \* history: what became of the deliveries
  dropped                 \* thrown away, or their row deleted

vars == <<verdict, mode, decisions, drive, queue, rows, lock, events, reg, casc, hand,
          sent, printed, failed, dropped>>
store == <<drive, queue>>
fate == <<sent, printed, failed, dropped>>

Key(d) == <<FolderOf[d], NameOf[d]>>
Keys == Folders \X Names

Idle == [pc |-> "idle", key |-> Nobody, d |-> NoFile, tmpls |-> {}, appr |-> {},
         rej |-> {}, mode |-> "auto", id |-> Nobody, read |-> NoRow,
         path |-> "none", status |-> "none"]

Quiet == [pc |-> "idle", verdict |-> "none", t |-> Nobody, appr |-> {}, mode |-> "auto",
          todo |-> {}, read |-> [i \in {} |-> NoRow], new |-> [i \in {} |-> NoRow]]

EmptyHand == [pc |-> "idle", name |-> Nobody, d |-> NoFile, tries |-> 0, id |-> Nobody]

Init ==
  /\ verdict \in [Templates -> {"PENDING", "APPROVED"}]
  /\ mode \in {"auto", "manual"}
  /\ decisions = 0
  /\ drive = [k \in Keys |-> NoFile]
  /\ queue = [incoming |-> [n \in Names |-> NoFile], pending |-> [n \in Names |-> NoFile]]
  /\ rows = [i \in RowIds |-> NoRow]
  /\ lock = [p \in Processes |-> Nobody]
  /\ events = {}
  /\ reg = [r \in Watchers \cup Uploaders |-> Idle]
  /\ casc = Quiet
  /\ hand = EmptyHand
  /\ sent = {} /\ printed = {} /\ failed = {} /\ dropped = {}

With(v) == {t \in Templates : verdict[t] = v}
-----------------------------------------------------------------------------
(* The outside *)

\* rclone, the SFTP poller or somebody's hands put a file on the drive, over
\* one of the same name; the event may get lost on the way.
Drop(d) ==
  /\ d \notin sent
  /\ drive' = [drive EXCEPT ![Key(d)] = d]
  /\ sent' = sent \cup {d}
  /\ events' \in {events, events \cup {Key(d)}}
  /\ UNCHANGED <<verdict, mode, decisions, queue, rows, lock, reg, casc, hand, printed, failed, dropped>>

Decide ==
  /\ decisions < MaxDecisions
  /\ decisions' = decisions + 1

ChangeMode ==
  /\ Decide
  /\ mode' = IF mode = "auto" THEN "manual" ELSE "auto"
  /\ UNCHANGED <<verdict, store, rows, lock, events, reg, casc, hand, fate>>
-----------------------------------------------------------------------------
(* The rows *)

Live == {i \in RowIds : rows[i] \notin {NoRow, DeletedRow}}

\* (mutant) a test upload is found under its name alone
RowsOfAnyPlace(key) == {i \in Live : rows[i].key = key /\ rows[i].path = "drive"}

RowsOf(key) == {i \in Live : rows[i].key = key}

\* A key is never given out twice.
Unused == {i \in RowIds : rows[i] = NoRow}

First(S) == {i \in S : \A j \in S : i <= j}

\* Only the columns that differ from what was read are written.
Over(now, read, new) == [c \in DOMAIN now |-> IF new[c] = read[c] THEN now[c] ELSE new[c]]

\* Where a file goes and what its row says, by what its templates are.
Decision(tmpls, appr, rej, m) ==
  CASE tmpls \cap appr # {} /\ m = "auto" -> [path |-> "incoming", status |-> "APPROVED"]
    [] tmpls \cap appr # {} /\ m # "auto" -> [path |-> "pending", status |-> "APPROVED"]
    [] tmpls \cap appr = {} /\ tmpls \cap rej # {} -> [path |-> "pending", status |-> "REJECTED"]
    [] OTHER -> [path |-> "pending", status |-> "PENDING_APPROVAL"]

Put(place, n, d) == [queue EXCEPT ![place][n] = d]
-----------------------------------------------------------------------------
(* The watcher: on_created, on_moved and the periodic scan end in            *)
(* _process_file.                                                          *)

Detect(r, key) ==
  /\ reg[r].pc = "idle"
  /\ drive[key] # NoFile
  /\ reg' = [reg EXCEPT ![r] =
       [@ EXCEPT !.pc = "lock", !.key = key, !.tmpls = TemplatesOf[drive[key]]]]
  /\ UNCHANGED <<verdict, mode, decisions, store, rows, lock, casc, hand, fate>>

OnEvent(r, key) ==
  /\ key \in events
  /\ events' = events \ {key}
  /\ IF drive[key] = NoFile
     THEN UNCHANGED <<verdict, mode, decisions, store, rows, lock, reg, casc, hand, fate>>
     ELSE Detect(r, key)

\* The scan leaves out what the table knows, unless it failed.
ScanExistingFiles(r, key) ==
  /\ \A i \in RowsOf(key) : rows[i].status = "FAILED"
  /\ Detect(r, key)
  /\ UNCHANGED events

\* Under the lock of its process: the row by name and folder, and the plan.
Plan(r) ==
  LET g == reg[r]
      p == ProcessOf[r]
  IN  /\ g.pc = "lock"
      /\ lock[p] = Nobody
      /\ \E i \in IF RowsOf(g.key) = {} THEN {Nobody} ELSE RowsOf(g.key) :
           LET old == IF i = Nobody THEN NoRow ELSE rows[i]
               plan == IF g.key[1] = Test THEN [path |-> "drive", status |-> "PENDING_APPROVAL"]
                       ELSE Decision(g.tmpls, With("APPROVED"), With("REJECTED"), mode)
           IN  IF i # Nobody /\ old.status \notin {"FAILED", "REJECTED", "PENDING_APPROVAL"}
               THEN /\ reg' = [reg EXCEPT ![r] = Idle]
                    /\ UNCHANGED lock
               ELSE /\ lock' = [lock EXCEPT ![p] = r]
                    /\ reg' = [reg EXCEPT ![r] =
                         [g EXCEPT !.pc = "move", !.id = i, !.read = old,
                                   !.path = plan.path, !.status = plan.status]]
  /\ UNCHANGED <<verdict, mode, decisions, store, rows, events, casc, hand, fate>>

Release(r) ==
  /\ lock' = [lock EXCEPT ![ProcessOf[r]] = Nobody]
  /\ reg' = [reg EXCEPT ![r] = Idle]

\* unlink, then move.  A new file is unlinked for whatever stands at the
\* destination even if the source has gone meanwhile; the move then fails and
\* the thread gives up.  A known file whose source has gone is not moved.
MoveToQueue(r) ==
  LET g == reg[r]
      n == g.key[2]
      d == drive[g.key]
  IN  /\ g.pc = "move"
      /\ IF g.path = "drive" \/ (d = NoFile /\ g.id # Nobody)
         THEN /\ reg' = [reg EXCEPT ![r].pc = "commit"]
              /\ UNCHANGED <<store, lock>>
         ELSE IF d = NoFile
         THEN /\ queue' = Put(g.path, n, NoFile)
              /\ Release(r)
              /\ UNCHANGED drive
         ELSE /\ queue' = Put(g.path, n, d)
              /\ drive' = [drive EXCEPT ![g.key] = NoFile]
              /\ reg' = [reg EXCEPT ![r] = [g EXCEPT !.pc = "commit", !.tmpls = TemplatesOf[d]]]
              /\ UNCHANGED lock
      /\ UNCHANGED <<verdict, mode, decisions, rows, events, casc, hand, fate>>

\* A test file asks for its template to be looked at again, and for the files
\* that were rejected with it.
ResetTemplate(g) ==
  IF g.key[1] # Test THEN verdict ELSE
    [t \in Templates |-> IF t \in g.tmpls THEN "PENDING" ELSE verdict[t]]

Reconsidered(g, table) ==
  [i \in RowIds |->
     IF /\ g.key[1] = Test /\ g.tmpls # {}
        /\ table[i] \notin {NoRow, DeletedRow} /\ table[i].key[1] # Test
        /\ table[i].tmpls = g.tmpls /\ table[i].status = "REJECTED"
     THEN [table[i] EXCEPT !.status = "PENDING_APPROVAL"]
     ELSE table[i]]

\* The row a known name gets; its counters and breakdown stay what they were.
Rewritten(g, old) == [old EXCEPT !.path = g.path, !.status = g.status, !.run = FALSE]

NewRow(g) == [key |-> g.key, path |-> g.path, status |-> g.status, tmpls |-> g.tmpls,
              run |-> FALSE, proc |-> FALSE]

CommitRow(r) ==
  LET g == reg[r]
  IN  /\ g.pc = "commit"
      /\ r \in Watchers
      /\ IF g.id = Nobody
         THEN \E i \in First(Unused) :
                rows' = Reconsidered(g, [rows EXCEPT ![i] = NewRow(g)])
         ELSE /\ g.id \in Live
              /\ rows' = Reconsidered(g, [rows EXCEPT ![g.id] =
                   Over(@, g.read, Rewritten(g, g.read))])
      /\ verdict' = ResetTemplate(g)
      /\ Release(r)
      /\ UNCHANGED <<mode, decisions, store, events, casc, hand, fate>>

\* The row is gone, or the count or the database fails: rolled back, with the
\* file where it was moved to.
CommitFails(r) ==
  /\ r \in Watchers
  /\ reg[r].pc = "commit"
  /\ \/ reg[r].id # Nobody /\ reg[r].id \notin Live
     \/ "commit" \in Faults
  /\ Release(r)
  /\ UNCHANGED <<verdict, mode, decisions, store, rows, events, casc, hand, fate>>
-----------------------------------------------------------------------------
(* The background tasks of upload-gmf: no lock, and what the templates and    *)
(* the mode were when the task began.                                       *)

Upload(u, d, kind) ==
  /\ reg[u].pc = "idle"
  /\ d \notin sent
  /\ sent' = sent \cup {d}
  /\ reg' = [reg EXCEPT ![u] =
       [Idle EXCEPT !.pc = kind, !.d = d, !.key = Key(d), !.tmpls = TemplatesOf[d],
                    !.appr = With("APPROVED"), !.rej = With("REJECTED"), !.mode = mode]]
  /\ UNCHANGED <<verdict, mode, decisions, store, rows, lock, events, casc, hand, printed, failed, dropped>>

Destination(g, m) ==
  IF g.key[1] = Test THEN [path |-> "drive", status |-> "PENDING_APPROVAL"]
  ELSE Decision(g.tmpls, g.appr, g.rej, m)

Found(key) == IF RowsOf(key) = {} THEN {Nobody} ELSE RowsOf(key)

\* A file that was billed already is thrown away; any other is planned.
StageRow(u) ==
  LET g == reg[u]
      plan == Destination(g, mode)
  IN  /\ g.pc = "stage"
      /\ \E i \in Found(g.key) :
           IF i # Nobody /\ rows[i].status = "COMPLETED"
           THEN /\ dropped' = dropped \cup {g.d}
                /\ reg' = [reg EXCEPT ![u] = Idle]
           ELSE /\ reg' = [reg EXCEPT ![u] =
                     [g EXCEPT !.pc = "place", !.path = plan.path, !.status = plan.status,
                               !.id = i, !.read = IF i = Nobody THEN NoRow ELSE rows[i]]]
                /\ UNCHANGED dropped
      /\ UNCHANGED <<verdict, mode, decisions, store, rows, lock, events, casc, hand, sent, printed, failed>>

\* The file to where its row says, over what stands there.
Place(g) ==
  IF g.path = "drive"
  THEN /\ drive' = [drive EXCEPT ![g.key] = g.d]
       /\ events' = events \cup {g.key}
       /\ UNCHANGED queue
  ELSE /\ queue' = Put(g.path, g.key[2], g.d)
       /\ UNCHANGED <<drive, events>>

StageMove(u) ==
  /\ reg[u].pc = "place"
  /\ Place(reg[u])
  /\ reg' = [reg EXCEPT ![u].pc = "commit", ![u].d = NoFile]
  /\ UNCHANGED <<verdict, mode, decisions, rows, lock, casc, hand, fate>>

\* A row that was deleted meanwhile fails the commit, and the whole task.
StageCommit(u) ==
  LET g == reg[u]
  IN  /\ g.pc = "commit"
      /\ u \in Uploaders
      /\ \/ /\ g.id = Nobody
            /\ \E i \in First(Unused) : rows' = [rows EXCEPT ![i] = NewRow(g)]
         \/ /\ g.id # Nobody
            /\ rows' = [rows EXCEPT ![g.id] =
                 IF g.id \in Live THEN Over(@, g.read, Rewritten(g, g.read)) ELSE @]
      /\ verdict' = IF g.key[1] = Test /\ g.id \in Live \cup {Nobody}
                    THEN ResetTemplate(g) ELSE verdict
      /\ reg' = [reg EXCEPT ![u] = Idle]
      /\ UNCHANGED <<mode, decisions, store, lock, events, casc, hand, fate>>

\* From a ZIP: the row first, whatever it says, then the file.
ZipRow(u) ==
  LET g == reg[u]
      plan == Destination(g, g.mode)
      h == [g EXCEPT !.pc = "copy", !.path = plan.path, !.status = plan.status]
  IN  /\ g.pc = "zip"
      /\ \E i \in Found(g.key) :
           IF i = Nobody
           THEN \E j \in First(Unused) : rows' = [rows EXCEPT ![j] = NewRow(h)]
           ELSE rows' = [rows EXCEPT ![i] = [Rewritten(h, @) EXCEPT !.tmpls = g.tmpls]]
      /\ reg' = [reg EXCEPT ![u] = h]
      /\ UNCHANGED <<verdict, mode, decisions, store, lock, events, casc, hand, fate>>

ZipCopy(u) ==
  /\ reg[u].pc = "copy"
  /\ Place(reg[u])
  /\ reg' = [reg EXCEPT ![u] = Idle]
  /\ UNCHANGED <<verdict, mode, decisions, rows, lock, casc, hand, fate>>
-----------------------------------------------------------------------------
(* update_template_status: the verdict is committed, then every waiting file  *)
(* is looked at, moved at once and rewritten in one commit at the end.       *)

SetTemplate(t, v) ==
  /\ casc.pc = "idle"
  /\ Decide
  /\ verdict' = [verdict EXCEPT ![t] = v]
  /\ casc' = [Quiet EXCEPT !.pc = "load", !.verdict = v, !.t = t]
  /\ UNCHANGED <<mode, store, rows, lock, events, reg, hand, fate>>

Candidates(v, t) ==
  {i \in Live :
     \/ /\ v = "APPROVED"
        /\ rows[i].status \in {"PENDING_APPROVAL", "REJECTED", "PARTIALLY_PROCESSED"}
        /\ t \in rows[i].tmpls
     \/ /\ v = "REJECTED"
        /\ rows[i].status \in {"PENDING_APPROVAL", "APPROVED", "PARTIALLY_PROCESSED"}}

CascadeLoad ==
  LET chosen == Candidates(casc.verdict, casc.t)
      read == [i \in chosen |-> rows[i]]
  IN  /\ casc.pc = "load"
      /\ casc' = [casc EXCEPT !.pc = "loop", !.appr = With("APPROVED"), !.mode = mode,
                              !.todo = chosen, !.read = read, !.new = read]
      /\ UNCHANGED <<verdict, mode, decisions, store, rows, lock, events, reg, hand, fate>>

Fully(row, appr) == row.tmpls # {} /\ row.tmpls \subseteq appr

\* What an approval makes of a waiting upload.  Nothing looks at whose
\* templates a rejection is about: any upload without an approved one is
\* rejected, and every file goes back to pending.
Judged(row, c) ==
  CASE row.key[1] = Test ->
         IF c.t \in row.tmpls THEN [row EXCEPT !.status = c.verdict] ELSE row
    [] row.key[1] # Test /\ c.verdict = "APPROVED" ->
         [row EXCEPT
            !.status = IF Fully(row, c.appr)
                       THEN IF row.proc THEN "PARTIALLY_PROCESSED" ELSE "APPROVED"
                       ELSE IF row.tmpls \cap c.appr # {} THEN "PARTIALLY_PROCESSED"
                       ELSE "PENDING_APPROVAL",
            !.run = c.mode = "auto" /\ Fully(row, c.appr)]
    [] OTHER ->
         [row EXCEPT
            !.status = IF row.tmpls \cap c.appr = {} THEN "REJECTED"
                       ELSE IF Fully(row, c.appr) THEN @ ELSE "PARTIALLY_PROCESSED"]

Goal(row, c) ==
  IF c.verdict = "APPROVED" /\ c.mode = "auto" /\ Fully(row, c.appr)
  THEN "incoming" ELSE "pending"

CascadeMove(i) ==
  LET row == casc.read[i]
      n == row.key[2]
      to == Goal(row, casc)
      moves == /\ row.key[1] # Test
               /\ row.path \in {"incoming", "pending"} \ {to}
               /\ queue[row.path][n] # NoFile
      new == [Judged(row, casc) EXCEPT !.path = IF moves THEN to ELSE @]
  IN  /\ casc.pc = "loop"
      /\ i \in casc.todo
      /\ queue' = IF moves
                  THEN [queue EXCEPT ![row.path][n] = NoFile, ![to][n] = queue[row.path][n]]
                  ELSE queue
      /\ casc' = [casc EXCEPT !.todo = @ \ {i}, !.new[i] = new]
      /\ UNCHANGED <<verdict, mode, decisions, drive, rows, lock, events, reg, hand, fate>>

\* One row that is gone, and none of the rows is written.
CascadeCommit ==
  LET ids == DOMAIN casc.new
  IN  /\ casc.pc = "loop" /\ casc.todo = {}
      /\ rows' = IF ~(ids \subseteq Live) THEN rows ELSE
           [i \in RowIds |-> IF i \in ids THEN Over(rows[i], casc.read[i], casc.new[i])
                             ELSE rows[i]]
      /\ casc' = Quiet
      /\ UNCHANGED <<verdict, mode, decisions, store, lock, events, reg, hand, fate>>
-----------------------------------------------------------------------------
(* delete_upload *)

\* Only the verdict on a single template protects an upload.
Protected(row) ==
  \E t \in Templates : row.tmpls = {t} /\ verdict[t] \in {"APPROVED", "REJECTED"}

FileAt(row) ==
  CASE row.path = "drive" -> drive[row.key]
    [] row.path \in {"incoming", "pending"} -> queue[row.path][row.key[2]]
    [] OTHER -> NoFile

DeleteUpload(i) ==
  LET row == rows[i]
  IN  /\ i \in Live
      /\ ~Protected(row)
      /\ rows' = [rows EXCEPT ![i] = DeletedRow]
      /\ dropped' = dropped \cup {d \in sent : Key(d) = row.key \/ d = FileAt(row)}
      /\ drive' = IF row.path = "drive" THEN [drive EXCEPT ![row.key] = NoFile] ELSE drive
      /\ queue' = IF row.path \in {"incoming", "pending"}
                  THEN Put(row.path, row.key[2], NoFile) ELSE queue
      /\ UNCHANGED <<verdict, mode, decisions, lock, events, reg, casc, hand, sent, printed, failed>>
-----------------------------------------------------------------------------
(* The worker *)

Claim(n) ==
  /\ hand.pc = "idle"
  /\ queue.incoming[n] # NoFile
  /\ hand' = [EmptyHand EXCEPT !.pc = "look", !.name = n, !.d = queue.incoming[n]]
  /\ queue' = Put("incoming", n, NoFile)
  /\ UNCHANGED <<verdict, mode, decisions, drive, rows, lock, events, reg, casc, fate>>

\* By name alone, so the row may be another folder's.
RowsNamed(n) == {i \in Live : rows[i].key[2] = n /\ rows[i].key[1] # Test}

LookUpRow ==
  /\ hand.pc = "look"
  /\ \/ \E i \in RowsNamed(hand.name) :
          /\ hand' = [hand EXCEPT !.pc = "work", !.id = i]
          /\ rows' = [rows EXCEPT ![i].status = "GENERATING", ![i].run = TRUE]
     \/ /\ RowsNamed(hand.name) = {} /\ hand.tries + 1 < Tries
        /\ hand' = [hand EXCEPT !.tries = @ + 1]
        /\ UNCHANGED rows
  /\ UNCHANGED <<verdict, mode, decisions, store, lock, events, reg, casc, fate>>

DeleteOrphan ==
  /\ hand.pc = "look"
  /\ RowsNamed(hand.name) = {} /\ hand.tries + 1 = Tries
  /\ hand' = EmptyHand
  /\ dropped' = dropped \cup {hand.d}
  /\ UNCHANGED <<verdict, mode, decisions, store, rows, lock, events, reg, casc, sent, printed, failed>>

\* (mutant) every end of the work reads COMPLETED
ClosedCompleted(status, path) ==
  [rows EXCEPT ![hand.id] =
     IF hand.id \in Live
     THEN [@ EXCEPT !.status = "COMPLETED", !.path = path, !.proc = TRUE]
     ELSE @]

\* What the work on a file comes to: everything printed, something failed, or
\* documents left whose templates are not approved.
Closed(status, path) ==
  [rows EXCEPT ![hand.id] =
     IF hand.id \in Live
     THEN [@ EXCEPT !.status = status, !.path = path, !.proc = TRUE]
     ELSE @]

WorkDone(outcome) ==
  /\ hand.pc = "work"
  /\ hand' = EmptyHand
  /\ CASE outcome = "printed" ->
            /\ printed' = printed \cup {hand.d}
            /\ rows' = Closed("COMPLETED", "processed")
            /\ UNCHANGED <<queue, failed>>
       [] outcome = "failed" ->
            /\ "work" \in Faults
            /\ failed' = failed \cup {hand.d}
            /\ rows' = Closed("FAILED", "failed")
            /\ UNCHANGED <<queue, printed>>
       [] outcome = "kept" ->
            /\ ~(TemplatesOf[hand.d] \subseteq With("APPROVED"))
            /\ queue' = Put("pending", hand.name, hand.d)
            /\ rows' = Closed("PARTIALLY_PROCESSED", "pending")
            /\ UNCHANGED <<printed, failed>>
  /\ UNCHANGED <<verdict, mode, decisions, drive, lock, events, reg, casc, sent, dropped>>
-----------------------------------------------------------------------------
Register(r) ==
  \/ Plan(r) \/ MoveToQueue(r) \/ CommitRow(r) \/ CommitFails(r)

Task(u) ==
  \/ \E d \in Deliveries, kind \in {"stage", "zip"} : Upload(u, d, kind)
  \/ StageRow(u) \/ StageMove(u) \/ StageCommit(u) \/ ZipRow(u) \/ ZipCopy(u)

Cascade ==
  \/ \E t \in Templates, v \in {"APPROVED", "REJECTED"} : SetTemplate(t, v)
  \/ CascadeLoad \/ CascadeCommit
  \/ \E i \in RowIds : CascadeMove(i)

Worker ==
  \/ \E n \in Names : Claim(n)
  \/ LookUpRow \/ DeleteOrphan
  \/ \E outcome \in {"printed", "failed", "kept"} : WorkDone(outcome)

Next ==
  \/ \E d \in Deliveries : Drop(d)
  \/ ChangeMode
  \/ \E r \in Watchers, k \in Keys : OnEvent(r, k) \/ ScanExistingFiles(r, k)
  \/ \E r \in Watchers : Register(r)
  \/ \E u \in Uploaders : Task(u)
  \/ Cascade
  \/ \E i \in RowIds : DeleteUpload(i)
  \/ Worker

Spec == Init /\ [][Next]_vars
-----------------------------------------------------------------------------
Path == {"drive", "incoming", "pending", "processed", "failed"}

Row == [key : Keys, path : Path,
        status : {"PENDING_APPROVAL", "APPROVED", "REJECTED", "PARTIALLY_PROCESSED",
                  "GENERATING", "COMPLETED", "FAILED"},
        tmpls : SUBSET Templates, run : BOOLEAN, proc : BOOLEAN]

ASSUME IntakeNulls ==
  /\ NoFile \notin Deliveries
  /\ NoRow \notin Row /\ DeletedRow \notin Row /\ NoRow # DeletedRow
  /\ Nobody \notin RowIds \cup Watchers
  /\ Watchers \cap Uploaders = {}

\* Where a delivery may be.
Somewhere(d) ==
  \/ \E k \in Keys : drive[k] = d
  \/ \E place \in {"incoming", "pending"}, n \in Names : queue[place][n] = d
  \/ \E u \in Uploaders : reg[u].d = d
  \/ hand.d = d
  \/ d \in printed \cup failed \cup dropped

\* A delivery never disappears: it is on the drive, in the queue, at work,
\* printed, failed or thrown away on purpose, unless another one of its name came
\* along, which the queue cannot tell from it (watcher.py:397-439).
NothingLost ==
  \A d \in sent : Somewhere(d) \/ \E e \in sent \ {d} : NameOf[e] = NameOf[d]

\* A row is called COMPLETED only if a file of its name and folder was printed.
CompletedWasPrinted ==
  \A i \in Live :
    rows[i].status = "COMPLETED" => \E d \in printed : Key(d) = rows[i].key

\* The approval of a template rewrites only uploads that still wait: what was
\* taken up and finished since it read them stays as it is ("Cascade status update
\* to pending uploads", billing.py:1768).
CascadeTouchesPending ==
  [][casc.pc = "loop" /\ casc'.pc = "idle" =>
       \A i \in Live : rows'[i].status # rows[i].status =>
         rows[i].status \in {"PENDING_APPROVAL", "APPROVED", "REJECTED",
                            "PARTIALLY_PROCESSED"}]_vars

\* A name and folder have one row ("Avoid duplicate records", watcher.py:241).
OneRowPerKey == \A k \in Keys : Cardinality(RowsOf(k)) <= 1
=============================================================================
